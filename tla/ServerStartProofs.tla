-------------------------- MODULE ServerStartProofs --------------------------
(***************************************************************************)
(* For any number of processes and candidate ports: every server beyond the *)
(* first is paid for by a fault, a command goes on with the server that has *)
(* its session, and commands that met no fault work with one server.        *)
(***************************************************************************)
EXTENDS ServerStart, FiniteSetTheorems, TLAPS

(* The candidates.                                                          *)
LEMMA CandidateFacts ==
  /\ Candidates \in Seq(Port)
  /\ Len(Candidates) \in Nat
  /\ Len(Candidates) >= 1
  /\ Candidates[1] = Primary
  /\ Primary \in Port
  /\ \A i \in 1..Len(Candidates) : Candidates[i] \in Port
<1>1. Alternates \in Seq(Port)
  BY PortAssumption
<1>2. /\ Len(Candidates) = Len(Alternates) + 1
      /\ Candidates[1] = Primary
      /\ Len(Candidates) \in Nat
  BY <1>1 DEF Candidates
<1>3. \A i \in 1..Len(Candidates) : Candidates[i] \in Port
  BY DEF Port
<1>4. Primary \in Port
  BY <1>1, <1>2, <1>3
<1>5. Candidates \in Seq(Port)
  BY <1>1, <1>4 DEF Candidates
<1>6. QED
  BY <1>1, <1>2, <1>3, <1>4, <1>5

(* There are as many ports as candidates.                                   *)
LEMMA PortsFinite == IsFiniteSet(Port) /\ Cardinality(Port) = Len(Candidates)
<1> DEFINE f == [i \in 1..Len(Candidates) |-> Candidates[i]]
<1>1. IsFiniteSet(1..Len(Candidates))
  BY CandidateFacts, FS_Interval
<1>2. f \in Surjection(1..Len(Candidates), Port)
  BY CandidateFacts DEF Surjection, Port
<1>3. IsFiniteSet(Port)
  BY <1>1, <1>2, FS_Surjection
<1>4. QED
  BY <1>3, PortAssumption

(* The servers are no more than the ports, before a step and after it.      *)
LEMMA ServersFinite ==
  /\ IsFiniteSet(Servers)
  /\ Cardinality(Servers) \in Nat
  /\ Cardinality(Servers) <= Len(Candidates)
  /\ IsFiniteSet(Servers')
  /\ Cardinality(Servers') \in Nat
<1>1. ASSUME NEW S \in SUBSET Port
      PROVE  /\ IsFiniteSet(S)
             /\ Cardinality(S) \in Nat
             /\ Cardinality(S) <= Len(Candidates)
  <2>1. IsFiniteSet(S) /\ Cardinality(S) <= Cardinality(Port)
    BY PortsFinite, FS_Subset
  <2>2. QED
    BY <2>1, PortsFinite, FS_CardinalityType
<1>2. Servers \in SUBSET Port /\ Servers' \in SUBSET Port
  BY DEF Servers
<1>3. QED
  BY <1>1, <1>2

(* A server too many has been paid for once there is a fault.               *)
LEMMA FaultPays ==
  ASSUME EachServerPaidFor, spent \in Nat, Fault, port' = port
  PROVE  Paid'
<1>1. Servers' = Servers
  BY DEF Servers
<1>2. Cardinality(Servers) <= 1 + spent
  BY DEF EachServerPaidFor, Servers
<1>3. QED
  BY <1>1, <1>2, ServersFinite, CandidateFacts DEF Fault, Paid

(* So it has once a server goes.                                            *)
LEMMA ExitPays ==
  ASSUME EachServerPaidFor, TypeOK, spent' = spent,
         NEW c \in Port, port[c] \in OpenCode,
         NEW s \in {"free", "foreign"}, port' = [port EXCEPT ![c] = s]
  PROVE  Paid'
<1>1. Servers' = Servers \ {c}
  BY DEF Servers, TypeOK, OpenCode
<1>2. Cardinality(Servers) <= 1 + spent
  BY DEF EachServerPaidFor, Servers
<1>3. c \in Servers
  BY DEF Servers
<1>4. Cardinality(Servers') = Cardinality(Servers) - 1
  BY <1>1, <1>3, ServersFinite, FS_RemoveElement
<1>5. spent \in Nat
  BY CandidateFacts DEF TypeOK
<1>6. QED
  BY <1>2, <1>4, <1>5, ServersFinite DEF Paid

(* Where the set of servers stays, nothing is owed that was not.            *)
LEMMA SameServers ==
  ASSUME spent' = spent, Servers' = Servers
  PROVE  /\ Paid' <=> Paid
         /\ EachServerPaidFor' <=> EachServerPaidFor
  BY DEF Paid, EachServerPaidFor, Servers

(* Two servers that no fault has paid for are one.                          *)
LEMMA OneServer ==
  ASSUME EachServerPaidFor, spent = 0, NEW c \in Servers, NEW d \in Servers
  PROVE  c = d /\ ~Paid
<1>1. Cardinality(Servers) <= 1
  BY DEF EachServerPaidFor, Servers
<1>2. IsFiniteSet({c}) /\ Cardinality({c}) = 1
  BY FS_Singleton
<1>3. Cardinality({c}) <= Cardinality(Servers)
      /\ (Cardinality(Servers) = Cardinality({c}) => Servers = {c})
  BY ServersFinite, FS_Subset
<1>4. Cardinality(Servers) = 1
  BY <1>1, <1>2, <1>3, ServersFinite
<1>5. QED
  BY <1>2, <1>3, <1>4 DEF Paid

-----------------------------------------------------------------------------
(* The types.                                                               *)

LEMMA CodeFacts ==
  ASSUME NEW failure \in OpenCodeFailure
  PROVE  OpenCodeErrorCode(failure) \in ErrorCode
<1>1. CASE failure \in [kind : {"transport"}, stage : {"before", "possibly"}]
  BY <1>1 DEF OpenCodeErrorCode, ErrorCode
<1>2. CASE failure \in [kind : {"protocol", "rate"}]
  BY <1>2 DEF OpenCodeErrorCode, ErrorCode
<1>3. CASE failure \in [kind : {"server"}, status : Status \ {200, 204, 429}]
  BY <1>3 DEF OpenCodeErrorCode, ErrorCode
<1>4. QED
  BY <1>1, <1>2, <1>3 DEF OpenCodeFailure

LEMMA OpenCodeErrorIsNotOk ==
  ASSUME NEW failure \in OpenCodeFailure
  PROVE  OpenCodeErrorCode(failure) # "ok"
  BY CodeFacts DEF ErrorCode

LEMMA TransportFails ==
  \A s \in {"before", "possibly"} :
    [kind |-> "transport", stage |-> s] \in OpenCodeFailure
  BY DEF OpenCodeFailure

LEMMA StartupCodes == \A d : StartupErrorCode(d) \in ErrorCode
  BY DEF StartupErrorCode, ErrorCode

LEMMA FaultType ==
  ASSUME spent \in 0..Len(Candidates), Fault
  PROVE  spent' \in 0..Len(Candidates)
  BY CandidateFacts DEF Fault

LEMMA HintType == Hint \in Port \cup {Absent}
  BY DEF Hint

LEMMA InitType == Init => TypeOK
  BY CandidateFacts, NameAssumption DEF Init, TypeOK, PortStates, OpenCode, Places

LEMMA FailsType ==
  ASSUME TypeOK, NEW p \in Proc, NEW failure \in OpenCodeFailure,
         RequestFails(p, failure)
  PROVE  pc' \in [Proc -> Places] /\ code' \in [Proc -> ErrorCode \cup {"none", "ok"}]
  BY CodeFacts DEF RequestFails, Fail, Goto, TypeOK, Places

LEMMA RequestType ==
  ASSUME TypeOK, NEW p \in Proc, Request(p)
  PROVE  TypeOK'
<1> USE DEF TypeOK, shared
<1>1. CASE ReadRecord(p)
  BY <1>1, HintType DEF ReadRecord, Step, Goto, Places
<1>2. CASE Refused(p)
  BY <1>2, FailsType, TransportFails DEF Refused
<1>3. CASE Rejected(p)
  BY <1>3, FailsType DEF Rejected
<1>4. CASE SessionCreated(p)
  BY <1>4 DEF SessionCreated, Goto, Places
<1>5. CASE ResponseLost(p)
  BY <1>5, FailsType, TransportFails DEF ResponseLost
<1>6. CASE ReadBack(p)
  BY <1>6, HintType DEF ReadBack, Step, Goto, Places, ErrorCode
<1>7. QED
  BY <1>1, <1>2, <1>3, <1>4, <1>5, <1>6 DEF Request

LEMMA DiscardType ==
  ASSUME TypeOK, NEW p \in Proc, NEW from, NEW stage \in StartupStage,
         next[p] <= Len(Candidates), Discard(p, from, stage)
  PROVE  /\ pc' \in [Proc -> Places]
         /\ next' \in [Proc -> 1..Len(Candidates) + 1]
         /\ diagnostics' \in [Proc -> SUBSET StartupStage]
<1>1. next[p] + 1 \in 1..Len(Candidates) + 1
  BY CandidateFacts DEF TypeOK
<1>2. QED
  BY <1>1 DEF Discard, Step, Goto, Places, TypeOK

LEMMA StartType ==
  ASSUME TypeOK, PlaceInv, NEW p \in Proc, Start(p)
  PROVE  TypeOK'
<1> USE DEF TypeOK, shared
<1>a. /\ \A s \in StartupStage : s \in {"availability", "spawn", "readiness"}
      /\ "availability" \in StartupStage /\ "spawn" \in StartupStage
      /\ "readiness" \in StartupStage
  BY DEF StartupStage
<1>b. pc[p] \in {"probe", "spawn", "wait", "write"} =>
        next[p] <= Len(Candidates) /\ Candidate(p) \in Port
  BY CandidateFacts DEF PlaceInv, Candidate
<1>1. CASE Reread(p)
  BY <1>1, HintType DEF Reread, Step, Goto, Places
<1>2. CASE RecordIsLive(p)
  BY <1>2 DEF RecordIsLive, Step, Goto, Places
<1>3. CASE RecordIsDead(p)
  BY <1>3, FaultType DEF RecordIsDead, Step, Goto, Places
<1>4. CASE Available(p)
  BY <1>4 DEF Available, Step, Goto, Places
<1>5. CASE Occupied(p)
  <2>1. CASE Candidate(p) = Primary
    BY <1>5, <2>1 DEF Occupied, Step, Goto, Places
  <2>2. CASE Candidate(p) # Primary
    BY <1>5, <2>2, <1>a, DiscardType DEF Occupied, Discard
  <2>3. QED
    BY <2>1, <2>2
<1>6. CASE Probe(p)
  <2>1. CASE Discard(p, "probe", "availability")
    BY <1>6, <2>1, <1>a, <1>b, DiscardType, FaultType DEF Probe, Discard, Step
  <2>2. CASE ~Discard(p, "probe", "availability")
    BY <1>6, <2>2 DEF Probe, Step, Goto, Places
  <2>3. QED
    BY <2>1, <2>2
<1>7. CASE Spawn(p)
  <2>1. CASE Discard(p, "spawn", "spawn")
    BY <1>7, <2>1, <1>a, <1>b, DiscardType DEF Spawn, Discard, Step
  <2>2. CASE ~Discard(p, "spawn", "spawn")
    BY <1>7, <2>2, <1>b DEF Spawn, Step, Goto, Places, PortStates, OpenCode
  <2>3. QED
    BY <2>1, <2>2
<1>8. CASE BecameReady(p)
  BY <1>8 DEF BecameReady, Step, Goto, Places
<1>9. CASE NotReady(p)
  BY <1>9, <1>a, <1>b, DiscardType, FaultType DEF NotReady, Discard, Step
<1>10. CASE WriteRecord(p)
  BY <1>10, <1>b DEF WriteRecord, Step, Goto, Places
<1>11. CASE WriteFails(p)
  BY <1>11, FaultType DEF WriteFails, Fail, Goto, Places, ErrorCode
<1>12. CASE Exhausted(p)
  BY <1>12, StartupCodes DEF Exhausted, Fail, Goto, Places
<1>13. CASE Unlock(p)
  BY <1>13 DEF Unlock, Step, Goto, Places
<1>14. QED
  BY <1>1, <1>2, <1>3, <1>4, <1>5, <1>6, <1>7, <1>8, <1>9, <1>10, <1>11, <1>12,
     <1>13 DEF Start

LEMMA SurroundingsType ==
  ASSUME TypeOK, NEW c \in Port, Surroundings(c)
  PROVE  TypeOK'
<1>1. \A from, to : to \in PortStates /\ Becomes(c, from, to) => TypeOK'
  BY DEF Becomes, TypeOK, local
<1>2. QED
  BY <1>1 DEF Surroundings, ServerBinds, ServerReady, ServerExits, StrangerTakes,
     StrangerLeaves, PortStates, OpenCode

LEMMA NextType == TypeOK /\ PlaceInv /\ [Next]_vars => TypeOK'
<1> SUFFICES ASSUME TypeOK, PlaceInv, [Next]_vars PROVE TypeOK'
  OBVIOUS
<1>1. CASE UNCHANGED vars
  BY <1>1 DEF vars, shared, local, TypeOK
<1>2. ASSUME NEW p \in Proc, AcquireStartLock(p) PROVE TypeOK'
  BY <1>2 DEF AcquireStartLock, Step, Goto, Places, TypeOK
<1>3. ASSUME NEW p \in Proc, Kill(p) PROVE TypeOK'
  BY <1>3, FaultType DEF Kill, Goto, Places, TypeOK
<1>4. QED
  BY <1>1, <1>2, <1>3, RequestType, StartType, SurroundingsType DEF Next
-----------------------------------------------------------------------------
(* The lock and the places.                                                 *)

LEMMA RequestLock ==
  ASSUME TypeOK, LockInv, NEW p \in Proc, Request(p)
  PROVE  LockInv'
<1>1. lock' = lock /\ pc[p] \notin Holding
  BY DEF Request, ReadRecord, Refused, Rejected, SessionCreated, ResponseLost, ReadBack,
     Step, Sending, shared, Holding
<1>2. pc' = [pc EXCEPT ![p] = pc'[p]] /\ pc'[p] \notin Holding
  BY DEF Request, ReadRecord, Refused, Rejected, SessionCreated, ResponseLost, ReadBack,
     Step, Goto, Fail, RequestFails, Holding, TypeOK
<1>3. QED
  BY <1>1, <1>2 DEF LockInv, TypeOK

LEMMA StartLock ==
  ASSUME TypeOK, LockInv, NEW p \in Proc, Start(p)
  PROVE  LockInv'
<1>1. pc[p] \in Holding
  BY DEF Start, Reread, RecordIsLive, RecordIsDead, Available, Occupied, Probe, Spawn,
     BecameReady, NotReady, WriteRecord, WriteFails, Exhausted, Unlock, Discard, Step,
     Holding
<1>2. pc' = [pc EXCEPT ![p] = pc'[p]]
  BY DEF Start, Reread, RecordIsLive, RecordIsDead, Available, Occupied, Probe, Spawn,
     BecameReady, NotReady, WriteRecord, WriteFails, Exhausted, Unlock, Discard, Step,
     Goto, Fail, TypeOK
<1>3. \/ lock' = lock /\ pc'[p] \in Holding
      \/ lock' = Nobody /\ pc'[p] \notin Holding
  BY DEF Start, Reread, RecordIsLive, RecordIsDead, Available, Occupied, Probe, Spawn,
     BecameReady, NotReady, WriteRecord, WriteFails, Exhausted, Unlock, Discard, Step,
     Goto, Fail, TypeOK, Holding, shared
<1>4. QED
  BY <1>1, <1>2, <1>3, NameAssumption DEF LockInv, TypeOK

LEMMA NextLock == TypeOK /\ LockInv /\ [Next]_vars => LockInv'
<1> SUFFICES ASSUME TypeOK, LockInv, [Next]_vars PROVE LockInv'
  OBVIOUS
<1>1. CASE UNCHANGED vars
  BY <1>1 DEF vars, shared, local, LockInv
<1>2. ASSUME NEW p \in Proc, AcquireStartLock(p) PROVE LockInv'
  BY <1>2, NameAssumption DEF AcquireStartLock, Step, Goto, Holding, LockInv, TypeOK
<1>3. ASSUME NEW p \in Proc, Kill(p) PROVE LockInv'
  BY <1>3, NameAssumption DEF Kill, Goto, Holding, LockInv, TypeOK
<1>4. ASSUME NEW c \in Port, Surroundings(c) PROVE lock' = lock /\ pc' = pc
  BY <1>4 DEF Surroundings, ServerBinds, ServerReady, ServerExits, StrangerTakes,
     StrangerLeaves, Becomes, local
<1>5. QED
  BY <1>1, <1>2, <1>3, <1>4, RequestLock, StartLock, NameAssumption DEF Next, LockInv

(* What a process knows of itself, for one process.                         *)
Knows(p) ==
  /\ pc[p] \in {"idle", "send", "lock", "reread", "live"} => next[p] = 1
  /\ pc[p] \in {"probe", "spawn", "wait", "write"} => next[p] <= Len(Candidates)
  /\ pc[p] \in {"send", "live", "unlock", "resend", "readback"} => seen[p] \in Port
  /\ pc[p] = "live" => seen[p] = record
  /\ pc[p] = "readback" => home[p] = seen[p]
  /\ code[p] # "none" => pc[p] = "ended"
  /\ code[p] = "ok" => client[p] \in Port

(* A step changes the variables of one process only.                        *)
Others(p) ==
  \A q \in Proc \ {p} :
    /\ pc'[q] = pc[q] /\ next'[q] = next[q] /\ seen'[q] = seen[q]
    /\ home'[q] = home[q] /\ code'[q] = code[q] /\ client'[q] = client[q]

LEMMA HintFacts ==
  /\ Hint # Absent => Hint \in Port /\ Hint = record
  /\ Hint = Absent => record \notin Port
  BY NameAssumption DEF Hint

LEMMA RequestOthers ==
  ASSUME TypeOK, NEW p \in Proc, Request(p)
  PROVE  Others(p)
  BY DEF Request, ReadRecord, Refused, Rejected, SessionCreated, ResponseLost, ReadBack,
     Step, Goto, Fail, RequestFails, Others, TypeOK

LEMMA StartOthers ==
  ASSUME TypeOK, NEW p \in Proc, Start(p)
  PROVE  Others(p)
  BY DEF Start, Reread, RecordIsLive, RecordIsDead, Available, Occupied, Probe, Spawn,
     BecameReady, NotReady, WriteRecord, WriteFails, Exhausted, Unlock, Discard, Step,
     Goto, Fail, TypeOK, Others

LEMMA RequestPlace ==
  ASSUME TypeOK, LockInv, PlaceInv, NEW p \in Proc, Request(p)
  PROVE  PlaceInv'
<1>1. Knows(p)
  BY DEF PlaceInv, Knows
<1>2. record' = record
  BY DEF Request, ReadRecord, Refused, Rejected, SessionCreated, ResponseLost, ReadBack,
     shared
<1>3. Knows(p)'
  <2> USE <1>1 DEF Knows, TypeOK, Step, Goto, shared
  <2>1. CASE ReadRecord(p)
    BY <2>1, HintFacts DEF ReadRecord
  <2>2. CASE Refused(p)
    BY <2>2, OpenCodeErrorIsNotOk, TransportFails DEF Refused, RequestFails, Fail, Sending
  <2>3. CASE Rejected(p)
    BY <2>3, OpenCodeErrorIsNotOk DEF Rejected, RequestFails, Fail, Sending
  <2>4. CASE SessionCreated(p)
    BY <2>4 DEF SessionCreated, Sending
  <2>5. CASE ResponseLost(p)
    BY <2>5, OpenCodeErrorIsNotOk, TransportFails DEF ResponseLost, RequestFails, Fail, Sending
  <2>6. CASE ReadBack(p)
    BY <2>6, HintFacts DEF ReadBack
  <2>7. QED
    BY <2>1, <2>2, <2>3, <2>4, <2>5, <2>6 DEF Request
<1>4. QED
  BY <1>2, <1>3, RequestOthers DEF Others, PlaceInv, Knows

LEMMA StartPlace ==
  ASSUME TypeOK, LockInv, PlaceInv, NEW p \in Proc, Start(p)
  PROVE  PlaceInv'
<1>1. Knows(p)
  BY DEF PlaceInv, Knows
<1>2. Knows(p)'
  <2> USE <1>1 DEF Knows, TypeOK, Step, Goto, shared
  <2>1. CASE Reread(p)
    BY <2>1, HintFacts DEF Reread
  <2>2. CASE RecordIsLive(p) \/ RecordIsDead(p)
    BY <2>2 DEF RecordIsLive, RecordIsDead
  <2>3. CASE Available(p) \/ Occupied(p)
    BY <2>3 DEF Available, Occupied, Discard
  <2>4. CASE Probe(p) \/ Spawn(p)
    BY <2>4 DEF Probe, Spawn, Discard
  <2>5. CASE BecameReady(p) \/ NotReady(p)
    BY <2>5 DEF BecameReady, NotReady, Discard
  <2>6. CASE WriteRecord(p) \/ Unlock(p)
    BY <2>6, CandidateFacts DEF WriteRecord, Unlock, Candidate
  <2>7. CASE WriteFails(p) \/ Exhausted(p)
    BY <2>7, StartupCodes, ZenonT(30) DEF WriteFails, Exhausted, Fail, ErrorCode
  <2>8. QED
    BY <2>1, <2>2, <2>3, <2>4, <2>5, <2>6, <2>7 DEF Start
<1>3. \A q \in Proc \ {p} : pc[q] # "live"
  <2>1. pc[p] \in Holding
    BY DEF Start, Reread, RecordIsLive, RecordIsDead, Available, Occupied, Probe, Spawn,
       BecameReady, NotReady, WriteRecord, WriteFails, Exhausted, Unlock, Discard, Step,
       Holding
  <2>2. QED
    BY <2>1 DEF LockInv, Holding
<1>4. QED
  BY <1>2, <1>3, StartOthers DEF Others, PlaceInv, Knows

LEMMA NextPlace == TypeOK /\ LockInv /\ PlaceInv /\ [Next]_vars => PlaceInv'
<1> SUFFICES ASSUME TypeOK, LockInv, PlaceInv, [Next]_vars PROVE PlaceInv'
  OBVIOUS
<1>1. CASE UNCHANGED vars
  BY <1>1 DEF vars, shared, local, PlaceInv
<1>2. ASSUME NEW p \in Proc, AcquireStartLock(p) PROVE PlaceInv'
  BY <1>2 DEF AcquireStartLock, Step, Goto, PlaceInv, TypeOK
<1>3. ASSUME NEW p \in Proc, Kill(p) PROVE PlaceInv'
  BY <1>3 DEF Kill, Goto, PlaceInv, TypeOK, Ended
<1>4. ASSUME NEW c \in Port, Surroundings(c) PROVE UNCHANGED <<record, local>>
  BY <1>4 DEF Surroundings, ServerBinds, ServerReady, ServerExits, StrangerTakes,
     StrangerLeaves, Becomes
<1>5. ASSUME NEW c \in Port, Surroundings(c) PROVE PlaceInv'
  BY <1>4, <1>5 DEF local, PlaceInv
<1>6. QED
  BY <1>1, <1>2, <1>3, <1>5, RequestPlace, StartPlace DEF Next
-----------------------------------------------------------------------------
(* What the places know of the servers.                                     *)

Starts(p) ==
  /\ pc[p] \in {"start", "probe"} => Paid \/ (next[p] = 1 /\ Unrecorded)
  /\ pc[p] = "spawn" => Paid
  /\ pc[p] = "wait" => Paid \/ port[Candidate(p)] \in OpenCode
  /\ pc[p] = "write" => Paid \/ port[Candidate(p)] = "healthy"

Owed == EachServerPaidFor /\ RestInv /\ StartInv

(* What has been paid for needs no further account.                         *)
LEMMA PaidSuffices ==
  ASSUME Paid', spent' \in Nat
  PROVE  Owed'
<1>1. EachServerPaidFor'
  BY ServersFinite DEF Paid, EachServerPaidFor, Servers
<1>2. RestInv' /\ StartInv'
  BY DEF RestInv, StartInv, Accounted
<1>3. QED
  BY <1>1, <1>2 DEF Owed

(* Reading the hint does not make the server on the primary port recorded.  *)
LEMMA StaysUnrecorded ==
  ASSUME TypeOK, Unrecorded, NEW p \in Proc, port' = port, record' = record,
         seen' = seen \/ seen' = [seen EXCEPT ![p] = Hint]
  PROVE  Unrecorded'
<1>1. Hint # Primary
  BY NameAssumption, CandidateFacts DEF Unrecorded, Hint
<1>2. QED
  BY <1>1 DEF Unrecorded, TypeOK

LEMMA RequestOwed ==
  ASSUME TypeOK, LockInv, Owed, NEW p \in Proc, Request(p)
  PROVE  Owed'
<1>1. UNCHANGED <<shared, next, spent>>
  BY DEF Request, ReadRecord, Refused, Rejected, SessionCreated, ResponseLost, ReadBack
<1>2. seen' = seen \/ seen' = [seen EXCEPT ![p] = Hint]
  BY DEF Request, ReadRecord, Refused, Rejected, SessionCreated, ResponseLost, ReadBack
<1>3. pc[p] \notin Holding /\ pc'[p] \notin Holding
  BY DEF Request, ReadRecord, Refused, Rejected, SessionCreated, ResponseLost, ReadBack,
     Step, Goto, Fail, RequestFails, Sending, Holding, TypeOK
<1>4. \A q \in Proc \ {p} : pc'[q] = pc[q]
  BY RequestOthers DEF Others
<1>5. Unrecorded => Unrecorded'
  BY <1>1, <1>2, StaysUnrecorded DEF shared
<1>6. Servers' = Servers
  BY <1>1 DEF Servers, shared
<1>7. (Paid' <=> Paid) /\ EachServerPaidFor'
  BY <1>1, <1>6, SameServers DEF Owed
<1>8. RestInv'
  <2>1. Accounted => Accounted'
    BY <1>1, <1>5, <1>7 DEF Accounted, shared
  <2>2. lock # p
    BY <1>3 DEF LockInv
  <2>3. QED
    BY <1>1, <1>4, <2>1, <2>2 DEF RestInv, Owed, shared
<1>9. StartInv'
  BY <1>1, <1>3, <1>4, <1>5, <1>7 DEF StartInv, Owed, shared, Holding, Candidate
<1>10. QED
  BY <1>7, <1>8, <1>9 DEF Owed

(* Of the steps under the lock only those of its holder count.              *)
LEMMA HolderOwed ==
  ASSUME TypeOK, LockInv, NEW p \in Proc, Start(p),
         EachServerPaidFor', Starts(p)',
         pc'[p] \in {"start", "probe", "spawn", "wait", "write"} \/ Accounted'
  PROVE  Owed'
<1>1. lock = p
  BY DEF LockInv, Start, Reread, RecordIsLive, RecordIsDead, Available, Occupied, Probe,
     Spawn, BecameReady, NotReady, WriteRecord, WriteFails, Exhausted, Unlock, Discard,
     Step, Holding
<1>2. \A q \in Proc \ {p} : pc'[q] \notin Holding
  BY <1>1, StartOthers DEF LockInv, Others
<1>3. pc'[p] \in Holding => lock' = p
  BY <1>1, StartLock DEF LockInv
<1>4. RestInv'
  BY <1>3 DEF RestInv, Holding
<1>5. StartInv'
  BY <1>2 DEF StartInv, Starts, Holding
<1>6. QED
  BY <1>4, <1>5 DEF Owed

LEMMA StartOwed ==
  ASSUME TypeOK, LockInv, PlaceInv, Owed, NEW p \in Proc, Start(p)
  PROVE  Owed'
<1>a. /\ EachServerPaidFor
      /\ spent \in Nat /\ spent' \in Nat
  BY StartType, CandidateFacts DEF Owed, TypeOK
<1>b. Starts(p)
  BY DEF Starts, StartInv, Owed
<1>c. Knows(p)
  BY DEF PlaceInv, Knows
<1>d. /\ pc'[p] \in {"start", "probe", "spawn", "wait", "write"} \/ Accounted'
      /\ Starts(p)' /\ EachServerPaidFor'
      => Owed'
  BY HolderOwed
<1>e. ASSUME Fault, port' = port PROVE Owed'
  BY <1>a, <1>e, FaultPays, PaidSuffices
<1>f. ASSUME spent' = spent, port' = port
      PROVE  (Paid' <=> Paid) /\ EachServerPaidFor'
  <2>1. Servers' = Servers
    BY <1>f DEF Servers
  <2>2. QED
    BY <1>a, <1>f, <2>1, SameServers
<1>g. ASSUME Paid, spent' = spent, port' = port PROVE Owed'
  BY <1>a, <1>f, <1>g, PaidSuffices
<1>h. pc[p] \in {"reread", "live", "unlock"} => Accounted
  BY DEF LockInv, RestInv, Owed, Holding
<1>i. next[p] = 1 => Candidate(p) = Primary
  BY CandidateFacts DEF Candidate
<1>1. CASE Reread(p)
  <2>1. Unrecorded => Unrecorded'
    BY <1>1, StaysUnrecorded DEF Reread, shared
  <2>2. UNCHANGED <<port, record, next, spent>> /\ pc[p] = "reread"
        /\ pc'[p] = IF Hint # Absent THEN "live" ELSE "start"
    BY <1>1 DEF Reread, shared, Step, Goto, TypeOK
  <2>3. Accounted'
    BY <1>f, <1>h, <2>1, <2>2 DEF Accounted
  <2>4. Starts(p)'
    BY <1>c, <1>f, <1>h, <2>1, <2>2, HintFacts DEF Starts, Accounted, Knows
  <2>5. QED
    BY <1>d, <1>f, <2>2, <2>3, <2>4
<1>2. CASE RecordIsLive(p)
  <2>1. UNCHANGED <<port, record, seen, next, spent>> /\ pc[p] = "live" /\ pc'[p] = "unlock"
    BY <1>2 DEF RecordIsLive, shared, Step, Goto, TypeOK
  <2>2. Accounted' /\ Starts(p)'
    BY <1>f, <1>h, <2>1 DEF Accounted, Starts, Unrecorded
  <2>3. QED
    BY <1>d, <1>f, <2>1, <2>2
<1>3. CASE RecordIsDead(p)
  <2>1. UNCHANGED <<port, record, seen, next>> /\ pc[p] = "live" /\ pc'[p] = "start"
    BY <1>3 DEF RecordIsDead, shared, Step, Goto, TypeOK
  <2>2. CASE port[seen[p]] \in Listening
    BY <1>3, <1>e, <2>1, <2>2 DEF RecordIsDead
  <2>3. CASE port[seen[p]] \notin Listening
    <3>1. spent' = spent
      BY <1>3, <2>3 DEF RecordIsDead
    <3>2. port[record] # "healthy"
      BY <1>c, <2>1, <2>3 DEF Knows, Listening
    <3>3. Starts(p)'
      BY <1>c, <1>f, <1>h, <2>1, <3>1, <3>2 DEF Starts, Accounted, Unrecorded, Knows
    <3>4. QED
      BY <1>d, <1>f, <2>1, <3>1, <3>3
  <2>4. QED
    BY <2>2, <2>3
  \* An unrecorded server on the primary port is listening there.
<1>4. CASE Available(p)
  <2>1. Paid
    BY <1>4, <1>b, <1>i DEF Available, Step, Starts, Unrecorded, Listening
  <2>2. QED
    BY <1>4, <1>g, <2>1 DEF Available, shared
<1>5. CASE Occupied(p)
  <2>1. CASE Paid
    BY <1>5, <1>g, <2>1 DEF Occupied, Discard, shared
  <2>2. CASE ~Paid
    <3>1. UNCHANGED <<port, record, seen, next, spent>> /\ pc'[p] = "probe"
      BY <1>5, <1>b, <1>i, <2>2 DEF Occupied, shared, Step, Goto, TypeOK, Starts, Discard
    <3>2. Starts(p)'
      BY <1>5, <1>b, <1>f, <3>1 DEF Starts, Unrecorded, Occupied, Discard, Step
    <3>3. QED
      BY <1>d, <1>f, <3>1, <3>2
  <2>3. QED
    BY <2>1, <2>2
<1>6. CASE Probe(p)
  <2>1. CASE Discard(p, "probe", "availability")
    <3>1. CASE port[Candidate(p)] = "healthy" /\ Fault
      BY <1>e, <2>1, <3>1 DEF Discard, shared
    <3>2. CASE ~(port[Candidate(p)] = "healthy" /\ Fault)
      <4>1. port[Candidate(p)] # "healthy" /\ spent' = spent
        BY <1>6, <2>1, <3>2 DEF Probe, Step, Goto, Discard, TypeOK
      <4>2. Paid
        BY <1>b, <1>i, <2>1, <4>1 DEF Starts, Discard, Step, Unrecorded
      <4>3. QED
        BY <1>g, <2>1, <4>1, <4>2 DEF Discard, shared
    <3>3. QED
      BY <3>1, <3>2
  <2>2. CASE ~Discard(p, "probe", "availability")
    <3>1. UNCHANGED <<port, next, spent>> /\ pc'[p] = "write" /\ port[Candidate(p)] = "healthy"
      BY <1>6, <2>2 DEF Probe, shared, Step, Goto, TypeOK
    <3>2. Starts(p)'
      BY <3>1 DEF Starts, Candidate
    <3>3. QED
      BY <1>d, <1>f, <3>1, <3>2
  <2>3. QED
    BY <2>1, <2>2
  \* The one step that adds a server, where one more is paid for.
<1>7. CASE Spawn(p)
  <2>1. Paid
    BY <1>7, <1>b DEF Spawn, Discard, Step, Starts
  <2>2. CASE port' = port
    BY <1>7, <1>g, <2>1, <2>2 DEF Spawn, Discard
  <2>3. CASE port' # port
    <3>1. /\ pc[p] = "spawn" /\ pc'[p] = "wait"
          /\ port' = [port EXCEPT ![Candidate(p)] = "starting"]
          /\ UNCHANGED <<record, seen, next, spent>>
      BY <1>7, <2>3 DEF Spawn, Discard, shared, Step, Goto, TypeOK
    <3>2. Candidate(p) \in Port
      BY <1>c, <3>1, CandidateFacts DEF Knows, Candidate, TypeOK
    <3>3. Servers' \subseteq Servers \cup {Candidate(p)}
      BY <3>1, <3>2 DEF Servers, TypeOK
    <3>4. EachServerPaidFor'
      <4>1. IsFiniteSet(Servers \cup {Candidate(p)})
            /\ Cardinality(Servers \cup {Candidate(p)}) <= Cardinality(Servers) + 1
        <5>1. Cardinality(Servers) \in Nat
          BY ServersFinite, FS_CardinalityType
        <5>2. /\ IsFiniteSet(Servers \cup {Candidate(p)})
              /\ Cardinality(Servers \cup {Candidate(p)}) \in {Cardinality(Servers), Cardinality(Servers) + 1}
          BY ServersFinite, FS_AddElement, Zenon
        <5> QED BY <5>1, <5>2
      <4>2. Cardinality(Servers') <= Cardinality(Servers \cup {Candidate(p)})
        BY <3>3, <4>1, FS_Subset
      <4>3. Cardinality(Servers \cup {Candidate(p)}) \in Nat
        BY <4>1, FS_CardinalityType
      <4>4. Cardinality(Servers') <= 1 + spent'
        BY <1>a, <2>1, <3>1, <4>1, <4>2, <4>3, ServersFinite DEF Paid
      <4>5. QED
        BY <4>4 DEF EachServerPaidFor, Servers
    <3>5. Starts(p)'
      BY <3>1, <3>2 DEF Starts, Candidate, OpenCode, TypeOK
    <3>6. QED
      BY <1>d, <3>1, <3>4, <3>5
  <2>4. QED
    BY <2>2, <2>3
<1>8. CASE BecameReady(p)
  <2>1. UNCHANGED <<port, next, spent>> /\ pc'[p] = "write" /\ port[Candidate(p)] = "healthy"
    BY <1>8 DEF BecameReady, shared, Step, Goto, TypeOK
  <2>2. Starts(p)'
    BY <2>1 DEF Starts, Candidate
  <2>3. QED
    BY <1>d, <1>f, <2>1, <2>2
<1>9. CASE NotReady(p)
  <2>1. port' = port /\ pc[p] = "wait"
    BY <1>9 DEF NotReady, Discard, shared, Step
  <2>2. CASE port[Candidate(p)] \in OpenCode
    BY <1>9, <1>e, <2>1, <2>2 DEF NotReady
  <2>3. CASE port[Candidate(p)] \notin OpenCode
    BY <1>9, <1>b, <1>g, <2>1, <2>3 DEF NotReady, Starts
  <2>4. QED
    BY <2>2, <2>3
<1>10. CASE WriteRecord(p)
  <2>1. /\ UNCHANGED <<port, next, spent>> /\ pc[p] = "write" /\ pc'[p] = "unlock"
        /\ record' = Candidate(p) /\ Candidate(p) \in Port
    BY <1>10, <1>c, CandidateFacts DEF WriteRecord, Step, Goto, TypeOK, Knows, Candidate
  <2>2. Accounted' /\ Starts(p)'
    BY <1>b, <1>f, <2>1 DEF Accounted, Starts
  <2>3. QED
    BY <1>d, <1>f, <2>1, <2>2
<1>11. CASE WriteFails(p)
  BY <1>11, <1>e DEF WriteFails
<1>12. CASE Exhausted(p)
  <2>1. Paid
    BY <1>12, <1>b, CandidateFacts DEF Exhausted, Starts
  <2>2. QED
    BY <1>12, <1>g, <2>1 DEF Exhausted
<1>13. CASE Unlock(p)
  <2>1. UNCHANGED <<port, record, seen, next, spent>> /\ pc[p] = "unlock" /\ pc'[p] = "resend"
    BY <1>13 DEF Unlock, shared, Step, Goto, TypeOK
  <2>2. Accounted' /\ Starts(p)'
    BY <1>f, <1>h, <2>1 DEF Accounted, Starts, Unrecorded
  <2>3. QED
    BY <1>d, <1>f, <2>1, <2>2
<1>14. QED
  BY <1>1, <1>2, <1>3, <1>4, <1>5, <1>6, <1>7, <1>8, <1>9, <1>10, <1>11, <1>12,
     <1>13 DEF Start
(* A server that comes up stays a server, one that goes pays for another.   *)
LEMMA SurroundingsOwed ==
  ASSUME TypeOK, PlaceInv, Owed, NEW c \in Port, Surroundings(c)
  PROVE  Owed'
<1>1. UNCHANGED <<record, lock, local, spent>>
  BY DEF Surroundings, ServerBinds, ServerReady, ServerExits, StrangerTakes,
     StrangerLeaves, Becomes
<1>2. EachServerPaidFor /\ spent' \in Nat
  BY <1>1, CandidateFacts DEF Owed, TypeOK
<1>3. ASSUME NEW s \in {"free", "foreign"}, port[c] \in OpenCode,
             port' = [port EXCEPT ![c] = s]
      PROVE  Owed'
  BY <1>1, <1>2, <1>3, ExitPays, PaidSuffices
<1>4. ASSUME NEW s \in PortStates, port[c] # "healthy", port' = [port EXCEPT ![c] = s],
             port[c] \in OpenCode <=> s \in OpenCode
      PROVE  Owed'
  <2>1. Servers' = Servers
    BY <1>4 DEF Servers, TypeOK
  <2>2. (Paid' <=> Paid) /\ EachServerPaidFor'
    BY <1>1, <1>2, <2>1, SameServers
  <2>3. \A d \in Port :
          /\ port[d] = "healthy" => port'[d] = "healthy"
          /\ port[d] \in OpenCode => port'[d] \in OpenCode
    BY <1>4 DEF TypeOK
  <2>4. Unrecorded => Unrecorded'
    BY <1>1, <2>3, CandidateFacts DEF Unrecorded, local
  <2>5. RestInv'
    <3>1. Accounted => Accounted'
      BY <1>1, <2>2, <2>3, <2>4 DEF Accounted
    <3>2. QED
      BY <1>1, <3>1 DEF RestInv, Owed, local
  <2>6. \A p \in Proc :
          pc[p] \in {"wait", "write"} => Candidate(p) \in Port /\ Candidate(p)' = Candidate(p)
    BY <1>1, CandidateFacts DEF PlaceInv, Candidate, local, TypeOK
  <2>7. StartInv'
    BY <1>1, <2>2, <2>3, <2>4, <2>6 DEF StartInv, Owed, local
  <2>8. QED
    BY <2>2, <2>5, <2>7 DEF Owed
<1>5. CASE ServerBinds(c) \/ ServerReady(c)
  BY <1>4, <1>5 DEF ServerBinds, ServerReady, Becomes, OpenCode, PortStates
<1>6. CASE ServerExits(c)
  BY <1>3, <1>6 DEF ServerExits, Becomes
<1>7. CASE StrangerTakes(c)
  BY <1>3, <1>4, <1>7 DEF StrangerTakes, Becomes, OpenCode, PortStates
<1>8. CASE StrangerLeaves(c)
  BY <1>4, <1>8 DEF StrangerLeaves, Becomes, OpenCode, PortStates
<1>9. QED
  BY <1>5, <1>6, <1>7, <1>8 DEF Surroundings

LEMMA NextOwed ==
  TypeOK /\ LockInv /\ PlaceInv /\ Owed /\ [Next]_vars => Owed'
<1> SUFFICES ASSUME TypeOK, LockInv, PlaceInv, Owed, [Next]_vars PROVE Owed'
  OBVIOUS
<1>1. CASE UNCHANGED vars
  BY <1>1 DEF vars, shared, local, Owed, EachServerPaidFor, RestInv, StartInv, Accounted,
     Paid, Servers, Unrecorded, Candidate
<1>2. ASSUME NEW p \in Proc, AcquireStartLock(p) PROVE Owed'
  <2>1. /\ UNCHANGED <<port, record, seen, next, spent>>
        /\ lock = Nobody /\ lock' = p /\ pc' = [pc EXCEPT ![p] = "reread"]
    BY <1>2 DEF AcquireStartLock, Step, Goto
  <2>2. Accounted
    BY <2>1, NameAssumption DEF Owed, RestInv
  <2>3. Servers' = Servers
    BY <2>1 DEF Servers
  <2>4. (Paid' <=> Paid) /\ EachServerPaidFor'
    BY <2>1, <2>3, SameServers DEF Owed
  <2>5. Accounted'
    BY <2>1, <2>2, <2>4 DEF Accounted, Unrecorded
  <2>6. StartInv'
    BY <2>1, <2>4 DEF StartInv, Owed, Unrecorded, Candidate, TypeOK
  <2>7. QED
    BY <2>4, <2>5, <2>6 DEF Owed, RestInv
<1>3. ASSUME NEW p \in Proc, Kill(p) PROVE Owed'
  <2>1. EachServerPaidFor /\ spent \in Nat /\ spent' \in Nat
    BY <1>3, FaultType, CandidateFacts DEF Owed, TypeOK, Kill
  <2>2. QED
    BY <1>3, <2>1, FaultPays, PaidSuffices DEF Kill
<1>4. QED
  BY <1>1, <1>2, <1>3, RequestOwed, StartOwed, SurroundingsOwed DEF Next

-----------------------------------------------------------------------------
(* The theorems.                                                            *)

LEMMA InitStartLock == Init => StartLockInv
<1> SUFFICES ASSUME Init PROVE StartLockInv
  OBVIOUS
<1>1. LockInv /\ PlaceInv /\ StartInv
  BY NameAssumption DEF Init, LockInv, PlaceInv, StartInv, Holding
<1>2. Servers = {c \in Port : port[c] = "healthy"}
  BY DEF Init, Servers, OpenCode
<1>3. EachServerPaidFor
  <2>1. CASE Servers = {}
    BY <2>1, FS_EmptySet DEF EachServerPaidFor, Servers, Init
  <2>2. CASE Servers # {}
    <3>1. PICK c \in Servers : TRUE
      BY <2>2
    <3>2. Servers = {c}
      BY <1>2, <3>1 DEF Init
    <3>3. Cardinality(Servers) = 1
      BY <3>2, FS_Singleton
    <3>4. QED
      BY <3>3 DEF EachServerPaidFor, Servers, Init
  <2>3. QED
    BY <2>1, <2>2
<1>4. Accounted
  <2>1. CASE Servers = {}
    BY <2>1, FS_EmptySet DEF Accounted, Paid, Init
  <2>2. CASE Servers # {}
    <3>1. PICK c \in Servers : TRUE
      BY <2>2
    <3>2. port[c] = "healthy" /\ c \in Port /\ c \in {Primary, record}
      BY <1>2, <3>1 DEF Init
    <3>3. QED
      BY <3>2, CandidateFacts, NameAssumption DEF Accounted, Unrecorded, Init
  <2>3. QED
    BY <2>1, <2>2
<1>5. QED
  BY <1>1, <1>3, <1>4, InitType DEF StartLockInv, RestInv

LEMMA NextStartLock == StartLockInv /\ [Next]_vars => StartLockInv'
  BY NextType, NextLock, NextPlace, NextOwed DEF StartLockInv, Owed

THEOREM StartLockInvariant == Spec => []StartLockInv
  BY InitStartLock, NextStartLock, PTL DEF Spec

(* Every variable keeps its type.                                           *)
THEOREM ServerTypes == Spec => []TypeOK
<1>1. StartLockInv => TypeOK
  BY DEF StartLockInv
<1>2. QED
  BY <1>1, StartLockInvariant, PTL

(* At most one server of OpenCode runs, plus one for each kill, failed write *)
(* or timeout: the lock, the hint read again under it and the probe of the  *)
(* primary port keep racing cold starts from spawning twice.                *)
THEOREM RacingStartsSpawnOnce == Spec => []EachServerPaidFor
<1>1. StartLockInv => EachServerPaidFor
  BY DEF StartLockInv
<1>2. QED
  BY <1>1, StartLockInvariant, PTL

(* A command that reads the hint back finds the server that has its session, *)
(* unless that server went, a fault let a second one start, or whoever       *)
(* started it has not recorded it yet.                                      *)
THEOREM SessionIsOnClient == Spec => ClientHasSession
<1>1. ASSUME StartLockInv, [Next]_vars, NEW p \in Proc,
             pc[p] = "readback", code'[p] = "ok", client'[p] # home[p],
             spent = 0, port[home[p]] = "healthy"
      PROVE  \E q \in Proc : pc[q] \in {"wait", "write"} /\ Candidate(q) = home[p]
  <2>a. TypeOK /\ LockInv /\ PlaceInv /\ EachServerPaidFor /\ RestInv /\ StartInv
    BY <1>1 DEF StartLockInv
  <2>1. home[p] = seen[p] /\ home[p] \in Servers /\ code[p] = "none"
    BY <1>1, <2>a DEF PlaceInv, Servers, OpenCode
  <2>2. ReadBack(p)
    <3>1. ASSUME UNCHANGED vars PROVE FALSE
      BY <1>1, <2>1, <3>1 DEF vars, local
    <3>2. ASSUME NEW q \in Proc, q # p, Request(q) \/ Start(q) PROVE FALSE
      BY <1>1, <2>1, <2>a, <3>2, RequestOthers, StartOthers DEF Others
    <3>3. ASSUME NEW q \in Proc, AcquireStartLock(q) \/ Kill(q) PROVE FALSE
      BY <1>1, <2>1, <3>3 DEF AcquireStartLock, Kill
    <3>4. ASSUME NEW c \in Port, Surroundings(c) PROVE FALSE
      BY <1>1, <2>1, <3>4 DEF Surroundings, ServerBinds, ServerReady, ServerExits,
         StrangerTakes, StrangerLeaves, Becomes, local
    <3>5. ~Start(p)
      BY <1>1 DEF Start, Reread, RecordIsLive, RecordIsDead, Available, Occupied, Probe,
         Spawn, BecameReady, NotReady, WriteRecord, WriteFails, Exhausted, Unlock,
         Discard, Step
    <3>6. Request(p)
      BY <1>1, <3>1, <3>2, <3>3, <3>4, <3>5 DEF Next
    <3>7. QED
      BY <1>1, <3>6 DEF Request, ReadRecord, Refused, Rejected, SessionCreated,
         ResponseLost, Sending, Step
  <2>3. record # home[p]
    <3>1. client'[p] = Hint
      BY <2>2, <2>a DEF ReadBack, TypeOK
    <3>2. QED
      BY <1>1, <2>1, <3>1 DEF Hint, Servers
  <2>4. \A c \in Port : port[c] \in OpenCode => c = home[p]
    BY <1>1, <2>1, <2>a, OneServer DEF Servers
  <2>5. ~Paid
    BY <1>1, <2>1, <2>a, OneServer
  <2>6. ~Unrecorded
    BY <2>1, <2>4, CandidateFacts DEF Unrecorded, OpenCode
  <2>7. ~Accounted
    BY <2>3, <2>4, <2>5, <2>6 DEF Accounted, OpenCode
  <2>8. PICK q \in Proc : lock = q /\ pc[q] \notin {"reread", "live", "unlock"}
    BY <2>7, <2>a DEF RestInv
  <2>9. pc[q] \in {"wait", "write"} /\ port[Candidate(q)] \in OpenCode
    BY <2>5, <2>6, <2>8, <2>a DEF LockInv, Holding, StartInv, OpenCode
  <2>10. Candidate(q) \in Port
    BY <2>9, <2>a, CandidateFacts DEF PlaceInv, Candidate, TypeOK
  <2>11. QED
    BY <2>4, <2>9, <2>10
<1>2. StartLockInv /\ [Next]_vars =>
        \A p \in Proc :
          pc[p] = "readback" /\ code'[p] = "ok" /\ client'[p] # home[p] =>
            \/ spent > 0
            \/ port[home[p]] # "healthy"
            \/ \E q \in Proc : pc[q] \in {"wait", "write"} /\ Candidate(q) = home[p]
  <2> SUFFICES ASSUME StartLockInv, [Next]_vars, NEW p \in Proc,
                      pc[p] = "readback", code'[p] = "ok", client'[p] # home[p],
                      ~(spent > 0), port[home[p]] = "healthy"
               PROVE  \E q \in Proc : pc[q] \in {"wait", "write"} /\ Candidate(q) = home[p]
    OBVIOUS
  <2>1. spent = 0
    BY CandidateFacts DEF StartLockInv, TypeOK
  <2>2. QED
    BY <1>1, <2>1
<1>3. QED
  BY <1>2, StartLockInvariant, PTL DEF Spec, ClientHasSession
=============================================================================

----------------------------- MODULE ServerStart -----------------------------
(***************************************************************************)
(* How `oca` processes find the OpenCode server or start one: the discovery *)
(* hint server.json, the lock server.lock, the candidate ports, and the     *)
(* session that the caller wants to create.  Several processes run at once, *)
(* each may be killed at any step, servers come up slowly or not at all and *)
(* exit, and programs that are not OpenCode take and leave ports.           *)
(***************************************************************************)
EXTENDS Naturals, FiniteSets, Sequences, Failures

CONSTANTS Proc,        \* processes that dispatch
          Primary,     \* the configured port
          Alternates   \* the other candidates, in order

Candidates == <<Primary>> \o Alternates
Port == {Candidates[i] : i \in 1..Len(Candidates)}

ASSUME PortAssumption ==
  /\ Alternates \in Seq(Port)
  /\ Cardinality(Port) = Len(Candidates)

Nobody == "nobody"
Absent == "absent"     \* no server.json
Corrupt == "corrupt"   \* one that does not parse

ASSUME NameAssumption == {Absent, Corrupt} \cap Port = {} /\ Nobody \notin Proc

VARIABLES
  port,     \* who has a port: see PortStates
  record,   \* server.json: the port it names
  lock,     \* who holds server.lock
  pc, seen, next, diagnostics, \* of each process: the port it acts on, the
            \* index of its candidate, the stages at which candidates failed
  code,     \* how its command ended: "ok" or an error code
  home,     \* the port on which it created its session
  client,   \* the port it goes on with
  spent     \* ghost: faults so far, up to the number of ports

shared == <<port, record, lock>>
local == <<pc, seen, next, diagnostics, code, home, client>>
vars == <<shared, local, spent>>

(* A spawned server is "starting" until it has bound the port, "unready"    *)
(* until its health endpoint answers; "foreign" is another program.         *)
OpenCode == {"starting", "unready", "healthy"}
Listening == {"unready", "healthy", "foreign"}
PortStates == OpenCode \cup {"free", "foreign"}

Places == {"idle", "send", "lock", "reread", "live", "start", "probe", "spawn",
           "wait", "write", "unlock", "resend", "readback", "ended", "killed"}
Ended == {"ended", "killed"}

TypeOK ==
  /\ port \in [Port -> PortStates]
  /\ record \in Port \cup {Absent, Corrupt}
  /\ lock \in Proc \cup {Nobody}
  /\ pc \in [Proc -> Places]
  /\ seen \in [Proc -> Port \cup {Absent}]
  /\ next \in [Proc -> 1..Len(Candidates) + 1]
  /\ diagnostics \in [Proc -> SUBSET StartupStage]
  /\ code \in [Proc -> ErrorCode \cup {"none", "ok"}]
  /\ home \in [Proc -> Port \cup {Absent}]
  /\ client \in [Proc -> Port \cup {Absent}]
  /\ spent \in 0..Len(Candidates)

(* The hint and the ports as earlier commands and other programs left them: *)
(* at most one server of OpenCode, on the recorded port or the primary one. *)
Init ==
  /\ record \in Port \cup {Absent, Corrupt}
  /\ port \in [Port -> {"free", "healthy", "foreign"}]
  /\ \A c, d \in Port : port[c] = "healthy" /\ port[d] = "healthy" => c = d
  /\ \A c \in Port : port[c] = "healthy" => c \in {Primary, record}
  /\ lock = Nobody
  /\ pc = [p \in Proc |-> "idle"]
  /\ seen = [p \in Proc |-> Absent]
  /\ next = [p \in Proc |-> 1]
  /\ diagnostics = [p \in Proc |-> {}]
  /\ code = [p \in Proc |-> "none"]
  /\ home = [p \in Proc |-> Absent]
  /\ client = [p \in Proc |-> Absent]
  /\ spent = 0

-----------------------------------------------------------------------------

Goto(p, to) == pc' = [pc EXCEPT ![p] = to]
Step(p, from, to) == pc[p] = from /\ Goto(p, to)

Fault == spent' = IF spent < Len(Candidates) THEN spent + 1 ELSE spent

Fail(p, error) ==
  /\ Goto(p, "ended")
  /\ code' = [code EXCEPT ![p] = error]

(* Mutant of Hint: whatever the file holds is taken for a port.             *)
HintUnchecked == record

(* What a reader takes from the hint: damage counts as absence.             *)
Hint == IF record \in Port THEN record ELSE Absent

(* connect_or_start sends the caller's request at once when there is a      *)
(* hint, without probing the server first.                                  *)
ReadRecord(p) ==
  /\ Step(p, "idle", IF Hint # Absent THEN "send" ELSE "lock")
  /\ seen' = [seen EXCEPT ![p] = Hint]
  /\ UNCHANGED <<shared, next, diagnostics, code, home, client, spent>>

(* A failed request leads to the lock the first time and ends the second,   *)
(* provided that SessionFailure classifies it as a failed connection.       *)
RequestFails(p, failure) ==
  IF pc[p] = "send" /\ SessionFailure(failure) = "connection"
  THEN Goto(p, "lock") /\ UNCHANGED code
  ELSE Fail(p, OpenCodeErrorCode(failure))

Sending(p) == pc[p] \in {"send", "resend"}

Refused(p) ==
  /\ Sending(p)
  /\ port[seen[p]] \notin Listening
  /\ RequestFails(p, [kind |-> "transport", stage |-> "before"])
  /\ UNCHANGED <<shared, seen, next, diagnostics, home, client, spent>>

(* Something else listens, or OpenCode is not up to it yet: any failure.    *)
Rejected(p) ==
  /\ Sending(p)
  /\ port[seen[p]] \in Listening
  /\ \E failure \in OpenCodeFailure : RequestFails(p, failure)
  /\ UNCHANGED <<shared, seen, next, diagnostics, home, client, spent>>

SessionCreated(p) ==
  /\ Sending(p)
  /\ port[seen[p]] = "healthy"
  /\ Goto(p, "readback")
  /\ home' = [home EXCEPT ![p] = seen[p]]
  /\ UNCHANGED <<shared, seen, next, diagnostics, code, client, spent>>

(* The session exists, but its response is lost.                            *)
ResponseLost(p) ==
  /\ Sending(p)
  /\ port[seen[p]] = "healthy"
  /\ RequestFails(p, [kind |-> "transport", stage |-> "possibly"])
  /\ UNCHANGED <<shared, seen, next, diagnostics, home, client, spent>>

(* The dispatch reads the record again to build the client it goes on with. *)
ReadBack(p) ==
  /\ Step(p, "readback", "ended")
  /\ client' = [client EXCEPT ![p] = Hint]
  /\ code' = [code EXCEPT ![p] = IF Hint = Absent THEN "server_unavailable" ELSE "ok"]
  /\ UNCHANGED <<shared, seen, next, diagnostics, home, spent>>

-----------------------------------------------------------------------------
(* Under server.lock.                                                       *)

AcquireStartLock(p) ==
  /\ Step(p, "lock", "reread")
  /\ lock = Nobody
  /\ lock' = p
  /\ UNCHANGED <<port, record, seen, next, diagnostics, code, home, client, spent>>

Reread(p) ==
  /\ Step(p, "reread", IF Hint # Absent THEN "live" ELSE "start")
  /\ seen' = [seen EXCEPT ![p] = Hint]
  /\ UNCHANGED <<shared, next, diagnostics, code, home, client, spent>>

(* record_is_live asks only for a connection, of whoever listens there.     *)
RecordIsLive(p) ==
  /\ Step(p, "live", "unlock")
  /\ port[seen[p]] \in Listening
  /\ UNCHANGED <<shared, seen, next, diagnostics, code, home, client,
                 spent>>

(* A live server that does not accept in 50 ms is taken for dead.           *)
RecordIsDead(p) ==
  /\ Step(p, "live", "start")
  /\ IF port[seen[p]] \in Listening THEN Fault ELSE UNCHANGED spent
  /\ UNCHANGED <<shared, seen, next, diagnostics, code, home, client>>

Candidate(p) == Candidates[next[p]]

(* Give up one candidate and keep the diagnostic.                           *)
Discard(p, from, stage) ==
  /\ Step(p, from, "start")
  /\ next' = [next EXCEPT ![p] = @ + 1]
  /\ diagnostics' = [diagnostics EXCEPT ![p] = @ \cup {stage}]
  /\ UNCHANGED <<shared, seen, code, home, client>>

(* Mutant of Available: any port will do, the server tells.                 *)
AvailableAlways(p) ==
  /\ next[p] <= Len(Candidates)
  /\ Step(p, "start", "spawn")
  /\ UNCHANGED <<shared, seen, next, diagnostics, code, home, client,
                 spent>>

(* A port that a server was just spawned for still looks free.              *)
Available(p) ==
  /\ next[p] <= Len(Candidates)
  /\ port[Candidate(p)] \notin Listening
  /\ Step(p, "start", "spawn")
  /\ UNCHANGED <<shared, seen, next, diagnostics, code, home, client,
                 spent>>

Occupied(p) ==
  /\ next[p] <= Len(Candidates)
  /\ port[Candidate(p)] \in Listening
  /\ IF Candidate(p) = Primary
     THEN /\ Step(p, "start", "probe")
          /\ UNCHANGED <<shared, seen, next, diagnostics, code, home, client, spent>>
     ELSE Discard(p, "start", "availability") /\ UNCHANGED spent

(* Mutant of Probe: the occupant of the primary port is not asked.          *)
ProbeNever(p) == Discard(p, "probe", "availability") /\ UNCHANGED spent

(* An occupant of the primary port that answers as OpenCode is adopted; one *)
(* that is too slow to answer in 200 ms is taken for a stranger.            *)
Probe(p) ==
  \/ /\ Step(p, "probe", "write")
     /\ port[Candidate(p)] = "healthy"
     /\ UNCHANGED <<shared, seen, next, diagnostics, code, home, client, spent>>
  \/ /\ Discard(p, "probe", "availability")
     /\ IF port[Candidate(p)] = "healthy" THEN Fault ELSE UNCHANGED spent

(* A second server on a port loses the race to bind it and exits.           *)
Spawn(p) ==
  \/ /\ Step(p, "spawn", "wait")
     /\ port' = IF port[Candidate(p)] = "free"
                THEN [port EXCEPT ![Candidate(p)] = "starting"] ELSE port
     /\ UNCHANGED <<record, lock, seen, next, diagnostics, code, home, client, spent>>
  \/ Discard(p, "spawn", "spawn") /\ UNCHANGED spent

BecameReady(p) ==
  /\ Step(p, "wait", "write")
  /\ port[Candidate(p)] = "healthy"
  /\ UNCHANGED <<shared, seen, next, diagnostics, code, home, client,
                 spent>>

(* The budget runs out; a server that is only slow stays behind.            *)
NotReady(p) ==
  /\ Discard(p, "wait", "readiness")
  /\ IF port[Candidate(p)] \in OpenCode THEN Fault ELSE UNCHANGED spent

(* Mutant of WriteRecord: the hint names the configured port.               *)
WriteRecordPrimary(p) ==
  /\ Step(p, "write", "unlock")
  /\ record' = Primary
  /\ seen' = [seen EXCEPT ![p] = Candidate(p)]
  /\ UNCHANGED <<port, lock, next, diagnostics, code, home, client, spent>>

WriteRecord(p) ==
  /\ Step(p, "write", "unlock")
  /\ record' = Candidate(p)
  /\ seen' = [seen EXCEPT ![p] = Candidate(p)]
  /\ UNCHANGED <<port, lock, next, diagnostics, code, home, client,
                 spent>>

(* The replacement of server.json fails: the lock goes with the process.    *)
WriteFails(p) ==
  /\ pc[p] = "write"
  /\ Fail(p, "server_unavailable")
  /\ lock' = Nobody
  /\ Fault
  /\ UNCHANGED <<port, record, seen, next, diagnostics, home, client>>

(* Mutant of Exhausted: the lock is not given up.                           *)
ExhaustedHolding(p) ==
  /\ pc[p] = "start"
  /\ next[p] > Len(Candidates)
  /\ Fail(p, StartupErrorCode(diagnostics[p]))
  /\ UNCHANGED <<shared, seen, next, diagnostics, home, client, spent>>

Exhausted(p) ==
  /\ pc[p] = "start"
  /\ next[p] > Len(Candidates)
  /\ Fail(p, StartupErrorCode(diagnostics[p]))
  /\ lock' = Nobody
  /\ UNCHANGED <<port, record, seen, next, diagnostics, home, client,
                 spent>>

Unlock(p) ==
  /\ Step(p, "unlock", "resend")
  /\ lock' = Nobody
  /\ UNCHANGED <<port, record, seen, next, diagnostics, code, home, client, spent>>

-----------------------------------------------------------------------------
(* What happens around them.                                                *)

Kill(p) ==
  /\ pc[p] \notin Ended
  /\ Goto(p, "killed")
  /\ lock' = IF lock = p THEN Nobody ELSE lock
  /\ Fault
  /\ UNCHANGED <<port, record, seen, next, diagnostics, code, home, client>>

Becomes(c, from, to) ==
  /\ port[c] \in from
  /\ port' = [port EXCEPT ![c] = to]
  /\ UNCHANGED <<record, lock, local, spent>>

ServerBinds(c) == Becomes(c, {"starting"}, "unready")
ServerReady(c) == Becomes(c, {"unready"}, "healthy")
ServerExits(c) == Becomes(c, OpenCode, "free")
StrangerTakes(c) == Becomes(c, {"free", "starting"}, "foreign")
StrangerLeaves(c) == Becomes(c, {"foreign"}, "free")

-----------------------------------------------------------------------------

Request(p) ==
  \/ ReadRecord(p) \/ Refused(p) \/ Rejected(p) \/ SessionCreated(p)
  \/ ResponseLost(p) \/ ReadBack(p)

Start(p) ==
  \/ Reread(p) \/ RecordIsLive(p) \/ RecordIsDead(p) \/ Available(p)
  \/ Occupied(p) \/ Probe(p) \/ Spawn(p) \/ BecameReady(p) \/ NotReady(p)
  \/ WriteRecord(p) \/ WriteFails(p) \/ Exhausted(p) \/ Unlock(p)

Surroundings(c) ==
  \/ ServerBinds(c) \/ ServerReady(c) \/ ServerExits(c)
  \/ StrangerTakes(c) \/ StrangerLeaves(c)

Next ==
  \/ \E p \in Proc : Request(p) \/ AcquireStartLock(p) \/ Start(p) \/ Kill(p)
  \/ \E c \in Port : Surroundings(c)

Spec == Init /\ [][Next]_vars

(* Every step of a command is bounded in time (health polls, the readiness  *)
(* budget, connection timeouts), the scheduler runs every process, and the  *)
(* kernel hands a free flock to somebody.                                   *)
Fairness ==
  \A p \in Proc : /\ WF_vars(Request(p)) /\ WF_vars(Start(p))
                  /\ WF_vars(AcquireStartLock(p))

FairSpec == Spec /\ Fairness

-----------------------------------------------------------------------------
(* Properties.                                                              *)

(* Cold starts race without starting a second server: each further server   *)
(* is paid for by a kill, a failed write or a timeout ("racing cold starts  *)
(* spawn once").                                                            *)
EachServerPaidFor ==
  Cardinality({c \in Port : port[c] \in OpenCode}) <= 1 + spent

(* A command goes on with the server that has its session: when it reads    *)
(* the hint back, nobody has redirected it meanwhile, unless that server    *)
(* went, a fault let a second one start, or the server's own starter has    *)
(* not recorded it yet.                                                     *)
ClientHasSession ==
  [][\A p \in Proc :
       pc[p] = "readback" /\ code'[p] = "ok" /\ client'[p] # home[p] =>
         \/ spent > 0
         \/ port[home[p]] # "healthy"
         \/ \E q \in Proc : pc[q] \in {"wait", "write"} /\ Candidate(q) = home[p]]_vars

(* Every command ends, and server.lock is always given up.                  *)
EveryCommandEnds == []<>(\A p \in Proc : pc[p] \in Ended)
-----------------------------------------------------------------------------
(* Why they hold: the inductive invariant.                                  *)

(* Who is at one of these places holds server.lock.                         *)
Holding == {"reread", "live", "start", "probe", "spawn", "wait", "write", "unlock"}
LockInv == \A p \in Proc : pc[p] \in Holding <=> lock = p

(* Another server may start without exceeding what the faults pay for.      *)
Servers == {c \in Port : port[c] \in OpenCode}
Paid == Cardinality(Servers) <= spent

(* A server on the primary port that no hint names: the one that the first  *)
(* probe adopts.                                                            *)
Unrecorded ==
  port[Primary] = "healthy" /\ record # Primary /\ \A p \in Proc : seen[p] # Primary

(* The server there is is recorded or on the primary port, if faults have   *)
(* not paid for one more: so it is while nobody starts a server.            *)
Accounted ==
  Paid \/ (record \in Port /\ port[record] = "healthy") \/ Unrecorded

RestInv ==
  (\A p \in Proc : lock = p => pc[p] \in {"reread", "live", "unlock"}) => Accounted

(* Whoever starts one has found the other or knows that there is none.      *)
StartInv ==
  \A p \in Proc :
    /\ pc[p] \in {"start", "probe"} => Paid \/ (next[p] = 1 /\ Unrecorded)
    /\ pc[p] = "spawn" => Paid
    /\ pc[p] = "wait" => Paid \/ port[Candidate(p)] \in OpenCode
    /\ pc[p] = "write" => Paid \/ port[Candidate(p)] = "healthy"

(* What each place knows of its own variables.                              *)
PlaceInv ==
  \A p \in Proc :
    /\ pc[p] \in {"idle", "send", "lock", "reread", "live"} => next[p] = 1
    /\ pc[p] \in {"probe", "spawn", "wait", "write"} => next[p] <= Len(Candidates)
    /\ pc[p] \in {"send", "live", "unlock", "resend", "readback"} => seen[p] \in Port
    /\ pc[p] = "live" => seen[p] = record
    /\ pc[p] = "readback" => home[p] = seen[p]
    /\ code[p] # "none" => pc[p] = "ended"
    /\ code[p] = "ok" => client[p] \in Port

StartLockInv ==
  TypeOK /\ LockInv /\ PlaceInv /\ EachServerPaidFor /\ RestInv /\ StartInv
=============================================================================

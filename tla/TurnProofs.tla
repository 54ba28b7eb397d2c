---------------------------- MODULE TurnProofs -----------------------------
(* TurnInv for every number of operators and messages: the types, and what *)
(* holds of a ref and its turn whatever the dispatch, the operators, the   *)
(* server and the file system do in whatever order, and wherever a process *)
(* is killed. The record never names a reply that has not come, a ref with *)
(* a worktree is done only with a commit, and a dispatch is acknowledged   *)
(* only when the session has shown its message.                            *)
(* TurnInv is a conjunction of parts, and each part is preserved because of*)
(* others. A section below proves, for each of the five groups of actions  *)
(* of a process, what one step of it does (a step predicate such as Typed  *)
(* or Settles), and the lemma that a step which does so preserves the part.*)
(* The last section puts the step predicates together.                     *)
EXTENDS Dispatch, FiniteSetTheorems, TLAPS

USE DEF Step, Goto, Hold, Persist, PersistIfHeld, Return, files, git, server,
        local, output
USE DEF Planned, WorktreeReady, SessionCreated, PromptUncertain, Running, Observed,
        Validated, Committed

-----------------------------------------------------------------------------
(* The intent on the disk and the one a process holds keep their type.     *)

LEMMA TurnIsNat == Turn \subseteq Nat /\ MaxTurns \in Nat /\ Turn \subseteq 0..MaxTurns
BY BoundAssumption DEF Turn

LEMMA Phased ==
  ASSUME NEW p \in Proc, held[p] \in IntentType, NEW n \in 1..8
  PROVE  InPhase(p, n) \in IntentType /\ InPhase(p, n).session = held[p].session
BY DEF IntentType, InPhase

LEMMA NoIntentIsNone == NoIntent \notin IntentType
BY DEF IntentType, NoIntent

LEMMA LogBound == ASSUME TypeOK, LogInv PROVE Len(log) \in 0..MaxTurns
<1>1. Logged \subseteq Turn
  BY DEF TypeOK, Logged
<1>2. IsFiniteSet(Turn) /\ Cardinality(Turn) = MaxTurns
  BY TurnIsNat, FS_Interval DEF Turn
<1>3. Cardinality(Logged) \in Nat /\ Cardinality(Logged) <= MaxTurns
  BY <1>1, <1>2, FS_Subset, FS_CardinalityType
<1> QED BY <1>3, TurnIsNat DEF LogInv, TypeOK

Typed(p) ==
  /\ held'[p] \in IntentType \cup {NoIntent}
  /\ pc'[p] \in WithIntent => held'[p] \in IntentType
  /\ intent' \in IntentType \cup {NoIntent}

LEMMA StartTyped == ASSUME TypeOK, MemoryInv, NEW p \in Proc, Start(p) PROVE Typed(p)
<1>0. pc[p] \in WithIntent => held[p] \in IntentType
  BY DEF MemoryInv
<1>1. CASE PlanIntent(p)
  <2>1. NewIntent(TRUE, Planned, 0, 0) \in IntentType
    BY TurnIsNat DEF NewIntent, IntentType
  <2> QED BY <1>1, <2>1 DEF PlanIntent, TypeOK, Typed
<1>2. CASE ReserveRef(p)
  <2>1. NewIntent(TRUE, Planned, 0, 0) \in IntentType
    BY TurnIsNat DEF NewIntent, IntentType
  <2> QED BY <1>2, <2>1 DEF ReserveRef, TypeOK, Typed
<1>3. CASE CreateTree(p)
  <2>1. InPhase(p, WorktreeReady) \in IntentType
    BY <1>0, <1>3, Phased DEF CreateTree, WithIntent
  <2> QED BY <1>3, <2>1 DEF CreateTree, TypeOK, Typed
<1>4. CASE CreateSession(p)
  <2>1. held[p] \in IntentType
    BY <1>0, <1>4 DEF CreateSession, WithIntent
  <2>a. pc[p] = "planned"
    BY <1>4 DEF CreateSession
  <2>2. held[p].session < 2
    BY <2>a DEF MemoryInv
  <2>b. held[p].session \in {0, 1}
    BY <2>1, <2>2 DEF IntentType
  <2>3. [InPhase(p, SessionCreated) EXCEPT !.session = @ + 1] \in IntentType
    <3>1. InPhase(p, SessionCreated) \in IntentType
      BY <2>1, Phased
    <3>2. InPhase(p, SessionCreated).session + 1 \in 0..2
      BY <2>1, <2>b, Phased
    <3> QED BY <3>1, <3>2 DEF IntentType
  <2> QED BY <2>3, <1>4 DEF CreateSession, TypeOK, Typed
<1>5. CASE PersistReady(p)
  BY <1>0, <1>5 DEF PersistReady, WithIntent, Typed, TypeOK
<1>6. CASE \/ StoreTree(p) \/ SubscribeUnreachable(p) \/ PromptUnreachable(p)
           \/ FailBeforePrompt(p) \/ CleanTree(p) \/ CleanIntent(p)
           \/ CreateTreeFails(p) \/ DiscardUnacknowledged(p)
  BY <1>0, <1>6 DEF CreateTreeFails, StoreTree, SubscribeUnreachable, PromptUnreachable, Recreate,
     FailBeforePrompt, CleanTree, CleanIntent, DiscardUnacknowledged, TypeOK, WithIntent, Typed
<1> QED BY <1>1, <1>2, <1>3, <1>4, <1>5, <1>6 DEF Start

LEMMA PromptTyped == ASSUME TypeOK, MemoryInv, NEW p \in Proc, Prompt(p) PROVE Typed(p)
<1>0. pc[p] \in WithIntent => held[p] \in IntentType
  BY DEF MemoryInv
<1>1. CASE PersistUncertain(p)
  <2> DEFINE t == IF goal[p] = 0 THEN minted + 1 ELSE goal[p]
             i == [InPhase(p, PromptUncertain) EXCEPT !.message = t]
  <2>1. held[p] \in IntentType
    BY <1>0, <1>1 DEF PersistUncertain, WithIntent
  <2>2. t \in 0..MaxTurns
    BY <1>1, TurnIsNat DEF PersistUncertain, TypeOK
  <2> HIDE DEF t
  <2>3. i \in IntentType
    <3>1. InPhase(p, PromptUncertain) \in IntentType
      BY <2>1, Phased
    <3> QED BY <2>2, <3>1 DEF IntentType
  <2>4. held' = [held EXCEPT ![p] = i] /\ intent' = i
    BY <1>1 DEF PersistUncertain, t
  <2> QED BY <2>3, <2>4 DEF TypeOK, Typed
<1>2. CASE PreserveIntent(p)
  <2>1. InPhase(p, PromptUncertain) \in IntentType
    BY <1>0, <1>2, Phased DEF PreserveIntent, WithIntent
  <2> QED BY <1>2, <2>1 DEF PreserveIntent, TypeOK, Typed
<1>3. CASE PersistRunning(p)
  <2>1. InPhase(p, Running) \in IntentType
    BY <1>0, <1>3, Phased DEF PersistRunning, WithIntent
  <2> QED BY <1>3, <2>1 DEF PersistRunning, TypeOK, Typed
<1>4. CASE \/ Send(p) \/ Accepted(p) \/ ResponseLost(p) \/ MessageFails(p) \/ Confirmed(p)
           \/ ConfirmTimesOut(p) \/ WriteRef(p) \/ Acknowledge(p)
  BY <1>0, <1>4 DEF Send, Accepted, ResponseLost, MessageFails, Confirmed, ConfirmTimesOut,
     WriteRef, Acknowledge, TypeOK, WithIntent, Typed
<1>5. CASE PreserveRecord(p) \/ PatchMessage(p)
  BY <1>5 DEF PreserveRecord, PatchMessage, TypeOK, WithIntent, Typed
<1> QED BY <1>1, <1>2, <1>3, <1>4, <1>5 DEF Prompt

LEMMA FinalizeTyped == ASSUME TypeOK, MemoryInv, NEW p \in Proc, Finalize(p) PROVE Typed(p)
<1>0. held[p] # NoIntent => held[p] \in IntentType
  BY DEF TypeOK
<1>1. CASE SaveCursor(p)
  <2>1. InPhase(p, Running) \in IntentType
    BY <1>0, <1>1, Phased DEF SaveCursor
  <2> QED BY <1>1, <2>1 DEF SaveCursor, TypeOK, Typed
<1>2. CASE TerminalObserved(p)
  <2>1. held[p] # NoIntent => InPhase(p, Observed) \in IntentType
    BY <1>0, Phased
  <2> QED BY <1>2, <2>1 DEF TerminalObserved, TypeOK, Typed, WithIntent
<1>3. CASE ReplyInvalid(p)
  <2>1. InPhase(p, Observed) \in IntentType
    BY <1>0, <1>3, Phased DEF ReplyInvalid
  <2> QED BY <1>3, <2>1 DEF ReplyInvalid, TypeOK, Typed, WithIntent
<1>4. CASE ReadTerminal(p)
  <2>1. goal[p] \in 0..MaxTurns
    BY DEF TypeOK
  <2>2. intent # NoIntent =>
          [intent EXCEPT !.phase = IF @ < Observed THEN Observed ELSE @, !.reply = goal[p]]
            \in IntentType
    <3>1. ASSUME NEW i \in IntentType
          PROVE  [i EXCEPT !.phase = IF @ < Observed THEN Observed ELSE @] \in IntentType
      <4>1. i.phase \in 1..8
        BY DEF IntentType
      <4>2. (IF i.phase < Observed THEN Observed ELSE i.phase) \in 1..8
        BY <4>1
      <4>3. QED
        BY <4>2 DEF IntentType
    <3>2. ASSUME NEW i \in IntentType
          PROVE  [i EXCEPT !.phase = IF @ < Observed THEN Observed ELSE @, !.reply = goal[p]]
                   = [[i EXCEPT !.phase = IF @ < Observed THEN Observed ELSE @] EXCEPT !.reply = goal[p]]
      BY DEF IntentType
    <3> QED BY <2>1, <3>1, <3>2 DEF TypeOK, IntentType
  <2> QED BY <1>4, <2>2 DEF ReadTerminal, TypeOK, Typed, WithIntent
<1>5. CASE CloseTurn(p)
  <2>1. held[p] # NoIntent => InPhase(p, Validated) \in IntentType
    BY <1>0, Phased
  <2> QED BY <1>5, <2>1 DEF CloseTurn, TypeOK, Typed, WithIntent
<1>6. CASE ValidateTree(p)
  <2>1. held[p] # NoIntent => InPhase(p, Validated) \in IntentType
    BY <1>0, Phased
  <2> QED BY <1>6, <2>1 DEF ValidateTree, TypeOK, Typed, WithIntent
<1>7. CASE PersistCommitted(p)
  <2>1. held[p] # NoIntent => [InPhase(p, Committed) EXCEPT !.commit = made[p]] \in IntentType
    <3>1. held[p] # NoIntent => InPhase(p, Committed) \in IntentType
      BY <1>0, Phased
    <3> QED BY <3>1 DEF TypeOK, IntentType
  <2> QED BY <1>7, <2>1 DEF PersistCommitted, TypeOK, Typed, WithIntent
<1>8. CASE Commit(p) \/ PatchTerminal(p) \/ RemoveIntent(p)
  BY <1>8 DEF Commit, PatchTerminal, RemoveIntent, TypeOK, Typed, WithIntent
<1> QED BY <1>1, <1>2, <1>3, <1>4, <1>5, <1>6, <1>7, <1>8 DEF Finalize

LEMMA ReconcileTyped ==
  ASSUME TypeOK, MemoryInv, LogInv, NEW p \in Proc, Reconcile(p) PROVE Typed(p)
<1>0. pc[p] \in WithIntent => held[p] \in IntentType
  BY DEF MemoryInv
<1>1. CASE ReadIntent(p)
  BY <1>1 DEF ReadIntent, TypeOK, Typed, WithIntent
<1>2. CASE AdoptSession(p)
  <2>1. held[p] \in IntentType /\ record \in RecordType
    BY <1>0, <1>2 DEF AdoptSession, Recovering, WithIntent, TypeOK
  <2>2. [InPhase(p, SessionCreated) EXCEPT !.session = record.session] \in IntentType
    <3>1. InPhase(p, SessionCreated) \in IntentType
      BY <2>1, Phased
    <3>2. record.session \in 0..2
      BY <2>1 DEF RecordType
    <3> QED BY <3>1, <3>2 DEF IntentType
  <2> QED BY <1>2, <2>2 DEF AdoptSession, Recovering, TypeOK, Typed
<1>3. CASE PersistRecovered(p)
  <2>1. held[p] \in IntentType /\ InPhase(p, Running) \in IntentType
    BY <1>0, <1>3, Phased DEF PersistRecovered, WithIntent
  <2> QED BY <1>3, <2>1 DEF PersistRecovered, TypeOK, Typed
<1>4. CASE AdoptCommit(p)
  <2>1. held[p] \in IntentType
    BY <1>0, <1>4 DEF AdoptCommit, Recovering, WithIntent
  <2>2. Len(log) \in 0..MaxTurns
    BY LogBound
  <2>3. [InPhase(p, Committed) EXCEPT !.commit = Len(log)] \in IntentType
    <3>1. InPhase(p, Committed) \in IntentType
      BY <2>1, Phased
    <3> QED BY <2>2, <3>1 DEF IntentType
  <2> QED BY <1>4, <2>3 DEF AdoptCommit, Recovering, TypeOK, Typed
<1>5. CASE \/ CleanStrandedTree(p) \/ TombstoneStrand(p) \/ SessionAnswers(p) \/ ServerSilent(p)
           \/ PromptLanded(p) \/ PromptMissing(p) \/ StaleRunning(p) \/ StillRunning(p)
           \/ PatchOrInsert(p) \/ FinalizeRecovered(p) \/ SettleCommitted(p)
  <2>1. UNCHANGED <<held, intent>>
    BY <1>5 DEF CleanStrandedTree, TombstoneStrand, SessionAnswers, ServerSilent, PromptLanded,
       PromptMissing, StaleRunning, StillRunning, PatchOrInsert, FinalizeRecovered,
       SettleCommitted, Upsert, Resume
  <2>2. pc[p] \in WithIntent \/ pc'[p] \notin WithIntent
    BY <1>5 DEF CleanStrandedTree, TombstoneStrand, SessionAnswers, ServerSilent, PromptLanded,
       PromptMissing, StaleRunning, StillRunning, PatchOrInsert, FinalizeRecovered,
       SettleCommitted, Recovering, WithIntent, TypeOK
  <2> QED BY <1>0, <2>1, <2>2 DEF TypeOK, Typed
<1> QED BY <1>1, <1>2, <1>3, <1>4, <1>5 DEF Reconcile

LEMMA CommandTyped == ASSUME TypeOK, MemoryInv, NEW p \in Proc, Command(p) PROVE Typed(p)
<1>1. CASE Message(p)
  <2>1. NewIntent(FALSE, PromptUncertain, record.session, 0) \in IntentType
    BY <1>1, TurnIsNat DEF Message, Active, TypeOK, RecordType, NewIntent, IntentType
  <2> QED BY <1>1, <2>1 DEF Message, TypeOK, Typed
<1>2. CASE Queue(p)
  <2>1. minted' \in 0..MaxTurns
    BY <1>2, TurnIsNat DEF Queue, TypeOK
  <2>2. NewIntent(FALSE, PromptUncertain, record.session, minted') \in IntentType
    <3>1. record.session \in 0..2
      BY <1>2 DEF Queue, Active, TypeOK, RecordType
    <3> QED BY <2>1, <3>1, TurnIsNat DEF NewIntent, IntentType
  <2> QED BY <1>2, <2>2 DEF Queue, TypeOK, Typed
<1>3. CASE OpenJournal(p)
  BY <1>3 DEF OpenJournal, TypeOK, Typed, WithIntent
<1>4. CASE (\E c \in Allowed : Begin(p, c)) \/ List(p) \/ Follow(p) \/ AbortSession(p) \/ PatchAborted(p)
  BY <1>4 DEF Begin, List, Follow, AbortSession, PatchAborted, TypeOK, Typed, WithIntent
<1> QED BY <1>1, <1>2, <1>3, <1>4 DEF Command

-----------------------------------------------------------------------------
(* The record keeps its type.                                              *)

RecordTyped == record' \in RecordType \cup {NoRecord}

LEMMA NoRecordIsNone == NoRecord \notin RecordType
BY DEF RecordType, NoRecord

LEMMA StartRecord == ASSUME TypeOK, MemoryInv, NEW p \in Proc, Start(p) PROVE RecordTyped
<1>1. CASE ReserveRef(p)
  <2>1. NewRecord(Reserved, 0, "running") \in RecordType
    BY TurnIsNat DEF NewRecord, RecordType, Reserved, States
  <2> QED BY <1>1, <2>1 DEF ReserveRef, InsertRecord, RecordTyped
<1>2. CASE CreateTreeFails(p)
  BY <1>2 DEF CreateTreeFails, PatchRecord, TypeOK, RecordType, RecordTyped
<1>3. CASE StoreTree(p)
  BY <1>3 DEF StoreTree, PatchRecord, TypeOK, RecordType, RecordTyped
<1>4. CASE DiscardUnacknowledged(p)
  BY <1>4 DEF DiscardUnacknowledged, TypeOK, RecordTyped
<1>5. CASE \/ PlanIntent(p) \/ CreateTree(p) \/ PersistReady(p) \/ CreateSession(p)
           \/ SubscribeUnreachable(p) \/ PromptUnreachable(p) \/ FailBeforePrompt(p)
           \/ CleanTree(p) \/ CleanIntent(p)
  BY <1>5 DEF PlanIntent, CreateTree, PersistReady, CreateSession, SubscribeUnreachable,
     PromptUnreachable, Recreate, FailBeforePrompt, CleanTree, CleanIntent, TypeOK, RecordTyped
<1> QED BY <1>1, <1>2, <1>3, <1>4, <1>5 DEF Start

LEMMA PromptRecord == ASSUME TypeOK, MemoryInv, NEW p \in Proc, Prompt(p) PROVE RecordTyped
<1>0. goal[p] \in 0..MaxTurns
  BY DEF TypeOK
<1>1. ASSUME NEW s \in {"running", "unknown"}, pc[p] \in {"landed", "preserved"}, WriteRecord(p, s)
      PROVE  RecordTyped
  <2>1. held[p].session \in 0..2
    BY <1>1 DEF MemoryInv, WithIntent, IntentType
  <2>2. NewRecord(held[p].session, goal[p], s) \in RecordType
    BY <1>0, <2>1, TurnIsNat DEF NewRecord, RecordType, States
  <2>3. ASSUME NEW r \in RecordType
        PROVE  [r EXCEPT !.session = held[p].session, !.message = goal[p], !.state = s] \in RecordType
    BY <1>0, <2>1 DEF RecordType, States
  <2> QED BY <1>1, <2>2, <2>3 DEF WriteRecord, PatchRecord, InsertRecord, TypeOK, RecordTyped
<1>2. CASE PreserveRecord(p)
  BY <1>1, <1>2 DEF PreserveRecord
<1>3. CASE WriteRef(p)
  BY <1>1, <1>3 DEF WriteRef
<1>4. CASE PatchMessage(p)
  <2>1. ASSUME NEW r \in RecordType
        PROVE  /\ [r EXCEPT !.message = goal[p], !.state = "running"] \in RecordType
               /\ [r EXCEPT !.message = goal[p]] \in RecordType
    BY <1>0 DEF RecordType, States
  <2> QED BY <1>4, <2>1 DEF PatchMessage, PatchRecord, TypeOK, RecordTyped
<1>5. CASE \/ PersistUncertain(p) \/ Send(p) \/ Accepted(p) \/ ResponseLost(p)
           \/ MessageFails(p) \/ Confirmed(p) \/ ConfirmTimesOut(p)
           \/ PreserveIntent(p) \/ PersistRunning(p) \/ Acknowledge(p)
  BY <1>5 DEF PersistUncertain, Send, Accepted, ResponseLost, MessageFails, Confirmed,
     ConfirmTimesOut, PreserveIntent, PersistRunning, Acknowledge, TypeOK, RecordTyped
<1> QED BY <1>2, <1>3, <1>4, <1>5 DEF Prompt

LEMMA FinalizeRecord == ASSUME TypeOK, NEW p \in Proc, Finalize(p) PROVE RecordTyped
<1>1. CASE PatchTerminal(p)
  <2>1. goal[p] \in 0..MaxTurns /\ made[p] \in 0..MaxTurns
    BY DEF TypeOK
  <2>2. ASSUME NEW r \in RecordType
        PROVE  [r EXCEPT !.state = "done", !.completion = goal[p],
                  !.commit = IF made[p] = 0 THEN @ ELSE made[p]] \in RecordType
    <3>1. [r EXCEPT !.state = "done", !.completion = goal[p]] \in RecordType
      BY <2>1 DEF RecordType, States
    <3>2. (IF made[p] = 0 THEN r.commit ELSE made[p]) \in 0..MaxTurns
      BY <2>1 DEF RecordType
    <3>3. QED
      BY <2>1, <3>2 DEF RecordType, States
  <2> QED BY <1>1, <2>2 DEF PatchTerminal, PatchRecord, TypeOK, RecordTyped
<1>2. CASE \/ SaveCursor(p) \/ TerminalObserved(p) \/ ReplyInvalid(p)
           \/ ReadTerminal(p) \/ CloseTurn(p) \/ ValidateTree(p) \/ Commit(p)
           \/ PersistCommitted(p) \/ RemoveIntent(p)
  BY <1>2 DEF SaveCursor, TerminalObserved, ReplyInvalid, ReadTerminal, CloseTurn, ValidateTree,
     Commit, PersistCommitted, RemoveIntent, TypeOK, RecordTyped
<1> QED BY <1>1, <1>2 DEF Finalize

LEMMA ReconcileRecord == ASSUME TypeOK, MemoryInv, NEW p \in Proc, Reconcile(p) PROVE RecordTyped
<1>1. CASE TombstoneStrand(p)
  BY <1>1 DEF TombstoneStrand, TypeOK, RecordType, RecordTyped
<1>2. CASE PatchOrInsert(p)
  <2> DEFINE message == IF held[p].phase = SessionCreated THEN 0 ELSE held[p].message
             state   == IF then[p] = "remove" THEN "idle" ELSE "running"
             patched == [record EXCEPT !.session = held[p].session, !.state = state,
                                       !.message = IF message = 0 THEN @ ELSE message]
             new == NewRecord(held[p].session, message, state)
  <2>1. held[p] \in IntentType
    BY <1>2 DEF PatchOrInsert, MemoryInv, WithIntent
  <2>2. held[p].session \in 0..2 /\ message \in 0..MaxTurns /\ state \in States
    BY <2>1, TurnIsNat DEF IntentType, States
  <2>3. \/ record # NoRecord /\ record' = patched
        \/ record' = new
    BY <1>2 DEF PatchOrInsert, PatchRecord, InsertRecord
  <2> HIDE DEF message, state
  <2>4. new \in RecordType
    BY <2>2, TurnIsNat DEF NewRecord, RecordType
  <2>5. record # NoRecord => patched \in RecordType
    <3>1. record # NoRecord => (IF message = 0 THEN record.message ELSE message) \in 0..MaxTurns
      BY <2>2 DEF TypeOK, RecordType
    <3>2. QED
      BY <2>2, <3>1 DEF TypeOK, RecordType
  <2> QED BY <2>3, <2>4, <2>5 DEF RecordTyped
<1>3. CASE SettleCommitted(p)
  <2>1. held[p] \in IntentType
    BY <1>3 DEF SettleCommitted, Recovering, MemoryInv, WithIntent
  <2>2. held[p].commit \in 0..MaxTurns /\ held[p].reply \in 0..MaxTurns
    BY <2>1 DEF IntentType
  <2>3. ASSUME NEW r \in RecordType
        PROVE  [r EXCEPT !.state = "done", !.commit = held[p].commit,
                         !.completion = held[p].reply] \in RecordType
    BY <2>2 DEF RecordType, States
  <2> QED BY <1>3, <2>3 DEF SettleCommitted, PatchRecord, TypeOK, RecordTyped
<1>4. CASE \/ ReadIntent(p) \/ AdoptSession(p) \/ CleanStrandedTree(p)
           \/ SessionAnswers(p) \/ ServerSilent(p)
           \/ PromptLanded(p) \/ PromptMissing(p) \/ StaleRunning(p)
           \/ StillRunning(p) \/ PersistRecovered(p)
           \/ AdoptCommit(p) \/ FinalizeRecovered(p)
  BY <1>4 DEF ReadIntent, AdoptSession, CleanStrandedTree, SessionAnswers, ServerSilent,
     PromptLanded, PromptMissing, StaleRunning, StillRunning, PersistRecovered, AdoptCommit,
     FinalizeRecovered, Upsert, Resume, TypeOK, RecordTyped
<1> QED BY <1>1, <1>2, <1>3, <1>4 DEF Reconcile

LEMMA CommandRecord == ASSUME TypeOK, NEW p \in Proc, Command(p) PROVE RecordTyped
<1>1. CASE PatchAborted(p)
  BY <1>1 DEF PatchAborted, PatchRecord, TypeOK, RecordType, States, RecordTyped
<1>2. CASE \/ \E c \in Allowed : Begin(p, c)
           \/ List(p) \/ Follow(p) \/ OpenJournal(p) \/ Message(p) \/ Queue(p) \/ AbortSession(p)
  BY <1>2 DEF Begin, List, Follow, OpenJournal, Message, Queue, AbortSession, TypeOK, RecordTyped
<1> QED BY <1>1, <1>2 DEF Command

HIDE DEF Planned, WorktreeReady, SessionCreated, PromptUncertain, Running, Observed,
         Validated, Committed

-----------------------------------------------------------------------------
(* A process changes its own place and memory and nobody else's.           *)

(* A command changes nothing of another's place and memory.                *)
OwnPlace(p) ==
  /\ pc' = [pc EXCEPT ![p] = pc'[p]]
  /\ pc'[p] \in Places

OwnMemory(p) ==
  /\ cmd'  = [cmd EXCEPT ![p] = cmd'[p]]
  /\ held' = [held EXCEPT ![p] = held'[p]]
  /\ goal' = [goal EXCEPT ![p] = goal'[p]]
  /\ made' = [made EXCEPT ![p] = made'[p]]
  /\ then' = [then EXCEPT ![p] = then'[p]]

LEMMA Domains ==
  ASSUME TypeOK
  PROVE  /\ pc \in [Proc -> Places] /\ cmd = [q \in Proc |-> cmd[q]]
         /\ held = [q \in Proc |-> held[q]] /\ goal = [q \in Proc |-> goal[q]]
         /\ made = [q \in Proc |-> made[q]] /\ then = [q \in Proc |-> then[q]]
BY DEF TypeOK

LEMMA StartOwn == ASSUME TypeOK, NEW p \in Proc, Start(p) PROVE OwnPlace(p) /\ OwnMemory(p)
<1>1. OwnPlace(p)
  BY Domains, ZenonT(30) DEF Start, PlanIntent, ReserveRef, CreateTree, CreateTreeFails, StoreTree,
     PersistReady, CreateSession, SubscribeUnreachable, PromptUnreachable, Recreate,
     FailBeforePrompt, CleanTree, CleanIntent, DiscardUnacknowledged, OwnPlace, Places
<1>2. OwnMemory(p)
  BY Domains DEF Start, PlanIntent, ReserveRef, CreateTree, CreateTreeFails, StoreTree,
     PersistReady, CreateSession, SubscribeUnreachable, PromptUnreachable, Recreate,
     FailBeforePrompt, CleanTree, CleanIntent, DiscardUnacknowledged, OwnMemory
<1> QED BY <1>1, <1>2

LEMMA PromptOwn == ASSUME TypeOK, NEW p \in Proc, Prompt(p) PROVE OwnPlace(p) /\ OwnMemory(p)
<1>1. OwnPlace(p)
  BY Domains DEF Prompt, PersistUncertain, Send, Accepted, ResponseLost, MessageFails,
     Confirmed, ConfirmTimesOut, PreserveIntent, PreserveRecord, PersistRunning, WriteRef,
     Acknowledge, PatchMessage, OwnPlace, Places
<1>2. OwnMemory(p)
  BY Domains DEF Prompt, PersistUncertain, Send, Accepted, ResponseLost, MessageFails,
     Confirmed, ConfirmTimesOut, PreserveIntent, PreserveRecord, PersistRunning, WriteRef,
     Acknowledge, PatchMessage, OwnMemory
<1> QED BY <1>1, <1>2

LEMMA FinalizeOwn == ASSUME TypeOK, NEW p \in Proc, Finalize(p) PROVE OwnPlace(p) /\ OwnMemory(p)
<1>1. OwnPlace(p)
  BY Domains DEF Finalize, SaveCursor, TerminalObserved, Watches, ReplyInvalid, ReadTerminal,
     CloseTurn, ValidateTree, Commit, PersistCommitted, PatchTerminal, RemoveIntent, OwnPlace,
     Places
<1>2. OwnMemory(p)
  BY Domains DEF Finalize, SaveCursor, TerminalObserved, Watches, ReplyInvalid, ReadTerminal,
     CloseTurn, ValidateTree, Commit, PersistCommitted, PatchTerminal, RemoveIntent, OwnMemory
<1> QED BY <1>1, <1>2

LEMMA ReconcileOwn == ASSUME TypeOK, MemoryInv, NEW p \in Proc, Reconcile(p) PROVE OwnPlace(p) /\ OwnMemory(p)
<1>0. pc[p] = "upsert" => then[p] \in Places
  BY DEF TypeOK, MemoryInv, Places
<1>1. OwnPlace(p)
  BY <1>0, Domains, ZenonT(30) DEF Reconcile, ReadIntent, AdoptSession, CleanStrandedTree, TombstoneStrand,
     SessionAnswers, ServerSilent, PromptLanded, PromptMissing, StaleRunning, StillRunning,
     PatchOrInsert, PersistRecovered, AdoptCommit, FinalizeRecovered, SettleCommitted, Recovering,
     Upsert, Resume, OwnPlace, Places
<1>2. OwnMemory(p)
  BY Domains DEF Reconcile, ReadIntent, AdoptSession, CleanStrandedTree, TombstoneStrand,
     SessionAnswers, ServerSilent, PromptLanded, PromptMissing, StaleRunning, StillRunning,
     PatchOrInsert, PersistRecovered, AdoptCommit, FinalizeRecovered, SettleCommitted, Recovering,
     Upsert, Resume, OwnMemory
<1> QED BY <1>1, <1>2

LEMMA CommandOwn == ASSUME TypeOK, NEW p \in Proc, Command(p) PROVE OwnPlace(p) /\ OwnMemory(p)
<1>1. OwnPlace(p)
  BY Domains DEF Command, Begin, List, Follow, OpenJournal, Message, Queue, AbortSession,
     PatchAborted, OwnPlace, Places
<1>2. OwnMemory(p)
  BY Domains DEF Command, Begin, List, Follow, OpenJournal, Message, Queue, AbortSession,
     PatchAborted, OwnMemory
<1> QED BY <1>1, <1>2

-----------------------------------------------------------------------------
(* The rest of the state keeps its type, and the log stays shorter than the*)
(* number of messages whose edits it holds: LogInv gives the number of a   *)
(* commit its bound.                                                       *)

Status == {"unsent", "inflight", "dropped"} \cup Admitted

OwnTyped(p) ==
  /\ cmd'[p] \in Commands \cup {"none", "dispatch"}
  /\ goal'[p] \in 0..MaxTurns
  /\ made'[p] \in 0..MaxTurns
  /\ then'[p] \in {"end", "resume", "persist", "remove"}
  /\ turnLock' \in Operators \cup {Nobody}

GitTyped ==
  /\ tree' \in BOOLEAN
  /\ dirty' \subseteq Turn
  /\ staged' \subseteq Turn
  /\ log' \in Seq(SUBSET Turn)

ServerTyped ==
  /\ status' \in [Turn -> Status]
  /\ sentTo' \in [Turn -> 0..2]
  /\ minted' \in 0..MaxTurns
  /\ sends' \in [Turn -> Nat]

OutputTyped ==
  /\ worktree' \in BOOLEAN
  /\ acked' \in BOOLEAN
  /\ confirmed' \subseteq Turn

LEMMA Own ==
  ASSUME TypeOK
  PROVE  /\ cmd \in [Proc -> Commands \cup {"none", "dispatch"}]
         /\ goal \in [Proc -> 0..MaxTurns]
         /\ made \in [Proc -> 0..MaxTurns]
         /\ then \in [Proc -> {"end", "resume", "persist", "remove"}]
         /\ turnLock \in Operators \cup {Nobody}
         /\ 0 \in 0..MaxTurns
BY TurnIsNat DEF TypeOK

LEMMA GitTypes ==
  ASSUME TypeOK
  PROVE  tree \in BOOLEAN /\ dirty \subseteq Turn /\ staged \subseteq Turn /\ log \in Seq(SUBSET Turn)
BY DEF TypeOK

LEMMA ServerTypes ==
  ASSUME TypeOK
  PROVE  /\ status \in [Turn -> Status] /\ sentTo \in [Turn -> 0..2]
         /\ minted \in 0..MaxTurns /\ sends \in [Turn -> Nat]
BY DEF TypeOK, Status

LEMMA OutputTypes ==
  ASSUME TypeOK
  PROVE  worktree \in BOOLEAN /\ acked \in BOOLEAN /\ confirmed \subseteq Turn
BY DEF TypeOK

LEMMA StartOthers ==
  ASSUME TypeOK, MemoryInv, NEW p \in Proc, Start(p)
  PROVE  OwnTyped(p) /\ GitTyped /\ ServerTyped /\ OutputTyped
<1>1. UNCHANGED <<sentTo, sends, minted, dirty, staged, log, acked, confirmed, worktree>>
  BY DEF Start, PlanIntent, ReserveRef, CreateTree, CreateTreeFails, StoreTree, PersistReady,
     CreateSession, SubscribeUnreachable, PromptUnreachable, Recreate, FailBeforePrompt, CleanTree,
     CleanIntent, DiscardUnacknowledged
<1>2. OwnTyped(p)
  BY Own DEF Start, PlanIntent, ReserveRef, CreateTree, CreateTreeFails, StoreTree,
     PersistReady, CreateSession, SubscribeUnreachable, PromptUnreachable, Recreate,
     FailBeforePrompt, CleanTree, CleanIntent, DiscardUnacknowledged, OwnTyped
<1>3. status' \in [Turn -> Status]
  BY ServerTypes DEF Start, PlanIntent, ReserveRef, CreateTree, CreateTreeFails, StoreTree,
     PersistReady, CreateSession, SubscribeUnreachable, PromptUnreachable, Recreate,
     FailBeforePrompt, CleanTree, CleanIntent, DiscardUnacknowledged, Status
<1>4. tree' \in BOOLEAN
  BY GitTypes DEF Start, PlanIntent, ReserveRef, CreateTree, CreateTreeFails, StoreTree,
     PersistReady, CreateSession, SubscribeUnreachable, PromptUnreachable, Recreate,
     FailBeforePrompt, CleanTree, CleanIntent, DiscardUnacknowledged
<1> QED BY <1>1, <1>2, <1>3, <1>4, GitTypes, ServerTypes, OutputTypes DEF GitTyped,
     ServerTyped, OutputTyped

LEMMA PromptOthers ==
  ASSUME TypeOK, MemoryInv, NEW p \in Proc, Prompt(p)
  PROVE  OwnTyped(p) /\ GitTyped /\ ServerTyped /\ OutputTyped
<1>0. pc[p] \in WithGoal => goal[p] \in Turn
  BY DEF MemoryInv
<1>1. UNCHANGED <<tree, dirty, staged, log, worktree>> /\ acked' \in BOOLEAN
  BY OutputTypes DEF Prompt, PersistUncertain, Send, Accepted, ResponseLost, MessageFails,
     Confirmed, ConfirmTimesOut, PreserveIntent, PreserveRecord, PersistRunning, WriteRef,
     Acknowledge, PatchMessage
<1>2. OwnTyped(p)
  <2>1. CASE PersistUncertain(p)
    BY <2>1, Own, ServerTypes, TurnIsNat DEF PersistUncertain, OwnTyped
  <2>2. CASE Prompt(p) /\ ~PersistUncertain(p)
    BY <2>2, Own DEF Prompt, PersistUncertain, Send, Accepted, ResponseLost, MessageFails,
       Confirmed, ConfirmTimesOut, PreserveIntent, PreserveRecord, PersistRunning, WriteRef,
       Acknowledge, PatchMessage, OwnTyped
  <2> QED BY <2>1, <2>2
<1>3. confirmed' \subseteq Turn
  BY <1>0, OutputTypes DEF Prompt, PersistUncertain, Send, Accepted, ResponseLost, MessageFails,
     Confirmed, ConfirmTimesOut, PreserveIntent, PreserveRecord, PersistRunning, WriteRef,
     Acknowledge, PatchMessage, WithGoal
<1>4. sends' \in [Turn -> Nat]
  BY <1>0, ServerTypes DEF Prompt, PersistUncertain, Send, Accepted, ResponseLost, MessageFails,
     Confirmed, ConfirmTimesOut, PreserveIntent, PreserveRecord, PersistRunning, WriteRef,
     Acknowledge, PatchMessage, WithGoal
<1>5. sentTo' \in [Turn -> 0..2]
  <2>1. pc[p] = "prompt" => held[p].session \in 0..2
    BY DEF MemoryInv, WithIntent, IntentType
  <2>2. QED
    BY <2>1, <1>0, ServerTypes DEF Prompt, PersistUncertain, Send, Accepted, ResponseLost,
       MessageFails, Confirmed, ConfirmTimesOut, PreserveIntent, PreserveRecord, PersistRunning,
       WriteRef, Acknowledge, PatchMessage, WithGoal
<1>6. status' \in [Turn -> Status]
  BY ServerTypes DEF Prompt, PersistUncertain, Send, Accepted, ResponseLost, MessageFails,
     Confirmed, ConfirmTimesOut, PreserveIntent, PreserveRecord, PersistRunning, WriteRef,
     Acknowledge, PatchMessage, Status
<1>7. minted' \in 0..MaxTurns
  BY ServerTypes, TurnIsNat DEF Prompt, PersistUncertain, Send, Accepted, ResponseLost,
     MessageFails, Confirmed, ConfirmTimesOut, PreserveIntent, PreserveRecord, PersistRunning,
     WriteRef, Acknowledge, PatchMessage
<1> QED BY <1>1, <1>2, <1>3, <1>4, <1>5, <1>6, <1>7, GitTypes, ServerTypes, OutputTypes DEF
     GitTyped, ServerTyped, OutputTyped

LEMMA LogGrows ==
  ASSUME TypeOK, LogInv, NEW p \in Proc, Commit(p)
  PROVE  LogInv' /\ Len(log') = Len(log) + 1 /\ log' \in Seq(SUBSET Turn)
<1>1. /\ staged # {} /\ log' = Append(log, staged) /\ dirty' = dirty \ staged /\ staged' = {}
  BY DEF Commit
<1>2. log \in Seq(SUBSET Turn) /\ staged \subseteq Turn /\ Len(log) \in Nat
  BY DEF TypeOK
<1>3. Len(log') = Len(log) + 1 /\ log' \in Seq(SUBSET Turn)
  BY <1>1, <1>2
<1>4. Logged' = Logged \cup staged
  <2>1. \A k \in 1..Len(log) : log'[k] = log[k]
    BY <1>1, <1>2
  <2>2. log'[Len(log) + 1] = staged
    BY <1>1, <1>2
  <2>3. 1..Len(log') = (1..Len(log)) \cup {Len(log) + 1}
    BY <1>2, <1>3
  <2> QED BY <2>1, <2>2, <2>3 DEF Logged
<1>5. Logged \cap staged = {} /\ staged \subseteq dirty /\ dirty \cap Logged = {}
  BY DEF LogInv
<1>6. IsFiniteSet(Logged) /\ IsFiniteSet(staged)
  <2>1. IsFiniteSet(Turn)
    BY TurnIsNat, FS_Interval DEF Turn
  <2>2. Logged \subseteq Turn
    BY <1>2 DEF Logged
  <2> QED BY <1>2, <2>1, <2>2, FS_Subset
<1>7. Cardinality(Logged') = Cardinality(Logged) + Cardinality(staged)
  <2>1. Cardinality(Logged \cup staged) = Cardinality(Logged) + Cardinality(staged) - Cardinality(Logged \cap staged)
    BY <1>6, FS_Union
  <2>2. Cardinality(Logged \cap staged) = 0
    BY <1>5, FS_EmptySet
  <2> QED BY <1>4, <1>6, <2>1, <2>2, FS_CardinalityType
<1>8. Cardinality(staged) >= 1 /\ Cardinality(staged) \in Nat /\ Cardinality(Logged) \in Nat
  BY <1>1, <1>6, FS_CardinalityType, FS_EmptySet
<1>9. Len(log') <= Cardinality(Logged')
  BY <1>2, <1>3, <1>7, <1>8 DEF LogInv
<1>10. dirty' \cap Logged' = {} /\ staged' \subseteq dirty'
  BY <1>1, <1>4, <1>5
<1> QED BY <1>3, <1>9, <1>10 DEF LogInv

LEMMA FinalizeOthers ==
  ASSUME TypeOK, MemoryInv, LogInv, NEW p \in Proc, Finalize(p)
  PROVE  OwnTyped(p) /\ GitTyped /\ ServerTyped /\ OutputTyped
<1>1. UNCHANGED <<tree, worktree, acked, confirmed, status, sends, sentTo, minted>>
  BY DEF Finalize, SaveCursor, TerminalObserved, Watches, ReplyInvalid, ReadTerminal, CloseTurn,
     ValidateTree, Commit, PersistCommitted, PatchTerminal, RemoveIntent
<1>2. GitTyped
  <2>1. CASE Commit(p)
    BY <2>1, GitTypes, LogGrows DEF Commit, GitTyped
  <2>2. CASE Finalize(p) /\ ~Commit(p)
    BY <2>2, GitTypes DEF Finalize, SaveCursor, TerminalObserved, Watches, ReplyInvalid,
       ReadTerminal, CloseTurn, ValidateTree, Commit, PersistCommitted, PatchTerminal,
       RemoveIntent, GitTyped
  <2> QED BY <2>1, <2>2
<1>3. OwnTyped(p)
  <2>1. CASE Commit(p)
    <3>1. Len(log') \in 0..MaxTurns
      <4>1. LogInv' /\ Logged' \subseteq Turn
        BY <2>1, LogGrows DEF Logged
      <4>2. IsFiniteSet(Turn) /\ Cardinality(Turn) = MaxTurns
        BY TurnIsNat, FS_Interval DEF Turn
      <4>3. Cardinality(Logged') \in Nat /\ Cardinality(Logged') <= MaxTurns
        BY <4>1, <4>2, FS_Subset, FS_CardinalityType
      <4> QED BY <2>1, <4>1, <4>3, LogGrows, TurnIsNat DEF LogInv
    <3> QED BY <2>1, <3>1, Own DEF Commit, OwnTyped
  <2>2. CASE Finalize(p) /\ ~Commit(p)
    BY <2>2, Own DEF Finalize, SaveCursor, TerminalObserved, Watches, ReplyInvalid,
       ReadTerminal, CloseTurn, ValidateTree, Commit, PersistCommitted, PatchTerminal,
       RemoveIntent, OwnTyped
  <2> QED BY <2>1, <2>2
<1> QED BY <1>1, <1>2, <1>3, ServerTypes, OutputTypes DEF ServerTyped, OutputTyped

LEMMA ReconcileOthers ==
  ASSUME TypeOK, MemoryInv, NEW p \in Proc, Reconcile(p)
  PROVE  OwnTyped(p) /\ GitTyped /\ ServerTyped /\ OutputTyped
<1>1. UNCHANGED <<worktree, acked, confirmed, status, sends, sentTo, minted, dirty, staged, log>>
  BY DEF Reconcile, ReadIntent, AdoptSession, CleanStrandedTree, TombstoneStrand,
     SessionAnswers, ServerSilent, PromptLanded, PromptMissing, StaleRunning, StillRunning,
     PatchOrInsert, PersistRecovered, AdoptCommit, FinalizeRecovered, SettleCommitted, Recovering,
     Upsert, Resume
<1>2. tree' \in BOOLEAN
  BY GitTypes DEF Reconcile, ReadIntent, AdoptSession, CleanStrandedTree, TombstoneStrand,
     SessionAnswers, ServerSilent, PromptLanded, PromptMissing, StaleRunning, StillRunning,
     PatchOrInsert, PersistRecovered, AdoptCommit, FinalizeRecovered, SettleCommitted, Recovering,
     Upsert, Resume
<1>3. OwnTyped(p)
  <2>1. pc[p] = "recover" => held[p].reply \in 0..MaxTurns
    BY DEF MemoryInv, WithIntent, IntentType
  <2> QED BY <2>1, Own DEF Reconcile, ReadIntent, AdoptSession, CleanStrandedTree,
       TombstoneStrand, SessionAnswers, ServerSilent, PromptLanded, PromptMissing, StaleRunning,
       StillRunning, PatchOrInsert, PersistRecovered, AdoptCommit, FinalizeRecovered,
       SettleCommitted, Recovering, Upsert, Resume, OwnTyped
<1> QED BY <1>1, <1>2, <1>3, GitTypes, ServerTypes, OutputTypes DEF GitTyped, ServerTyped,
     OutputTyped

LEMMA CommandOthers ==
  ASSUME TypeOK, NEW p \in Proc, Command(p)
  PROVE  OwnTyped(p) /\ GitTyped /\ ServerTyped /\ OutputTyped
<1>1. UNCHANGED <<worktree, acked, confirmed, sends, sentTo, tree, dirty, staged, log>>
  BY DEF Command, Begin, List, Follow, OpenJournal, Message, Queue, AbortSession, PatchAborted
<1>2. status' \in [Turn -> Status]
  BY ServerTypes DEF Command, Begin, List, Follow, OpenJournal, Message, Queue, AbortSession,
     PatchAborted, Status, Admitted
<1>3. minted' \in 0..MaxTurns
  <2>1. CASE Queue(p)
    BY <2>1, ServerTypes, TurnIsNat DEF Queue
  <2>2. CASE Command(p) /\ ~Queue(p)
    BY <2>2, ServerTypes DEF Command, Begin, List, Follow, OpenJournal, Message, Queue,
       AbortSession, PatchAborted
  <2> QED BY <2>1, <2>2
<1>4. OwnTyped(p)
  <2>0. Allowed \subseteq Commands
    BY ProcAssumption
  <2>1. Active => record.message \in 0..MaxTurns
    BY DEF Active, TypeOK, RecordType
  <2> QED BY <1>3, <2>0, <2>1, Own DEF Command, Begin, List, Follow, OpenJournal, Message,
       Queue, AbortSession, PatchAborted, OwnTyped
<1> QED BY <1>1, <1>2, <1>3, <1>4, GitTypes, ServerTypes, OutputTypes DEF GitTyped,
     ServerTyped, OutputTyped

-----------------------------------------------------------------------------
(* TypeOK and MemoryInv: what a process remembers at each of its places.   *)

Remembered(p) ==
  /\ pc'[p] \in WithGoal => goal'[p] \in Turn
  /\ pc'[p] \in {"reserved", "treed", "stored", "planned"} => held'[p].session < 2
  /\ pc'[p] = "upsert" => then'[p] # "end"

LEMMA TypeStep ==
  ASSUME TypeOK, NEW p \in Proc, OwnPlace(p), OwnMemory(p), Typed(p), RecordTyped, OwnTyped(p),
         GitTyped, ServerTyped, OutputTyped
  PROVE  TypeOK'
<1>1. pc' \in [Proc -> Places]
  BY Domains DEF OwnPlace
<1>2. /\ cmd' \in [Proc -> Commands \cup {"none", "dispatch"}]
      /\ goal' \in [Proc -> 0..MaxTurns]
      /\ made' \in [Proc -> 0..MaxTurns]
      /\ then' \in [Proc -> {"end", "resume", "persist", "remove"}]
  BY Own DEF OwnMemory, OwnTyped
<1>3. held' \in [Proc -> IntentType \cup {NoIntent}]
  <2>1. held \in [Proc -> IntentType \cup {NoIntent}]
    BY DEF TypeOK
  <2>2. QED
    BY <2>1 DEF OwnMemory, Typed
<1>4. QED
  BY <1>1, <1>2, <1>3 DEF TypeOK, Typed, RecordTyped, OwnTyped, GitTyped, ServerTyped,
     OutputTyped, Status

LEMMA MemoryStep ==
  ASSUME TypeOK, MemoryInv, NEW p \in Proc, OwnPlace(p), OwnMemory(p), Typed(p), Remembered(p)
  PROVE  MemoryInv'
<1>1. /\ pc' = [pc EXCEPT ![p] = pc'[p]] /\ held' = [held EXCEPT ![p] = held'[p]]
      /\ goal' = [goal EXCEPT ![p] = goal'[p]] /\ then' = [then EXCEPT ![p] = then'[p]]
  BY DEF OwnPlace, OwnMemory
<1>2. \A q \in Proc \ {p} :
        pc'[q] = pc[q] /\ held'[q] = held[q] /\ goal'[q] = goal[q] /\ then'[q] = then[q]
  BY <1>1, Domains
<1>3. QED
  BY <1>2 DEF MemoryInv, Typed, Remembered

LEMMA StartRemembered == ASSUME TypeOK, MemoryInv, NEW p \in Proc, Start(p) PROVE Remembered(p)
<1>1. pc'[p] \notin WithGoal
  BY Domains DEF Start, PlanIntent, ReserveRef, CreateTree, CreateTreeFails, StoreTree,
     PersistReady, CreateSession, SubscribeUnreachable, PromptUnreachable, Recreate,
     FailBeforePrompt, CleanTree, CleanIntent, DiscardUnacknowledged, WithGoal, Settling
<1>2. pc'[p] # "upsert"
  BY Domains DEF Start, PlanIntent, ReserveRef, CreateTree, CreateTreeFails, StoreTree,
     PersistReady, CreateSession, SubscribeUnreachable, PromptUnreachable, Recreate,
     FailBeforePrompt, CleanTree, CleanIntent, DiscardUnacknowledged
<1>3. pc'[p] \in {"reserved", "treed", "stored", "planned"} => held'[p].session < 2
  <2>1. CASE PlanIntent(p) \/ ReserveRef(p)
    <3>1. NewIntent(TRUE, Planned, 0, 0).session = 0
      BY DEF NewIntent
    <3>2. held'[p] = NewIntent(TRUE, Planned, 0, 0)
      BY <2>1, Domains DEF PlanIntent, ReserveRef
    <3>3. held'[p].session = 0
      BY <3>1, <3>2, Zenon
    <3> QED BY <3>3
  <2>2. CASE CreateTree(p)
    <3>1. pc[p] = "reserved" /\ held[p] \in IntentType /\ held[p].session < 2
      BY <2>2 DEF CreateTree, MemoryInv, WithIntent
    <3>2. InPhase(p, WorktreeReady).session = held[p].session
      BY <3>1, Phased DEF WorktreeReady
    <3>3. held'[p] = InPhase(p, WorktreeReady)
      BY <2>2, Domains DEF CreateTree
    <3>4. held'[p].session = held[p].session
      BY <3>2, <3>3, Zenon
    <3> QED BY <3>1, <3>4
  <2>3. CASE Start(p) /\ ~PlanIntent(p) /\ ~ReserveRef(p) /\ ~CreateTree(p)
    <3>1. pc[p] \in {"reserved", "treed", "stored", "planned"} => held[p].session < 2
      BY DEF MemoryInv
    <3>2. CASE SubscribeUnreachable(p) \/ PromptUnreachable(p)
      <4>1. held'[p] = held[p] /\ held[p].session = 1
        BY <3>2 DEF SubscribeUnreachable, PromptUnreachable, Recreate
      <4> QED BY <4>1
    <3>3. CASE Start(p) /\ ~SubscribeUnreachable(p) /\ ~PromptUnreachable(p)
      <4>1. /\ pc'[p] \in {"reserved", "treed", "stored", "planned"} =>
                  pc[p] \in {"reserved", "treed", "stored", "planned"} /\ held'[p] = held[p]
        BY <2>3, <3>3, Domains DEF Start, CreateTreeFails, StoreTree, PersistReady,
           CreateSession, FailBeforePrompt, CleanTree, CleanIntent, DiscardUnacknowledged
      <4> QED BY <3>1, <4>1
    <3> QED BY <2>3, <3>2, <3>3
  <2> QED BY <2>1, <2>2, <2>3
<1> QED BY <1>1, <1>2, <1>3 DEF Remembered

LEMMA PromptRemembered == ASSUME TypeOK, MemoryInv, NEW p \in Proc, Prompt(p) PROVE Remembered(p)
<1>1. pc'[p] \notin {"reserved", "treed", "stored", "planned", "upsert"}
  BY Domains DEF Prompt, PersistUncertain, Send, Accepted, ResponseLost, MessageFails,
     Confirmed, ConfirmTimesOut, PreserveIntent, PreserveRecord, PersistRunning, WriteRef,
     Acknowledge, PatchMessage
<1>2. pc'[p] \in WithGoal => goal'[p] \in Turn
  <2>1. CASE PersistUncertain(p)
    BY <2>1, Own, ServerTypes, TurnIsNat DEF PersistUncertain, Turn
  <2>2. CASE Prompt(p) /\ ~PersistUncertain(p)
    <3>1. pc[p] \in WithGoal => goal[p] \in Turn
      BY DEF MemoryInv
    <3> QED BY <2>2, <3>1, Domains DEF Prompt, PersistUncertain, Send, Accepted, ResponseLost,
         MessageFails, Confirmed, ConfirmTimesOut, PreserveIntent, PreserveRecord, PersistRunning,
         WriteRef, Acknowledge, PatchMessage, WithGoal, Settling
  <2> QED BY <2>1, <2>2
<1> QED BY <1>1, <1>2 DEF Remembered

LEMMA FinalizeRemembered == ASSUME TypeOK, MemoryInv, NEW p \in Proc, Finalize(p) PROVE Remembered(p)
<1>1. pc'[p] \notin {"reserved", "treed", "stored", "planned", "upsert"}
  BY Domains DEF Finalize, SaveCursor, TerminalObserved, Watches, ReplyInvalid, ReadTerminal,
     CloseTurn, ValidateTree, Commit, PersistCommitted, PatchTerminal, RemoveIntent
<1>2. pc'[p] \in WithGoal => goal'[p] \in Turn
  <2>1. pc[p] \in WithGoal => goal[p] \in Turn
    BY DEF MemoryInv
  <2> QED BY <2>1, Domains DEF Finalize, SaveCursor, TerminalObserved, Watches, ReplyInvalid,
       ReadTerminal, CloseTurn, ValidateTree, Commit, PersistCommitted, PatchTerminal,
       RemoveIntent, WithGoal, Settling
<1> QED BY <1>1, <1>2 DEF Remembered

LEMMA ReconcileRemembered == ASSUME TypeOK, MemoryInv, NEW p \in Proc, Reconcile(p) PROVE Remembered(p)
<1>0. then[p] \in {"end", "resume", "persist", "remove"} /\ (pc[p] = "upsert" => then[p] # "end")
  BY DEF TypeOK, MemoryInv
<1>1. pc'[p] \notin {"reserved", "treed", "stored", "planned"}
  BY <1>0, Domains DEF Reconcile, ReadIntent, AdoptSession, CleanStrandedTree, TombstoneStrand,
     SessionAnswers, ServerSilent, PromptLanded, PromptMissing, StaleRunning, StillRunning,
     PatchOrInsert, PersistRecovered, AdoptCommit, FinalizeRecovered, SettleCommitted, Recovering,
     Upsert, Resume
<1>2. pc'[p] = "upsert" => then'[p] # "end"
  BY <1>0, Domains DEF Reconcile, ReadIntent, AdoptSession, CleanStrandedTree, TombstoneStrand,
     SessionAnswers, ServerSilent, PromptLanded, PromptMissing, StaleRunning, StillRunning,
     PatchOrInsert, PersistRecovered, AdoptCommit, FinalizeRecovered, SettleCommitted, Recovering,
     Upsert, Resume
<1>3. pc'[p] \in WithGoal => goal'[p] \in Turn
  <2>1. pc[p] \in WithGoal => goal[p] \in Turn
    BY DEF MemoryInv
  <2>2. pc[p] = "recover" => held[p].reply \in 0..MaxTurns
    BY DEF MemoryInv, WithIntent, IntentType
  <2>3. pc[p] = "recover" /\ held[p].reply # 0 => held[p].reply \in Turn
    BY <2>2, TurnIsNat DEF Turn
  <2> QED BY <1>0, <2>1, <2>3, Domains, ZenonT(30) DEF Reconcile, ReadIntent, AdoptSession,
       CleanStrandedTree, TombstoneStrand, SessionAnswers, ServerSilent, PromptLanded,
       PromptMissing, StaleRunning, StillRunning, PatchOrInsert, PersistRecovered, AdoptCommit,
       FinalizeRecovered, SettleCommitted, Recovering, Upsert, Resume, WithGoal, Settling
<1> QED BY <1>1, <1>2, <1>3 DEF Remembered

LEMMA CommandRemembered == ASSUME TypeOK, MemoryInv, NEW p \in Proc, Command(p) PROVE Remembered(p)
<1>1. pc'[p] \notin {"reserved", "treed", "stored", "planned", "upsert"}
  BY Domains DEF Command, Begin, List, Follow, OpenJournal, Message, Queue, AbortSession,
     PatchAborted
<1>2. pc'[p] \in WithGoal => goal'[p] \in Turn
  <2>1. CASE Queue(p)
    BY <2>1, Own, ServerTypes, TurnIsNat DEF Queue, Turn
  <2>2. CASE Command(p) /\ ~Queue(p)
    <3>1. pc[p] \in WithGoal => goal[p] \in Turn
      BY DEF MemoryInv
    <3>2. Active => record.message \in 0..MaxTurns
      BY DEF Active, TypeOK, RecordType
    <3>3. Active /\ record.message # 0 => record.message \in Turn
      BY <3>2, TurnIsNat DEF Turn
    <3> QED BY <2>2, <3>1, <3>3, Domains, ZenonT(30) DEF Command, Begin, List, Follow, OpenJournal,
         Message, Queue, AbortSession, PatchAborted, WithGoal, Settling
  <2> QED BY <2>1, <2>2
<1> QED BY <1>1, <1>2 DEF Remembered

USE DEF Planned, WorktreeReady, SessionCreated, PromptUncertain, Running, Observed,
        Validated, Committed

-----------------------------------------------------------------------------
(* ReplyInv and CommitInv, for intents: what is written and held names only*)
(* a reply that came, and is committed only with a commit.                 *)

(* What a process writes and remembers names no reply that has not come,   *)
(* and is committed only with a commit.                                    *)
SoundIntent(i) == Replied(i) /\ Numbered(i)
Sound(p) == SoundIntent(intent') /\ SoundIntent(held'[p])

LEMMA NoneSound == SoundIntent(NoIntent)
BY DEF SoundIntent, Replied, Numbered

LEMMA PhasedSound ==
  ASSUME NEW p \in Proc, held[p] \in IntentType, SoundIntent(held[p]), NEW n \in 1..7
  PROVE  SoundIntent(InPhase(p, n))
<1>1. /\ InPhase(p, n).reply = held[p].reply /\ InPhase(p, n).phase = n
  BY DEF IntentType, InPhase
<1>2. InPhase(p, n) # NoIntent /\ held[p] # NoIntent
  BY Phased, NoIntentIsNone
<1> QED BY <1>1, <1>2 DEF SoundIntent, Replied, Numbered

LEMMA OldSound ==
  ASSUME ReplyInv, CommitInv
  PROVE  SoundIntent(intent) /\ \A p \in Proc : SoundIntent(held[p])
BY DEF ReplyInv, CommitInv, SoundIntent

LEMMA StartSound ==
  ASSUME TypeOK, MemoryInv, ReplyInv, CommitInv, NEW p \in Proc, Start(p)
  PROVE  Sound(p)
<1>0. /\ pc[p] \in WithIntent => held[p] \in IntentType
      /\ SoundIntent(intent) /\ SoundIntent(held[p])
  BY OldSound DEF MemoryInv
<1>1. CASE PlanIntent(p)
  <2>1. SoundIntent(NewIntent(TRUE, Planned, 0, 0))
    BY DEF SoundIntent, Replied, Numbered, NewIntent
  <2>2. intent' = NewIntent(TRUE, Planned, 0, 0) /\ held'[p] = NewIntent(TRUE, Planned, 0, 0)
    BY <1>1, Domains DEF PlanIntent
  <2> QED BY <2>1, <2>2, Zenon DEF Sound
<1>2. CASE ReserveRef(p)
  <2>1. SoundIntent(NewIntent(TRUE, Planned, 0, 0))
    BY DEF SoundIntent, Replied, Numbered, NewIntent
  <2>2. intent' = intent /\ held'[p] = NewIntent(TRUE, Planned, 0, 0)
    BY <1>2, Domains DEF ReserveRef
  <2> QED BY <1>0, <2>1, <2>2, Zenon DEF Sound
<1>3. CASE CreateTree(p)
  <2>1. SoundIntent(InPhase(p, WorktreeReady))
    BY <1>0, <1>3, PhasedSound DEF CreateTree, WithIntent
  <2>2. intent' = intent /\ held'[p] = InPhase(p, WorktreeReady)
    BY <1>3, Domains DEF CreateTree
  <2> QED BY <1>0, <2>1, <2>2, Zenon DEF Sound
<1>4. CASE CreateSession(p)
  <2> DEFINE i == InPhase(p, SessionCreated)
             j == [i EXCEPT !.session = @ + 1]
  <2>1. i \in IntentType /\ SoundIntent(i)
    BY <1>0, <1>4, Phased, PhasedSound DEF CreateSession, WithIntent
  <2>2. intent' = j /\ held'[p] = j
    BY <1>4, Domains DEF CreateSession
  <2>a. i.phase = 3
    BY <1>0, <1>4 DEF InPhase, IntentType, CreateSession, WithIntent
  <2> HIDE DEF i
  <2>3. j.reply = i.reply /\ j.phase = i.phase /\ i # NoIntent
    BY <2>1, NoIntentIsNone DEF IntentType
  <2> HIDE DEF j
  <2>4. SoundIntent(j)
    BY <2>1, <2>3, <2>a DEF SoundIntent, Replied, Numbered
  <2> QED BY <2>2, <2>4, Zenon DEF Sound
<1>5. CASE PersistReady(p)
  <2>1. intent' = held[p] /\ held'[p] = held[p]
    BY <1>5, Domains DEF PersistReady
  <2> QED BY <1>0, <2>1, Zenon DEF Sound
<1>6. CASE Start(p) /\ ~PlanIntent(p) /\ ~ReserveRef(p) /\ ~CreateTree(p) /\ ~CreateSession(p)
           /\ ~PersistReady(p)
  <2>1. intent' \in {intent, NoIntent} /\ held'[p] \in {held[p], NoIntent}
    BY <1>6, Domains DEF Start, CreateTreeFails, StoreTree, SubscribeUnreachable,
       PromptUnreachable, Recreate, FailBeforePrompt, CleanTree, CleanIntent, DiscardUnacknowledged
  <2> QED BY <1>0, <2>1, NoneSound DEF Sound
<1> QED BY <1>1, <1>2, <1>3, <1>4, <1>5, <1>6

LEMMA PromptSound ==
  ASSUME TypeOK, MemoryInv, ReplyInv, CommitInv, NEW p \in Proc, Prompt(p)
  PROVE  Sound(p)
<1>0. /\ pc[p] \in WithIntent => held[p] \in IntentType
      /\ SoundIntent(intent) /\ SoundIntent(held[p])
  BY OldSound DEF MemoryInv
<1>1. CASE PersistUncertain(p)
  <2> DEFINE t == IF goal[p] = 0 THEN minted + 1 ELSE goal[p]
             i == InPhase(p, PromptUncertain)
             j == [i EXCEPT !.message = t]
  <2>1. i \in IntentType /\ SoundIntent(i)
    BY <1>0, <1>1, Phased, PhasedSound DEF PersistUncertain, WithIntent
  <2>2. intent' = j /\ held'[p] = j
    BY <1>1, Domains DEF PersistUncertain
  <2>a. i.phase = 4
    BY <1>0, <1>1 DEF InPhase, IntentType, PersistUncertain, WithIntent
  <2> HIDE DEF i, t
  <2>3. j.reply = i.reply /\ j.phase = i.phase /\ i # NoIntent
    BY <2>1, NoIntentIsNone DEF IntentType
  <2> HIDE DEF j
  <2>4. SoundIntent(j)
    BY <2>1, <2>3, <2>a DEF SoundIntent, Replied, Numbered
  <2> QED BY <2>2, <2>4, Zenon DEF Sound
<1>2. CASE PreserveIntent(p)
  <2>1. SoundIntent(InPhase(p, PromptUncertain))
    BY <1>0, <1>2, PhasedSound DEF PreserveIntent, WithIntent
  <2>2. intent' = InPhase(p, PromptUncertain) /\ held'[p] = InPhase(p, PromptUncertain)
    BY <1>2, Domains DEF PreserveIntent
  <2> QED BY <2>1, <2>2, Zenon DEF Sound
<1>3. CASE PersistRunning(p)
  <2>1. SoundIntent(InPhase(p, Running))
    BY <1>0, <1>3, PhasedSound DEF PersistRunning, WithIntent
  <2>2. intent' = InPhase(p, Running) /\ held'[p] = InPhase(p, Running)
    BY <1>3, Domains DEF PersistRunning
  <2> QED BY <2>1, <2>2, Zenon DEF Sound
<1>4. CASE Prompt(p) /\ ~PersistUncertain(p) /\ ~PreserveIntent(p) /\ ~PersistRunning(p)
  <2>1. intent' = intent /\ held'[p] \in {held[p], NoIntent}
    BY <1>4, Domains DEF Prompt, PersistUncertain, Send, Accepted, ResponseLost, MessageFails,
       Confirmed, ConfirmTimesOut, PreserveIntent, PreserveRecord, PersistRunning, WriteRef,
       Acknowledge, PatchMessage
  <2> QED BY <1>0, <2>1, NoneSound DEF Sound
<1> QED BY <1>1, <1>2, <1>3, <1>4

LEMMA FinalizeSound ==
  ASSUME TypeOK, MemoryInv, ReplyInv, CommitInv, NEW p \in Proc, Finalize(p)
  PROVE  Sound(p)
<1>0. /\ held[p] # NoIntent => held[p] \in IntentType
      /\ intent # NoIntent => intent \in IntentType
      /\ SoundIntent(intent) /\ SoundIntent(held[p]) /\ SoundIntent(NoIntent)
  BY OldSound, NoneSound DEF TypeOK
<1>1. \A n \in 1..7 : held[p] # NoIntent => SoundIntent(InPhase(p, n))
  BY <1>0, PhasedSound
<1>2. CASE SaveCursor(p) \/ TerminalObserved(p) \/ ReplyInvalid(p) \/ CloseTurn(p) \/ ValidateTree(p)
  <2>1. \/ intent' = intent /\ held'[p] = held[p]
        \/ /\ held[p] # NoIntent
           /\ \E n \in 1..7 : intent' = InPhase(p, n) /\ held'[p] \in {NoIntent, InPhase(p, n)}
    BY <1>2, Domains DEF SaveCursor, TerminalObserved, ReplyInvalid, CloseTurn, ValidateTree
  <2> QED BY <1>0, <1>1, <2>1 DEF Sound
<1>3. CASE ReadTerminal(p)
  <2> DEFINE n == IF intent.phase < Observed THEN Observed ELSE intent.phase
             j == [intent EXCEPT !.phase = n, !.reply = goal[p]]
  <2>1. status[goal[p]] = "replied"
    BY <1>3 DEF ReadTerminal, ReplyInv, Settling
  <2>2. ASSUME intent # NoIntent PROVE SoundIntent(j)
    <3>1. j.reply = goal[p] /\ j.phase = n /\ j.commit = intent.commit
      BY <1>0, <2>2 DEF IntentType
    <3>2. n = 8 => intent.phase = 8
      OBVIOUS
    <3> HIDE DEF j, n
    <3> QED BY <1>0, <2>1, <2>2, <3>1, <3>2 DEF SoundIntent, Replied, Numbered
  <2>3. intent' = intent /\ held'[p] = IF intent = NoIntent THEN NoIntent ELSE j
    BY <1>3, Domains DEF ReadTerminal
  <2> QED BY <1>0, <2>2, <2>3, Zenon DEF Sound
<1>4. CASE PersistCommitted(p)
  <2> DEFINE i == InPhase(p, Committed)
             j == [i EXCEPT !.commit = made[p]]
  <2>1. made[p] # 0
    BY <1>4 DEF PersistCommitted, CommitInv
  <2>2. ASSUME held[p] # NoIntent PROVE SoundIntent(j)
    <3>0. held[p] \in IntentType
      BY <1>0, <2>2
    <3>1. i \in IntentType /\ i.reply = held[p].reply
      <4>1. i \in IntentType
        BY <3>0, Phased
      <4>2. i.reply = held[p].reply
        BY <3>0 DEF IntentType, InPhase
      <4> QED BY <4>1, <4>2
    <3> HIDE DEF i
    <3>2. j.reply = i.reply /\ j.commit = made[p]
      BY <3>1 DEF IntentType
    <3> HIDE DEF j
    <3> QED BY <1>0, <2>1, <2>2, <3>1, <3>2 DEF SoundIntent, Replied, Numbered
  <2>3. \/ intent' = intent /\ held'[p] = held[p]
        \/ held[p] # NoIntent /\ intent' = j /\ held'[p] = j
    BY <1>4, Domains DEF PersistCommitted
  <2> QED BY <1>0, <2>2, <2>3, Zenon DEF Sound
<1>5. CASE Commit(p) \/ PatchTerminal(p) \/ RemoveIntent(p)
  <2>1. intent' \in {intent, NoIntent} /\ held'[p] \in {held[p], NoIntent}
    BY <1>5, Domains DEF Commit, PatchTerminal, RemoveIntent
  <2> QED BY <1>0, <2>1 DEF Sound
<1> QED BY <1>2, <1>3, <1>4, <1>5 DEF Finalize

LEMMA ReconcileSound ==
  ASSUME TypeOK, MemoryInv, ReplyInv, CommitInv, NEW p \in Proc, Reconcile(p)
  PROVE  Sound(p)
<1>0. /\ pc[p] \in WithIntent => held[p] \in IntentType
      /\ SoundIntent(intent) /\ SoundIntent(held[p])
  BY OldSound DEF MemoryInv
<1>1. CASE AdoptSession(p)
  <2> DEFINE i == InPhase(p, SessionCreated)
             j == [i EXCEPT !.session = record.session]
  <2>0. held[p] \in IntentType
    BY <1>0, <1>1 DEF AdoptSession, Recovering, WithIntent
  <2>a. i \in IntentType /\ SoundIntent(i)
    BY <1>0, <2>0, Phased, PhasedSound
  <2>b. i.phase = 3
    BY <2>0 DEF InPhase, IntentType
  <2>1. i \in IntentType /\ SoundIntent(i) /\ i.phase = 3
    BY <2>a, <2>b
  <2>2. intent' = intent /\ held'[p] = j
    BY <1>1, Domains DEF AdoptSession
  <2> HIDE DEF i
  <2>3. j.reply = i.reply /\ j.phase = i.phase /\ i # NoIntent
    BY <2>1, NoIntentIsNone DEF IntentType
  <2> HIDE DEF j
  <2>4. SoundIntent(j)
    BY <2>1, <2>3 DEF SoundIntent, Replied, Numbered
  <2> QED BY <1>0, <2>2, <2>4, Zenon DEF Sound
<1>2. CASE PersistRecovered(p)
  <2>1. SoundIntent(InPhase(p, Running))
    BY <1>0, <1>2, PhasedSound DEF PersistRecovered, WithIntent
  <2>2. intent' = held'[p] /\ held'[p] \in {held[p], InPhase(p, Running)}
    BY <1>2, Domains DEF PersistRecovered
  <2> QED BY <1>0, <2>1, <2>2 DEF Sound
<1>3. CASE AdoptCommit(p)
  <2> DEFINE i == InPhase(p, Committed)
             j == [i EXCEPT !.commit = Len(log)]
  <2>1. Len(log) # 0
    BY <1>3 DEF AdoptCommit, Adoptable, TypeOK
  <2>0. held[p] \in IntentType
    BY <1>0, <1>3 DEF AdoptCommit, Recovering, WithIntent
  <2>a. i \in IntentType
    BY <2>0, Phased
  <2>b. i.reply = held[p].reply
    BY <2>0 DEF InPhase, IntentType
  <2>2. i \in IntentType /\ i.reply = held[p].reply
    BY <2>a, <2>b
  <2>3. held[p] # NoIntent
    BY <1>0, <1>3, NoIntentIsNone DEF AdoptCommit, Recovering, WithIntent
  <2>4. intent' = j /\ held'[p] = j
    BY <1>3, Domains DEF AdoptCommit
  <2> HIDE DEF i
  <2>5. j.reply = i.reply /\ j.commit = Len(log)
    BY <2>2 DEF IntentType
  <2> HIDE DEF j
  <2>6. SoundIntent(j)
    BY <1>0, <2>1, <2>2, <2>3, <2>5 DEF SoundIntent, Replied, Numbered
  <2> QED BY <2>4, <2>6, Zenon DEF Sound
<1>4. CASE Reconcile(p) /\ ~AdoptSession(p) /\ ~PersistRecovered(p) /\ ~AdoptCommit(p)
  <2>1. intent' = intent /\ held'[p] \in {held[p], intent}
    BY <1>4, Domains DEF Reconcile, ReadIntent, AdoptSession, CleanStrandedTree,
       TombstoneStrand, SessionAnswers, ServerSilent, PromptLanded, PromptMissing, StaleRunning,
       StillRunning, PatchOrInsert, PersistRecovered, AdoptCommit, FinalizeRecovered,
       SettleCommitted, Recovering, Upsert, Resume
  <2> QED BY <1>0, <2>1 DEF Sound
<1> QED BY <1>1, <1>2, <1>3, <1>4

LEMMA CommandSound ==
  ASSUME TypeOK, ReplyInv, CommitInv, NEW p \in Proc, Command(p)
  PROVE  Sound(p)
<1>0. SoundIntent(intent) /\ SoundIntent(held[p]) /\ SoundIntent(NoIntent)
  BY OldSound, NoneSound
<1>1. intent' = intent
  BY DEF Command, Begin, List, Follow, OpenJournal, Message, Queue, AbortSession, PatchAborted
<1>2. CASE Message(p)
  <2>1. held'[p] = NewIntent(FALSE, PromptUncertain, record.session, 0)
    BY <1>2, Domains DEF Message
  <2>2. SoundIntent(NewIntent(FALSE, PromptUncertain, record.session, 0))
    BY DEF SoundIntent, Replied, Numbered, NewIntent
  <2> QED BY <1>0, <1>1, <2>1, <2>2, Zenon DEF Sound
<1>3. CASE Queue(p)
  <2>1. held'[p] = NewIntent(FALSE, PromptUncertain, record.session, minted')
    BY <1>3, Domains DEF Queue
  <2>2. SoundIntent(NewIntent(FALSE, PromptUncertain, record.session, minted'))
    BY DEF SoundIntent, Replied, Numbered, NewIntent
  <2> QED BY <1>0, <1>1, <2>1, <2>2, Zenon DEF Sound
<1>4. CASE Command(p) /\ ~Message(p) /\ ~Queue(p)
  <2>1. held'[p] \in {held[p], intent, NoIntent}
    BY <1>4, Domains DEF Command, Begin, List, Follow, OpenJournal, Message, Queue,
       AbortSession, PatchAborted
  <2> QED BY <1>0, <1>1, <2>1 DEF Sound
<1> QED BY <1>2, <1>3, <1>4

-----------------------------------------------------------------------------
(* CompletionIsReply and SettledHasCommit: what is settled, and what the   *)
(* record says of it.                                                      *)

(* A message that is answered stays answered, one that arrived stays so.   *)
StatusKept ==
  /\ \A t \in Turn : status[t] = "replied" => status'[t] = "replied"
  /\ \A t \in Turn : status[t] \in Admitted => status'[t] \in Admitted

(* What a step of p settles is the reply of a turn that has ended with one,*)
(* and of a turn with a commit when the ref has a worktree.                *)
Settles(p) ==
  /\ StatusKept
  /\ pc'[p] \in Settling => status[goal'[p]] = "replied"
  /\ pc'[p] = "committed" => made'[p] # 0

LEMMA StartSettles == ASSUME TypeOK, NEW p \in Proc, Start(p) PROVE Settles(p)
<1>1. StatusKept
  BY ServerTypes DEF Start, PlanIntent, ReserveRef, CreateTree, CreateTreeFails, StoreTree,
     PersistReady, CreateSession, SubscribeUnreachable, PromptUnreachable, Recreate,
     FailBeforePrompt, CleanTree, CleanIntent, DiscardUnacknowledged, StatusKept, Status, Admitted
<1>2. pc'[p] \notin Settling
  BY Domains DEF Start, PlanIntent, ReserveRef, CreateTree, CreateTreeFails, StoreTree,
     PersistReady, CreateSession, SubscribeUnreachable, PromptUnreachable, Recreate,
     FailBeforePrompt, CleanTree, CleanIntent, DiscardUnacknowledged, Settling
<1> QED BY <1>1, <1>2 DEF Settles, Settling

LEMMA PromptSettles == ASSUME TypeOK, NEW p \in Proc, Prompt(p) PROVE Settles(p)
<1>1. StatusKept
  BY ServerTypes DEF Prompt, PersistUncertain, Send, Accepted, ResponseLost, MessageFails,
     Confirmed, ConfirmTimesOut, PreserveIntent, PreserveRecord, PersistRunning, WriteRef,
     Acknowledge, PatchMessage, StatusKept, Status, Admitted
<1>2. pc'[p] \notin Settling
  BY Domains DEF Prompt, PersistUncertain, Send, Accepted, ResponseLost, MessageFails,
     Confirmed, ConfirmTimesOut, PreserveIntent, PreserveRecord, PersistRunning, WriteRef,
     Acknowledge, PatchMessage, Settling
<1> QED BY <1>1, <1>2 DEF Settles, Settling

LEMMA FinalizeSettles ==
  ASSUME TypeOK, ReplyInv, CommitInv, NEW p \in Proc, Finalize(p) PROVE Settles(p)
<1>1. StatusKept
  BY DEF Finalize, SaveCursor, TerminalObserved, Watches, ReplyInvalid, ReadTerminal, CloseTurn,
     ValidateTree, Commit, PersistCommitted, PatchTerminal, RemoveIntent, StatusKept
<1>2. pc'[p] \in Settling => status[goal'[p]] = "replied"
  <2>1. pc[p] \in Settling => status[goal[p]] = "replied"
    BY DEF ReplyInv
  <2> QED BY <2>1, Domains DEF Finalize, SaveCursor, TerminalObserved, Watches, ReplyInvalid,
       ReadTerminal, CloseTurn, ValidateTree, Commit, PersistCommitted, PatchTerminal,
       RemoveIntent, Settling
<1>3. pc'[p] = "committed" => made'[p] # 0
  BY Domains, GitTypes DEF Finalize, SaveCursor, TerminalObserved, Watches, ReplyInvalid,
     ReadTerminal, CloseTurn, ValidateTree, Commit, PersistCommitted, PatchTerminal, RemoveIntent
<1> QED BY <1>1, <1>2, <1>3 DEF Settles

LEMMA ReconcileSettles ==
  ASSUME TypeOK, MemoryInv, ReplyInv, NEW p \in Proc, Reconcile(p) PROVE Settles(p)
<1>0. then[p] \in {"end", "resume", "persist", "remove"}
  BY DEF TypeOK
<1>1. StatusKept
  BY DEF Reconcile, ReadIntent, AdoptSession, CleanStrandedTree, TombstoneStrand,
     SessionAnswers, ServerSilent, PromptLanded, PromptMissing, StaleRunning, StillRunning,
     PatchOrInsert, PersistRecovered, AdoptCommit, FinalizeRecovered, SettleCommitted, Recovering,
     Upsert, Resume, StatusKept
<1>2. pc'[p] \in Settling => pc'[p] = "finalize" /\ FinalizeRecovered(p)
  BY <1>0, Domains DEF Reconcile, ReadIntent, AdoptSession, CleanStrandedTree, TombstoneStrand,
     SessionAnswers, ServerSilent, PromptLanded, PromptMissing, StaleRunning, StillRunning,
     PatchOrInsert, PersistRecovered, AdoptCommit, FinalizeRecovered, SettleCommitted, Recovering,
     Upsert, Resume, Settling
<1>3. pc'[p] \in Settling => status[goal'[p]] = "replied"
  <2>1. SUFFICES ASSUME FinalizeRecovered(p), pc'[p] = "finalize" PROVE status[goal'[p]] = "replied"
    BY <1>2
  <2>2. held[p].reply # 0 /\ goal'[p] = held[p].reply
    BY <2>1, Domains DEF FinalizeRecovered, Recovering, Resume
  <2>3. held[p] # NoIntent
    BY <2>1, NoIntentIsNone DEF FinalizeRecovered, Recovering, MemoryInv, WithIntent
  <2> QED BY <2>2, <2>3 DEF ReplyInv, Replied
<1> QED BY <1>1, <1>2, <1>3 DEF Settles, Settling

LEMMA CommandSettles == ASSUME TypeOK, NEW p \in Proc, Command(p) PROVE Settles(p)
<1>1. StatusKept
  BY ServerTypes DEF Command, Begin, List, Follow, OpenJournal, Message, Queue, AbortSession,
     PatchAborted, StatusKept, Admitted
<1>2. pc'[p] \notin Settling
  BY Domains DEF Command, Begin, List, Follow, OpenJournal, Message, Queue, AbortSession,
     PatchAborted, Settling
<1> QED BY <1>1, <1>2 DEF Settles, Settling

(* What a step of p writes to the record.                                  *)
RecordSound ==
  record' # NoRecord =>
    /\ record'.completion # 0 => status[record'.completion] = "replied"
    /\ record'.tree /\ record'.state = "done" => record'.commit # 0

TreeKept == record' # NoRecord /\ record'.tree => record # NoRecord /\ record.tree

LEMMA RecordSame ==
  ASSUME CompletionIsReply, SettledHasCommit, record' \in {record, NoRecord}
  PROVE  RecordSound /\ TreeKept
BY DEF CompletionIsReply, SettledHasCommit, RecordSound, TreeKept

LEMMA NewRecordSound ==
  ASSUME NEW s, NEW m, NEW st, record' = NewRecord(s, m, st) PROVE RecordSound /\ TreeKept
BY DEF NewRecord, RecordSound, TreeKept

LEMMA StartSettled ==
  ASSUME TypeOK, CompletionIsReply, SettledHasCommit, EarlyInv, DispatcherInv, NEW p \in Proc, Start(p)
  PROVE  RecordSound /\ (TreeKept \/ StoreTree(p))
<1>1. CASE ReserveRef(p)
  <2>1. record' = NewRecord(Reserved, 0, "running")
    BY <1>1 DEF ReserveRef, InsertRecord
  <2> QED BY <2>1 DEF NewRecord, RecordSound, TreeKept
<1>2. CASE CreateTreeFails(p)
  BY <1>2 DEF CreateTreeFails, PatchRecord, TypeOK, RecordType, RecordSound, TreeKept,
     CompletionIsReply, SettledHasCommit
<1>3. CASE StoreTree(p)
  <2>1. p = Dispatcher
    BY <1>3 DEF StoreTree, DispatcherInv, Proc, Unacknowledged, Acknowledged, Shared, Settling
  <2>2. record # NoRecord => record.state = "running"
    BY <1>3, <2>1 DEF StoreTree, EarlyInv
  <2>3. record # NoRecord /\ record \in RecordType /\ record' = [record EXCEPT !.tree = TRUE]
    BY <1>3 DEF StoreTree, PatchRecord, TypeOK
  <2>4. record'.completion = record.completion /\ record'.state = "running"
    BY <2>2, <2>3 DEF RecordType
  <2> QED BY <1>3, <2>3, <2>4 DEF RecordSound, CompletionIsReply, SettledHasCommit
<1>4. CASE Start(p) /\ ~ReserveRef(p) /\ ~CreateTreeFails(p) /\ ~StoreTree(p)
  <2>1. record' \in {record, NoRecord}
    BY <1>4 DEF Start, PlanIntent, ReserveRef, CreateTree, CreateTreeFails, StoreTree,
       PersistReady, CreateSession, SubscribeUnreachable, PromptUnreachable, Recreate,
       FailBeforePrompt, CleanTree, CleanIntent, DiscardUnacknowledged
  <2> QED BY <2>1, RecordSame
<1> QED BY <1>1, <1>2, <1>3, <1>4

LEMMA PromptSettled ==
  ASSUME TypeOK, CompletionIsReply, SettledHasCommit, NEW p \in Proc, Prompt(p)
  PROVE  RecordSound /\ TreeKept
<1>1. ASSUME NEW s \in {"running", "unknown"}, WriteRecord(p, s) PROVE RecordSound /\ TreeKept
  <2>1. CASE worktree
    <3>1. record \in RecordType /\ record # NoRecord
      BY <1>1, <2>1 DEF WriteRecord, PatchRecord, TypeOK
    <3>2. record' = [record EXCEPT !.session = held[p].session, !.message = goal[p], !.state = s]
      BY <1>1, <2>1 DEF WriteRecord, PatchRecord
    <3>3. /\ record'.completion = record.completion /\ record'.tree = record.tree
          /\ record'.state = s
      BY <3>1, <3>2 DEF RecordType
    <3> QED BY <3>1, <3>3 DEF RecordSound, TreeKept, CompletionIsReply
  <2>2. CASE ~worktree
    <3>1. record' = NewRecord(held[p].session, goal[p], s)
      BY <1>1, <2>2 DEF WriteRecord, InsertRecord
    <3> QED BY <3>1, NewRecordSound
  <2> QED BY <2>1, <2>2
<1>2. CASE PreserveRecord(p) \/ WriteRef(p)
  BY <1>1, <1>2 DEF PreserveRecord, WriteRef
<1>3. CASE PatchMessage(p)
  <2>1. record # NoRecord /\ record \in RecordType
    BY <1>3 DEF PatchMessage, PatchRecord, TypeOK
  <2>2. /\ record'.completion = record.completion /\ record'.tree = record.tree
        /\ record'.commit = record.commit /\ record'.state \in {record.state, "running"}
    BY <1>3, <2>1 DEF PatchMessage, PatchRecord, RecordType
  <2> QED BY <2>1, <2>2 DEF RecordSound, TreeKept, CompletionIsReply, SettledHasCommit
<1>4. CASE Prompt(p) /\ ~PreserveRecord(p) /\ ~WriteRef(p) /\ ~PatchMessage(p)
  <2>1. record' = record
    BY <1>4 DEF Prompt, PersistUncertain, Send, Accepted, ResponseLost, MessageFails, Confirmed,
       ConfirmTimesOut, PreserveIntent, PreserveRecord, PersistRunning, WriteRef, Acknowledge,
       PatchMessage
  <2> QED BY <2>1, RecordSame
<1> QED BY <1>2, <1>3, <1>4

LEMMA FinalizeSettled ==
  ASSUME TypeOK, CompletionIsReply, SettledHasCommit, ReplyInv, CommitInv, NEW p \in Proc, Finalize(p)
  PROVE  RecordSound /\ TreeKept
<1>1. CASE PatchTerminal(p)
  <2>1. record # NoRecord /\ record \in RecordType
    BY <1>1 DEF PatchTerminal, PatchRecord, TypeOK
  <2>2. record' = [record EXCEPT !.state = "done", !.completion = goal[p],
                     !.commit = IF made[p] = 0 THEN @ ELSE made[p]]
    BY <1>1 DEF PatchTerminal, PatchRecord
  <2>3. /\ record'.completion = goal[p] /\ record'.tree = record.tree
        /\ made[p] # 0 => record'.commit = made[p]
    BY <2>1, <2>2 DEF RecordType
  <2>4. status[goal[p]] = "replied" /\ (made[p] = 0 => ~record.tree)
    BY <1>1, <2>1 DEF PatchTerminal, ReplyInv, Settling, CommitInv
  <2> QED BY <2>1, <2>3, <2>4 DEF RecordSound, TreeKept
<1>2. CASE Finalize(p) /\ ~PatchTerminal(p)
  <2>1. record' = record
    BY <1>2 DEF Finalize, SaveCursor, TerminalObserved, Watches, ReplyInvalid, ReadTerminal,
       CloseTurn, ValidateTree, Commit, PersistCommitted, PatchTerminal, RemoveIntent
  <2> QED BY <2>1, RecordSame
<1> QED BY <1>1, <1>2

LEMMA ReconcileSettled ==
  ASSUME TypeOK, MemoryInv, CompletionIsReply, SettledHasCommit, ReplyInv, CommitInv,
         NEW p \in Proc, Reconcile(p)
  PROVE  RecordSound /\ TreeKept
<1>1. CASE TombstoneStrand(p)
  BY <1>1 DEF TombstoneStrand, TypeOK, RecordType, RecordSound, TreeKept, CompletionIsReply,
     SettledHasCommit
<1>2. CASE PatchOrInsert(p)
  <2> DEFINE message == IF held[p].phase = SessionCreated THEN 0 ELSE held[p].message
             state   == IF then[p] = "remove" THEN "idle" ELSE "running"
             patched == [record EXCEPT !.session = held[p].session, !.state = state,
                                       !.message = IF message = 0 THEN @ ELSE message]
             new == NewRecord(held[p].session, message, state)
  <2>1. \/ record # NoRecord /\ record' = patched
        \/ record' = new
    BY <1>2 DEF PatchOrInsert, PatchRecord, InsertRecord
  <2>2. CASE record' = new
    BY <2>2, NewRecordSound
  <2>3. CASE record # NoRecord /\ record' = patched
    <3>1. record \in RecordType
      BY <2>3 DEF TypeOK
    <3>2. state # "done"
      OBVIOUS
    <3> HIDE DEF message, state
    <3>3. /\ record'.completion = record.completion /\ record'.tree = record.tree
          /\ record'.state = state
      BY <2>3, <3>1 DEF RecordType
    <3> QED BY <2>3, <3>2, <3>3 DEF RecordSound, TreeKept, CompletionIsReply
  <2> QED BY <2>1, <2>2, <2>3
<1>3. CASE SettleCommitted(p)
  <2>1. held[p] # NoIntent /\ held[p].phase = Committed /\ held[p].reply # 0
    BY <1>3, NoIntentIsNone DEF SettleCommitted, Recovering, MemoryInv, WithIntent
  <2>2. status[held[p].reply] = "replied" /\ held[p].commit # 0
    BY <2>1 DEF ReplyInv, CommitInv, Replied, Numbered
  <2>3. record # NoRecord /\ record \in RecordType
    BY <1>3 DEF SettleCommitted, PatchRecord, TypeOK
  <2>4. /\ record'.completion = held[p].reply /\ record'.tree = record.tree
        /\ record'.commit = held[p].commit
    BY <1>3, <2>3 DEF SettleCommitted, PatchRecord, RecordType
  <2> QED BY <2>2, <2>3, <2>4 DEF RecordSound, TreeKept
<1>4. CASE Reconcile(p) /\ ~TombstoneStrand(p) /\ ~PatchOrInsert(p) /\ ~SettleCommitted(p)
  <2>1. record' = record
    BY <1>4 DEF Reconcile, ReadIntent, AdoptSession, CleanStrandedTree, TombstoneStrand,
       SessionAnswers, ServerSilent, PromptLanded, PromptMissing, StaleRunning, StillRunning,
       PatchOrInsert, PersistRecovered, AdoptCommit, FinalizeRecovered, SettleCommitted,
       Recovering, Upsert, Resume
  <2> QED BY <2>1, RecordSame
<1> QED BY <1>1, <1>2, <1>3, <1>4

LEMMA CommandSettled ==
  ASSUME TypeOK, CompletionIsReply, SettledHasCommit, NEW p \in Proc, Command(p)
  PROVE  RecordSound /\ TreeKept
<1>1. CASE PatchAborted(p)
  BY <1>1 DEF PatchAborted, PatchRecord, TypeOK, RecordType, RecordSound, TreeKept,
     CompletionIsReply, SettledHasCommit
<1>2. CASE Command(p) /\ ~PatchAborted(p)
  <2>1. record' = record
    BY <1>2 DEF Command, Begin, List, Follow, OpenJournal, Message, Queue, AbortSession,
       PatchAborted
  <2> QED BY <2>1, RecordSame
<1> QED BY <1>1, <1>2

(* Where a turn is settled without a commit, the ref has no worktree.      *)
NoTree == record = NoRecord \/ ~record.tree
Bare(p) == pc[p] = "close" \/ (pc[p] = "patch" /\ made[p] = 0)

LEMMA FinalizeBare ==
  ASSUME TypeOK, CommitInv, NEW p \in Proc, Finalize(p), Bare(p)' PROVE NoTree
<1>1. pc[p] = "committed" => made[p] # 0
  BY DEF CommitInv
<1>2. pc[p] = "close" => NoTree
  BY DEF CommitInv, NoTree
<1>3. CASE ReadTerminal(p)
  BY <1>3, Domains DEF ReadTerminal, Bare, NoTree
<1>4. CASE Finalize(p) /\ ~ReadTerminal(p)
  BY <1>1, <1>2, <1>4, Domains DEF Finalize, SaveCursor, TerminalObserved, Watches,
     ReplyInvalid, ReadTerminal, CloseTurn, ValidateTree, Commit, PersistCommitted, PatchTerminal,
     RemoveIntent, Bare
<1> QED BY <1>3, <1>4

HIDE DEF Planned, WorktreeReady, SessionCreated, PromptUncertain, Running, Observed,
         Validated, Committed

-----------------------------------------------------------------------------
(* DispatcherInv: which places are the dispatch's, and which the           *)
(* operators'.                                                             *)

Alien == (Unacknowledged \cup Acknowledged) \ Shared

(* A step of the dispatch, and one of an operator. *)
DispatchStep ==
  /\ cmd'[Dispatcher] = "dispatch" /\ then'[Dispatcher] = "end"
  /\ pc'[Dispatcher] \in Acknowledged \/ (~acked' /\ pc'[Dispatcher] \in Unacknowledged)
OperatorStep(o) ==
  cmd'[o] # "dispatch" /\ pc'[o] \notin Alien /\ acked' = acked

LEMMA Actors ==
  /\ Dispatcher \in Proc /\ Operators \subseteq Proc
  /\ \A p \in Proc : p # Dispatcher => p \in Operators
  /\ \A o \in Operators : o # Dispatcher
BY ProcAssumption DEF Proc

LEMMA AtDispatch ==
  ASSUME DispatcherInv
  PROVE  /\ cmd[Dispatcher] = "dispatch" /\ then[Dispatcher] = "end"
         /\ pc[Dispatcher] \in Acknowledged \/ (~acked /\ pc[Dispatcher] \in Unacknowledged)
         /\ \A o \in Operators : cmd[o] # "dispatch" /\ pc[o] \notin Alien
BY DEF DispatcherInv, Alien

LEMMA StartActor == ASSUME DispatcherInv, NEW p \in Proc, Start(p) PROVE p = Dispatcher
<1>1. pc[p] \in {"reserved", "treed", "stored", "planned", "cleanup", "cleaned", "discard"}
        \/ p = Dispatcher
  BY DEF Start, PlanIntent, ReserveRef, CreateTree, CreateTreeFails, StoreTree, PersistReady,
     CreateSession, SubscribeUnreachable, PromptUnreachable, Recreate, FailBeforePrompt, CleanTree,
     CleanIntent, DiscardUnacknowledged
<1> QED BY <1>1, Actors, AtDispatch DEF Alien, Unacknowledged, Acknowledged, Shared, Settling

LEMMA ReconcileActor == ASSUME DispatcherInv, NEW p \in Proc, Reconcile(p) PROVE p \in Operators
<1>1. pc[p] \in {"reconcile", "recover", "tombstone", "upsert", "persist"}
  BY DEF Reconcile, ReadIntent, AdoptSession, CleanStrandedTree, TombstoneStrand,
     SessionAnswers, ServerSilent, PromptLanded, PromptMissing, StaleRunning, StillRunning,
     PatchOrInsert, PersistRecovered, AdoptCommit, FinalizeRecovered, SettleCommitted, Recovering,
     Upsert, Resume
<1> QED BY <1>1, Actors, AtDispatch DEF Unacknowledged, Acknowledged, Settling

LEMMA CommandActor == ASSUME DispatcherInv, NEW p \in Proc, Command(p) PROVE p \in Operators
<1>1. pc[p] \in {"resume", "open", "queue", "abort", "aborted"} \/ p \in Operators
  BY DEF Command, Begin, List, Follow, OpenJournal, Message, Queue, AbortSession, PatchAborted
<1> QED BY <1>1, Actors, AtDispatch DEF Unacknowledged, Acknowledged, Settling

LEMMA StartPlaced == ASSUME TypeOK, DispatcherInv, Start(Dispatcher) PROVE DispatchStep
<1>1. pc[Dispatcher] \in Unacknowledged \ Acknowledged
  BY DEF Start, PlanIntent, ReserveRef, CreateTree, CreateTreeFails, StoreTree, PersistReady,
     CreateSession, SubscribeUnreachable, PromptUnreachable, Recreate, FailBeforePrompt, CleanTree,
     CleanIntent, DiscardUnacknowledged, Unacknowledged, Acknowledged, Settling
<1>a. ~acked'
  BY <1>1, AtDispatch DEF Start, PlanIntent, ReserveRef, CreateTree, CreateTreeFails, StoreTree,
     PersistReady, CreateSession, SubscribeUnreachable, PromptUnreachable, Recreate,
     FailBeforePrompt, CleanTree, CleanIntent, DiscardUnacknowledged
<1>2. pc'[Dispatcher] \in Unacknowledged \cup {"ended"}
  BY Actors, Domains DEF Start, PlanIntent, ReserveRef, CreateTree, CreateTreeFails, StoreTree,
     PersistReady, CreateSession, SubscribeUnreachable, PromptUnreachable, Recreate,
     FailBeforePrompt, CleanTree, CleanIntent, DiscardUnacknowledged, Unacknowledged
<1>3. cmd'[Dispatcher] = "dispatch" /\ then'[Dispatcher] = "end"
  BY Actors, AtDispatch, Domains DEF Start, PlanIntent, ReserveRef, CreateTree, CreateTreeFails,
     StoreTree, PersistReady, CreateSession, SubscribeUnreachable, PromptUnreachable, Recreate,
     FailBeforePrompt, CleanTree, CleanIntent, DiscardUnacknowledged
<1> QED BY <1>a, <1>2, <1>3 DEF DispatchStep, Acknowledged

LEMMA PromptPlaced ==
  ASSUME TypeOK, DispatcherInv, NEW p \in Proc, Prompt(p)
  PROVE  (p = Dispatcher => DispatchStep) /\ (p \in Operators => OperatorStep(p))
<1>1. CASE p = Dispatcher
  <2>1. pc[p] \in Unacknowledged \ Acknowledged
    BY <1>1, AtDispatch DEF Prompt, PersistUncertain, Send, Accepted, ResponseLost,
       MessageFails, Confirmed, ConfirmTimesOut, PreserveIntent, PreserveRecord, PersistRunning,
       WriteRef, Acknowledge, PatchMessage, Unacknowledged, Acknowledged, Settling
  <2>2. CASE Acknowledge(p)
    BY <1>1, <2>2, AtDispatch, Domains, Actors DEF Acknowledge, DispatchStep, Acknowledged
  <2>3. CASE Prompt(p) /\ ~Acknowledge(p)
    <3>1. ~acked' /\ pc'[p] \in Unacknowledged \cup {"ended"}
      BY <1>1, <2>1, <2>3, AtDispatch, Domains DEF Prompt, PersistUncertain, Send, Accepted,
         ResponseLost, MessageFails, Confirmed, ConfirmTimesOut, PreserveIntent, PreserveRecord,
         PersistRunning, WriteRef, Acknowledge, PatchMessage, Unacknowledged
    <3>2. cmd'[p] = "dispatch" /\ then'[p] = "end"
      BY <1>1, <2>3, AtDispatch, Domains DEF Prompt, PersistUncertain, Send, Accepted,
         ResponseLost, MessageFails, Confirmed, ConfirmTimesOut, PreserveIntent, PreserveRecord,
         PersistRunning, WriteRef, Acknowledge, PatchMessage
    <3> QED BY <1>1, <3>1, <3>2, Actors DEF DispatchStep, Acknowledged
  <2> QED BY <2>2, <2>3
<1>2. CASE p \in Operators
  <2>1. pc[p] \notin Alien /\ cmd[p] # "dispatch" /\ p # Dispatcher
    BY <1>2, AtDispatch, Actors
  <2>2. pc'[p] \notin Alien /\ acked' = acked
    BY <2>1, Domains DEF Prompt, PersistUncertain, Send, Accepted, ResponseLost, MessageFails,
       Confirmed, ConfirmTimesOut, PreserveIntent, PreserveRecord, PersistRunning, WriteRef,
       Acknowledge, PatchMessage, Alien, Unacknowledged, Acknowledged, Shared, Settling
  <2>3. cmd'[p] # "dispatch"
    BY <2>1, Domains DEF Prompt, PersistUncertain, Send, Accepted, ResponseLost, MessageFails,
       Confirmed, ConfirmTimesOut, PreserveIntent, PreserveRecord, PersistRunning, WriteRef,
       Acknowledge, PatchMessage
  <2> QED BY <2>2, <2>3, <2>1 DEF OperatorStep
<1> QED BY <1>1, <1>2, Actors

LEMMA FinalizePlaced ==
  ASSUME TypeOK, DispatcherInv, NEW p \in Proc, Finalize(p)
  PROVE  (p = Dispatcher => DispatchStep) /\ (p \in Operators => OperatorStep(p))
<1>1. CASE p = Dispatcher
  <2>1. pc[p] \in Acknowledged /\ pc'[p] \in Acknowledged
    BY <1>1, AtDispatch, Domains DEF Finalize, SaveCursor, TerminalObserved, Watches,
       ReplyInvalid, ReadTerminal, CloseTurn, ValidateTree, Commit, PersistCommitted,
       PatchTerminal, RemoveIntent, Unacknowledged, Acknowledged, Settling
  <2>2. cmd'[p] = "dispatch" /\ then'[p] = "end"
    BY <1>1, AtDispatch, Domains DEF Finalize, SaveCursor, TerminalObserved, Watches,
       ReplyInvalid, ReadTerminal, CloseTurn, ValidateTree, Commit, PersistCommitted,
       PatchTerminal, RemoveIntent
  <2> QED BY <1>1, <2>1, <2>2, Actors DEF DispatchStep
<1>2. CASE p \in Operators
  <2>1. pc[p] \notin Alien /\ cmd[p] # "dispatch" /\ p # Dispatcher
    BY <1>2, AtDispatch, Actors
  <2>2. pc'[p] \notin Alien /\ acked' = acked
    BY <2>1, Domains DEF Finalize, SaveCursor, TerminalObserved, Watches, ReplyInvalid,
       ReadTerminal, CloseTurn, ValidateTree, Commit, PersistCommitted, PatchTerminal,
       RemoveIntent, Alien, Unacknowledged, Acknowledged, Shared, Settling
  <2>3. cmd'[p] # "dispatch"
    BY <2>1, Domains DEF Finalize, SaveCursor, TerminalObserved, Watches, ReplyInvalid,
       ReadTerminal, CloseTurn, ValidateTree, Commit, PersistCommitted, PatchTerminal, RemoveIntent
  <2> QED BY <2>1, <2>2, <2>3 DEF OperatorStep
<1> QED BY <1>1, <1>2, Actors

LEMMA ReconcilePlaced ==
  ASSUME TypeOK, MemoryInv, DispatcherInv, NEW p \in Operators, Reconcile(p) PROVE OperatorStep(p)
<1>0. then[p] \in {"resume", "persist", "remove"} \/ pc[p] # "upsert"
  BY Actors DEF TypeOK, MemoryInv
<1>1. p \in Proc /\ cmd[p] # "dispatch"
  BY AtDispatch, Actors
<1>2. pc'[p] \notin Alien /\ acked' = acked
  BY <1>0, <1>1, Domains, ZenonT(30) DEF Reconcile, ReadIntent, AdoptSession, CleanStrandedTree,
     TombstoneStrand, SessionAnswers, ServerSilent, PromptLanded, PromptMissing, StaleRunning,
     StillRunning, PatchOrInsert, PersistRecovered, AdoptCommit, FinalizeRecovered,
     SettleCommitted, Recovering, Upsert, Resume, Alien, Unacknowledged, Acknowledged, Shared,
     Settling
<1>3. cmd'[p] # "dispatch"
  BY <1>1 DEF Reconcile, ReadIntent, AdoptSession, CleanStrandedTree, TombstoneStrand,
     SessionAnswers, ServerSilent, PromptLanded, PromptMissing, StaleRunning, StillRunning,
     PatchOrInsert, PersistRecovered, AdoptCommit, FinalizeRecovered, SettleCommitted, Recovering,
     Upsert, Resume
<1> QED BY <1>2, <1>3 DEF OperatorStep

LEMMA CommandPlaced ==
  ASSUME TypeOK, DispatcherInv, NEW p \in Operators, Command(p) PROVE OperatorStep(p)
<1>1. p \in Proc /\ cmd[p] # "dispatch" /\ p # Dispatcher
  BY AtDispatch, Actors
<1>2. pc'[p] \notin Alien /\ acked' = acked
  BY <1>1, Domains DEF Command, Begin, List, Follow, OpenJournal, Message, Queue, AbortSession,
     PatchAborted, Alien, Unacknowledged, Acknowledged, Shared, Settling
<1>3. cmd'[p] # "dispatch"
  BY <1>1, Domains, ProcAssumption DEF Command, Begin, List, Follow, OpenJournal, Message,
     Queue, AbortSession, PatchAborted, Commands
<1> QED BY <1>2, <1>3 DEF OperatorStep

LEMMA DispatcherStep ==
  ASSUME TypeOK, DispatcherInv, NEW p \in Proc, OwnPlace(p), OwnMemory(p),
         p = Dispatcher => DispatchStep, p \in Operators => OperatorStep(p)
  PROVE  DispatcherInv'
<1>1. \A q \in Proc \ {p} : pc'[q] = pc[q] /\ cmd'[q] = cmd[q] /\ then'[q] = then[q]
  BY Domains DEF OwnPlace, OwnMemory
<1>2. CASE p = Dispatcher
  <2>1. \A o \in Operators : pc'[o] = pc[o] /\ cmd'[o] = cmd[o]
    BY <1>1, <1>2, Actors
  <2> QED BY <1>2, <2>1 DEF DispatcherInv, DispatchStep
<1>3. CASE p \in Operators
  <2>1. /\ pc'[Dispatcher] = pc[Dispatcher] /\ cmd'[Dispatcher] = cmd[Dispatcher]
        /\ then'[Dispatcher] = then[Dispatcher]
    BY <1>1, <1>3, Actors
  <2> QED BY <1>1, <1>3, <2>1, Actors DEF DispatcherInv, OperatorStep, Alien
<1> QED BY <1>2, <1>3, Actors

-----------------------------------------------------------------------------
(* FirstInv, AckedIsAdmitted and EarlyInv: before the acknowledgement there*)
(* is one message, and while the worktree is made nobody else touches the  *)
(* ref.                                                                    *)

Landing == {"confirmed", "landed", "ack"}

(* Before the acknowledgement.                                             *)
FirstDispatch ==
  /\ ~DispatchOver' => ~DispatchOver /\ goal'[Dispatcher] = minted' /\ minted' <= 1
  /\ pc'[Dispatcher] \in Landing => status[goal'[Dispatcher]] \in Admitted
  /\ acked' => acked \/ status[1] \in Admitted

FirstOperator(o) ==
  ~DispatchOver => minted' = minted /\ cmd'[o] \in {"none", "list"} /\ pc'[o] \in ListPlaces

LEMMA StartFirst ==
  ASSUME TypeOK, DispatcherInv, FirstInv, Start(Dispatcher) PROVE FirstDispatch
<1>1. acked' = acked /\ minted' = minted /\ ~DispatchOver
  <2>1. acked' = acked /\ minted' = minted
    BY DEF Start, PlanIntent, ReserveRef, CreateTree, CreateTreeFails, StoreTree, PersistReady,
       CreateSession, SubscribeUnreachable, PromptUnreachable, Recreate, FailBeforePrompt,
       CleanTree, CleanIntent, DiscardUnacknowledged
  <2>2. pc[Dispatcher] \in Unacknowledged \ Acknowledged
    BY DEF Start, PlanIntent, ReserveRef, CreateTree, CreateTreeFails, StoreTree, PersistReady,
       CreateSession, SubscribeUnreachable, PromptUnreachable, Recreate, FailBeforePrompt,
       CleanTree, CleanIntent, DiscardUnacknowledged, Unacknowledged, Acknowledged, Settling
  <2> QED BY <2>1, <2>2, AtDispatch DEF DispatchOver, Acknowledged
<1>2. pc'[Dispatcher] # "ended" => goal'[Dispatcher] = goal[Dispatcher]
  BY Actors, Domains DEF Start, PlanIntent, ReserveRef, CreateTree, CreateTreeFails, StoreTree,
     PersistReady, CreateSession, SubscribeUnreachable, PromptUnreachable, Recreate,
     FailBeforePrompt, CleanTree, CleanIntent, DiscardUnacknowledged
<1>3. pc'[Dispatcher] \notin Landing
  BY Actors, Domains DEF Start, PlanIntent, ReserveRef, CreateTree, CreateTreeFails, StoreTree,
     PersistReady, CreateSession, SubscribeUnreachable, PromptUnreachable, Recreate,
     FailBeforePrompt, CleanTree, CleanIntent, DiscardUnacknowledged, Landing
<1> QED BY <1>1, <1>2, <1>3 DEF FirstDispatch, FirstInv, DispatchOver

LEMMA PromptFirst ==
  ASSUME TypeOK, MemoryInv, DispatcherInv, FirstInv, Prompt(Dispatcher) PROVE FirstDispatch
<1>1. ~DispatchOver /\ goal[Dispatcher] = minted /\ minted <= 1 /\ minted \in Nat
  <2>1. pc[Dispatcher] \in Unacknowledged \ Acknowledged
    BY AtDispatch DEF Prompt, PersistUncertain, Send, Accepted, ResponseLost, MessageFails,
       Confirmed, ConfirmTimesOut, PreserveIntent, PreserveRecord, PersistRunning, WriteRef,
       Acknowledge, PatchMessage, Unacknowledged, Acknowledged, Settling
  <2>2. ~DispatchOver
    BY <2>1, AtDispatch DEF DispatchOver, Acknowledged
  <2> QED BY <2>2, ServerTypes DEF FirstInv
<1>2. CASE PersistUncertain(Dispatcher)
  <2>1. /\ acked' = acked /\ pc'[Dispatcher] = "prompt"
        /\ minted' = IF goal[Dispatcher] = 0 THEN minted + 1 ELSE minted
        /\ goal'[Dispatcher] = IF goal[Dispatcher] = 0 THEN minted + 1 ELSE goal[Dispatcher]
    BY <1>2, Actors, Domains DEF PersistUncertain
  <2>2. goal'[Dispatcher] = minted' /\ minted' <= 1
    BY <1>1, <2>1
  <2> QED BY <1>1, <2>1, <2>2 DEF FirstDispatch, DispatchOver, Landing
<1>3. CASE Acknowledge(Dispatcher)
  <2>1. pc[Dispatcher] = "ack" /\ pc'[Dispatcher] = "waiting" /\ acked'
    BY <1>3, Actors, Domains DEF Acknowledge
  <2>2. goal[Dispatcher] = 1
    BY <1>1, <2>1, TurnIsNat, Actors DEF MemoryInv, WithGoal, Turn
  <2>3. status[goal[Dispatcher]] \in Admitted
    BY <2>1 DEF FirstInv
  <2> QED BY <2>1, <2>2, <2>3 DEF FirstDispatch, DispatchOver, Landing
<1>4. CASE Prompt(Dispatcher) /\ ~PersistUncertain(Dispatcher) /\ ~Acknowledge(Dispatcher)
  <2>1. acked' = acked /\ minted' = minted
    BY <1>4 DEF Prompt, PersistUncertain, Send, Accepted, ResponseLost, MessageFails, Confirmed,
       ConfirmTimesOut, PreserveIntent, PreserveRecord, PersistRunning, WriteRef, Acknowledge,
       PatchMessage
  <2>2. pc'[Dispatcher] # "ended" => goal'[Dispatcher] = goal[Dispatcher]
    BY <1>4, Actors, Domains DEF Prompt, PersistUncertain, Send, Accepted, ResponseLost,
       MessageFails, Confirmed, ConfirmTimesOut, PreserveIntent, PreserveRecord, PersistRunning,
       WriteRef, Acknowledge, PatchMessage
  <2>3. pc'[Dispatcher] \in Landing => status[goal'[Dispatcher]] \in Admitted
    <3>1. pc[Dispatcher] \in Landing => status[goal[Dispatcher]] \in Admitted
      BY DEF FirstInv, Landing
    <3> QED BY <1>4, <3>1, Actors, Domains DEF Prompt, PersistUncertain, Send, Accepted,
         ResponseLost, MessageFails, Confirmed, ConfirmTimesOut, PreserveIntent, PreserveRecord,
         PersistRunning, WriteRef, Acknowledge, PatchMessage, Landing
  <2> QED BY <1>1, <2>1, <2>2, <2>3 DEF FirstDispatch, DispatchOver
<1> QED BY <1>2, <1>3, <1>4

LEMMA FinalizeFirst ==
  ASSUME TypeOK, DispatcherInv, FirstInv, Finalize(Dispatcher) PROVE FirstDispatch
<1>1. acked' = acked /\ minted' = minted
  BY DEF Finalize, SaveCursor, TerminalObserved, Watches, ReplyInvalid, ReadTerminal, CloseTurn,
     ValidateTree, Commit, PersistCommitted, PatchTerminal, RemoveIntent
<1>2. pc[Dispatcher] # "ended" /\ pc'[Dispatcher] \notin Landing
  BY Actors, Domains DEF Finalize, SaveCursor, TerminalObserved, Watches, ReplyInvalid,
     ReadTerminal, CloseTurn, ValidateTree, Commit, PersistCommitted, PatchTerminal, RemoveIntent,
     Landing
<1>3. pc'[Dispatcher] # "ended" => goal'[Dispatcher] = goal[Dispatcher]
  BY Actors, Domains DEF Finalize, SaveCursor, TerminalObserved, Watches, ReplyInvalid,
     ReadTerminal, CloseTurn, ValidateTree, Commit, PersistCommitted, PatchTerminal, RemoveIntent
<1> QED BY <1>1, <1>2, <1>3 DEF FirstDispatch, FirstInv, DispatchOver

LEMMA OperatorLists ==
  ASSUME FirstInv, ~DispatchOver, NEW o \in Operators
  PROVE  cmd[o] \in {"none", "list"} /\ pc[o] \in ListPlaces
BY DEF FirstInv

LEMMA PromptOperator ==
  ASSUME DispatcherInv, FirstInv, NEW o \in Operators, Prompt(o) PROVE DispatchOver
<1>1. pc[o] \notin ListPlaces
  BY Actors, AtDispatch DEF Prompt, PersistUncertain, Send, Accepted, ResponseLost,
     MessageFails, Confirmed, ConfirmTimesOut, PreserveIntent, PreserveRecord, PersistRunning,
     WriteRef, Acknowledge, PatchMessage, ListPlaces, Settling
<1> QED BY <1>1, OperatorLists

LEMMA FinalizeOperator ==
  ASSUME TypeOK, FirstInv, NEW o \in Operators, Finalize(o) PROVE FirstOperator(o)
<1> SUFFICES ASSUME ~DispatchOver
             PROVE  minted' = minted /\ cmd'[o] \in {"none", "list"} /\ pc'[o] \in ListPlaces
  BY DEF FirstOperator
<1>1. cmd[o] \in {"none", "list"} /\ pc[o] \in ListPlaces /\ o # Dispatcher /\ o \in Proc
  BY OperatorLists, Actors
<1>2. minted' = minted
  BY DEF Finalize, SaveCursor, TerminalObserved, Watches, ReplyInvalid, ReadTerminal, CloseTurn,
     ValidateTree, Commit, PersistCommitted, PatchTerminal, RemoveIntent
<1>3. cmd'[o] \in {"none", "list"}
  BY <1>1, Domains DEF Finalize, SaveCursor, TerminalObserved, Watches, ReplyInvalid,
     ReadTerminal, CloseTurn, ValidateTree, Commit, PersistCommitted, PatchTerminal, RemoveIntent
<1>4. pc'[o] \in ListPlaces
  BY <1>1, Domains DEF Finalize, SaveCursor, TerminalObserved, Watches, ReplyInvalid,
     ReadTerminal, CloseTurn, ValidateTree, Commit, PersistCommitted, PatchTerminal, RemoveIntent,
     ListPlaces, Settling
<1> QED BY <1>2, <1>3, <1>4

LEMMA ReconcileOperator ==
  ASSUME TypeOK, MemoryInv, FirstInv, NEW o \in Operators, Reconcile(o) PROVE FirstOperator(o)
<1> SUFFICES ASSUME ~DispatchOver
             PROVE  minted' = minted /\ cmd'[o] \in {"none", "list"} /\ pc'[o] \in ListPlaces
  BY DEF FirstOperator
<1>0. then[o] \in {"resume", "persist", "remove"} \/ pc[o] # "upsert"
  BY Actors DEF TypeOK, MemoryInv
<1>1. cmd[o] \in {"none", "list"} /\ pc[o] \in ListPlaces /\ o \in Proc
  BY OperatorLists, Actors
<1>2. minted' = minted /\ cmd' = cmd
  BY DEF Reconcile, ReadIntent, AdoptSession, CleanStrandedTree, TombstoneStrand,
     SessionAnswers, ServerSilent, PromptLanded, PromptMissing, StaleRunning, StillRunning,
     PatchOrInsert, PersistRecovered, AdoptCommit, FinalizeRecovered, SettleCommitted, Recovering,
     Upsert, Resume
<1>3. pc'[o] \in ListPlaces
  BY <1>0, <1>1, Domains DEF Reconcile, ReadIntent, AdoptSession, CleanStrandedTree,
     TombstoneStrand, SessionAnswers, ServerSilent, PromptLanded, PromptMissing, StaleRunning,
     StillRunning, PatchOrInsert, PersistRecovered, AdoptCommit, FinalizeRecovered,
     SettleCommitted, Recovering, Upsert, Resume, ListPlaces, Settling
<1> QED BY <1>1, <1>2, <1>3

LEMMA CommandOperator ==
  ASSUME TypeOK, FirstInv, NEW o \in Operators, Command(o) PROVE FirstOperator(o)
<1> SUFFICES ASSUME ~DispatchOver
             PROVE  minted' = minted /\ cmd'[o] \in {"none", "list"} /\ pc'[o] \in ListPlaces
  BY DEF FirstOperator
<1>1. cmd[o] \in {"none", "list"} /\ pc[o] \in ListPlaces /\ o # Dispatcher /\ o \in Proc
  BY OperatorLists, Actors
<1>2. minted' = minted
  BY <1>1 DEF Command, Begin, List, Follow, OpenJournal, Message, Queue, AbortSession,
     PatchAborted, ListPlaces, Settling
<1>3. cmd'[o] \in {"none", "list"}
  BY <1>1, Domains DEF Command, Begin, List, Follow, OpenJournal, Message, Queue, AbortSession,
     PatchAborted, ListPlaces, Settling
<1>4. pc'[o] \in ListPlaces
  BY <1>1, Domains DEF Command, Begin, List, Follow, OpenJournal, Message, Queue, AbortSession,
     PatchAborted, ListPlaces, Settling
<1> QED BY <1>2, <1>3, <1>4

LEMMA FirstStep ==
  ASSUME TypeOK, MemoryInv', FirstInv, DispatcherInv, NEW p \in Proc, OwnPlace(p), OwnMemory(p),
         StatusKept,
         p = Dispatcher => FirstDispatch,
         p \in Operators => FirstOperator(p) /\ OperatorStep(p)
  PROVE  FirstInv'
<1>1. \A q \in Proc \ {p} : pc'[q] = pc[q] /\ cmd'[q] = cmd[q] /\ goal'[q] = goal[q]
  BY Domains DEF OwnPlace, OwnMemory
<1>2. pc'[Dispatcher] \in Landing => goal'[Dispatcher] \in Turn
  BY Actors DEF MemoryInv, WithGoal, Landing
<1>3. ASSUME pc'[Dispatcher] \in Landing => status[goal'[Dispatcher]] \in Admitted
      PROVE  pc'[Dispatcher] \in Landing => status'[goal'[Dispatcher]] \in Admitted
  BY <1>2, <1>3 DEF StatusKept
<1>4. CASE p = Dispatcher
  <2>1. \A o \in Operators : pc'[o] = pc[o] /\ cmd'[o] = cmd[o]
    BY <1>1, <1>4, Actors
  <2>2. ~DispatchOver' =>
           /\ goal'[Dispatcher] = minted' /\ minted' <= 1
           /\ \A o \in Operators : cmd'[o] \in {"none", "list"} /\ pc'[o] \in ListPlaces
    BY <1>4, <2>1, OperatorLists DEF FirstDispatch
  <2>3. pc'[Dispatcher] \in Landing => status'[goal'[Dispatcher]] \in Admitted
    BY <1>3, <1>4 DEF FirstDispatch
  <2> QED BY <2>2, <2>3 DEF FirstInv, Landing
<1>5. CASE p \in Operators
  <2>1. pc'[Dispatcher] = pc[Dispatcher] /\ goal'[Dispatcher] = goal[Dispatcher] /\ acked' = acked
    BY <1>1, <1>5, Actors DEF OperatorStep
  <2>2. ~DispatchOver' => ~DispatchOver
    BY <2>1 DEF DispatchOver
  <2>3. ~DispatchOver =>
           /\ goal[Dispatcher] = minted /\ minted <= 1 /\ minted' = minted
           /\ \A o \in Operators : cmd'[o] \in {"none", "list"} /\ pc'[o] \in ListPlaces
    <3>1. ASSUME ~DispatchOver, NEW o \in Operators
          PROVE  cmd'[o] \in {"none", "list"} /\ pc'[o] \in ListPlaces
      <4>1. CASE o = p
        BY <1>5, <3>1, <4>1 DEF FirstOperator
      <4>2. CASE o # p
        BY <1>1, <3>1, <4>2, OperatorLists, Actors
      <4> QED BY <4>1, <4>2
    <3> QED BY <1>5, <3>1 DEF FirstInv, FirstOperator
  <2>4. pc[Dispatcher] \in Landing => status[goal[Dispatcher]] \in Admitted
    BY DEF FirstInv, Landing
  <2> QED BY <1>3, <2>1, <2>2, <2>3, <2>4 DEF FirstInv, Landing
<1> QED BY <1>4, <1>5, Actors

LEMMA AckedStep ==
  ASSUME AckedIsAdmitted, StatusKept, acked' => acked \/ status[1] \in Admitted
  PROVE  AckedIsAdmitted'
<1>1. 1 \in Turn
  BY BoundAssumption DEF Turn
<1> QED BY <1>1 DEF AckedIsAdmitted, StatusKept

(* While the worktree is made.                                             *)
Making == {"start", "reserved", "treed"}

LEMMA EarlyNow ==
  ASSUME DispatcherInv, pc[Dispatcher] \in Making PROVE ~DispatchOver
BY AtDispatch DEF Making, Acknowledged, Settling, DispatchOver

EarlyDispatch ==
  pc'[Dispatcher] \in Making =>
    /\ pc[Dispatcher] \in Making
    /\ intent' = intent
    /\ record' # NoRecord => record'.state = "running"

EarlyOperator(o) ==
  pc[Dispatcher] \in Making =>
    /\ intent' = intent /\ record' = record
    /\ pc'[o] \in {"idle", "reconcile", "resume"} /\ held'[o] = NoIntent

LEMMA EarlyOps ==
  ASSUME EarlyInv, pc[Dispatcher] \in Making, NEW o \in Operators
  PROVE  intent = NoIntent /\ pc[o] \in {"idle", "reconcile", "resume"} /\ held[o] = NoIntent
BY DEF EarlyInv, Making

LEMMA StartEarly ==
  ASSUME TypeOK, EarlyInv, Start(Dispatcher) PROVE EarlyDispatch
<1>1. CASE ReserveRef(Dispatcher)
  <2>1. record' = NewRecord(Reserved, 0, "running") /\ intent' = intent /\ pc[Dispatcher] = "start"
    BY <1>1 DEF ReserveRef, InsertRecord
  <2> QED BY <2>1 DEF EarlyDispatch, Making, NewRecord
<1>2. CASE Start(Dispatcher) /\ ~ReserveRef(Dispatcher)
  <2>1. pc'[Dispatcher] \in Making => pc[Dispatcher] \in Making /\ intent' = intent /\ record' = record
    BY <1>2, Actors, Domains DEF Start, PlanIntent, ReserveRef, CreateTree, CreateTreeFails,
       StoreTree, PersistReady, CreateSession, SubscribeUnreachable, PromptUnreachable, Recreate,
       FailBeforePrompt, CleanTree, CleanIntent, DiscardUnacknowledged, Making
  <2> QED BY <2>1 DEF EarlyDispatch, EarlyInv, Making
<1> QED BY <1>1, <1>2

LEMMA PromptEarly == ASSUME TypeOK, Prompt(Dispatcher) PROVE EarlyDispatch
<1>1. pc'[Dispatcher] \notin Making
  BY Actors, Domains DEF Prompt, PersistUncertain, Send, Accepted, ResponseLost, MessageFails,
     Confirmed, ConfirmTimesOut, PreserveIntent, PreserveRecord, PersistRunning, WriteRef,
     Acknowledge, PatchMessage, Making
<1> QED BY <1>1 DEF EarlyDispatch

LEMMA FinalizeEarly == ASSUME TypeOK, Finalize(Dispatcher) PROVE EarlyDispatch
<1>1. pc'[Dispatcher] \notin Making
  BY Actors, Domains DEF Finalize, SaveCursor, TerminalObserved, Watches, ReplyInvalid,
     ReadTerminal, CloseTurn, ValidateTree, Commit, PersistCommitted, PatchTerminal, RemoveIntent,
     Making
<1> QED BY <1>1 DEF EarlyDispatch

LEMMA OthersWait ==
  ASSUME EarlyInv, NEW o \in Operators, Prompt(o) \/ Finalize(o)
  PROVE  pc[Dispatcher] \notin Making
<1>1. pc[o] \notin {"idle", "reconcile", "resume"}
  <2>1. CASE Prompt(o)
    BY <2>1, Actors DEF Prompt, PersistUncertain, Send, Accepted, ResponseLost, MessageFails,
       Confirmed, ConfirmTimesOut, PreserveIntent, PreserveRecord, PersistRunning, WriteRef,
       Acknowledge, PatchMessage
  <2>2. CASE Finalize(o)
    BY <2>2, Actors DEF Finalize, SaveCursor, TerminalObserved, Watches, ReplyInvalid,
       ReadTerminal, CloseTurn, ValidateTree, Commit, PersistCommitted, PatchTerminal, RemoveIntent
  <2> QED BY <2>1, <2>2
<1> QED BY <1>1, EarlyOps

LEMMA ReconcileEarly ==
  ASSUME TypeOK, EarlyInv, NEW o \in Operators, Reconcile(o) PROVE EarlyOperator(o)
<1> SUFFICES ASSUME pc[Dispatcher] \in Making
             PROVE  /\ intent' = intent /\ record' = record
                    /\ pc'[o] \in {"idle", "reconcile", "resume"} /\ held'[o] = NoIntent
  BY DEF EarlyOperator
<1>1. intent = NoIntent /\ pc[o] \in {"idle", "reconcile", "resume"} /\ held[o] = NoIntent
  BY EarlyOps
<1>2. ReadIntent(o)
  BY <1>1 DEF Reconcile, ReadIntent, AdoptSession, CleanStrandedTree, TombstoneStrand,
     SessionAnswers, ServerSilent, PromptLanded, PromptMissing, StaleRunning, StillRunning,
     PatchOrInsert, PersistRecovered, AdoptCommit, FinalizeRecovered, SettleCommitted, Recovering,
     Upsert, Resume
<1> QED BY <1>1, <1>2, Actors, Domains DEF ReadIntent

LEMMA CommandEarly ==
  ASSUME TypeOK, DispatcherInv, FirstInv, EarlyInv, NEW o \in Operators, Command(o) PROVE EarlyOperator(o)
<1> SUFFICES ASSUME pc[Dispatcher] \in Making
             PROVE  /\ intent' = intent /\ record' = record
                    /\ pc'[o] \in {"idle", "reconcile", "resume"} /\ held'[o] = NoIntent
  BY DEF EarlyOperator
<1>1. intent = NoIntent /\ pc[o] \in {"idle", "reconcile", "resume"} /\ held[o] = NoIntent
  BY EarlyOps
<1>2. ~DispatchOver /\ cmd[o] \in {"none", "list"} /\ o # Dispatcher
  BY EarlyNow, OperatorLists, Actors
<1>3. List(o) \/ \E c \in Allowed : Begin(o, c)
  BY <1>1, <1>2 DEF Command, Follow, OpenJournal, Message, Queue, AbortSession, PatchAborted
<1>4. CASE List(o)
  BY <1>2, <1>4, Actors, Domains DEF List
<1>5. ASSUME NEW c \in Allowed, Begin(o, c)
      PROVE  /\ intent' = intent /\ record' = record
             /\ pc'[o] \in {"idle", "reconcile", "resume"} /\ held'[o] = NoIntent
  BY <1>1, <1>2, <1>5, Actors, Domains DEF Begin, DispatchOver
<1> QED BY <1>3, <1>4, <1>5

LEMMA EarlyStep ==
  ASSUME TypeOK, DispatcherInv, EarlyInv, NEW p \in Proc, OwnPlace(p), OwnMemory(p),
         p = Dispatcher => EarlyDispatch,
         p \in Operators => EarlyOperator(p)
  PROVE  EarlyInv'
<1>1. \A q \in Proc \ {p} : pc'[q] = pc[q] /\ held'[q] = held[q]
  BY Domains DEF OwnPlace, OwnMemory
<1>2. CASE p = Dispatcher
  <2>1. \A o \in Operators : pc'[o] = pc[o] /\ held'[o] = held[o]
    BY <1>1, <1>2, Actors
  <2> QED BY <1>2, <2>1 DEF EarlyInv, EarlyDispatch, Making
<1>3. CASE p \in Operators
  <2>1. pc'[Dispatcher] = pc[Dispatcher]
    BY <1>1, <1>3, Actors
  <2>2. SUFFICES ASSUME pc[Dispatcher] \in Making
                 PROVE  /\ intent' = NoIntent
                        /\ record' # NoRecord => record'.state = "running"
                        /\ \A o \in Operators :
                             pc'[o] \in {"idle", "reconcile", "resume"} /\ held'[o] = NoIntent
    BY <2>1 DEF EarlyInv, Making
  <2>3. intent' = intent /\ record' = record
    BY <1>3, <2>2 DEF EarlyOperator
  <2>4. ASSUME NEW o \in Operators
        PROVE  pc'[o] \in {"idle", "reconcile", "resume"} /\ held'[o] = NoIntent
    <3>1. CASE o = p
      BY <1>3, <2>2, <3>1 DEF EarlyOperator
    <3>2. CASE o # p
      BY <1>1, <2>2, <3>2, EarlyOps, Actors
    <3> QED BY <3>1, <3>2
  <2> QED BY <2>2, <2>3, <2>4 DEF EarlyInv, Making
<1> QED BY <1>2, <1>3, Actors

-----------------------------------------------------------------------------
(* Each part of TurnInv from the step predicates, and all of them together.*)

LEMMA ReplyStays ==
  ASSUME StatusKept, NEW i \in IntentType \cup {NoIntent}, Replied(i)
  PROVE  i # NoIntent /\ i.reply # 0 => status'[i.reply] = "replied"
<1> SUFFICES ASSUME i # NoIntent, i.reply # 0 PROVE status'[i.reply] = "replied"
  OBVIOUS
<1>1. i.reply \in 0..MaxTurns
  BY DEF IntentType
<1>2. i.reply \in Turn
  BY <1>1, TurnIsNat DEF Turn
<1> QED BY <1>2 DEF StatusKept, Replied

LEMMA ReplyStep ==
  ASSUME TypeOK, TypeOK', MemoryInv', ReplyInv, NEW p \in Proc, OwnPlace(p), OwnMemory(p),
         Sound(p), Settles(p)
  PROVE  ReplyInv'
<1>1. \A q \in Proc \ {p} : pc'[q] = pc[q] /\ goal'[q] = goal[q] /\ held'[q] = held[q]
  BY Domains DEF OwnPlace, OwnMemory
<1>2. StatusKept /\ intent' \in IntentType \cup {NoIntent}
        /\ \A q \in Proc : held'[q] \in IntentType \cup {NoIntent}
  BY DEF Settles, TypeOK
<1>3. Replied(intent') /\ Replied(held'[p]) /\ \A q \in Proc \ {p} : Replied(held[q])
  BY DEF Sound, SoundIntent, ReplyInv
<1>4. Replied(intent)'
  BY <1>2, <1>3, ReplyStays DEF Replied
<1>5. ASSUME NEW q \in Proc PROVE Replied(held[q])'
  <2>1. Replied(held'[q])
    BY <1>1, <1>3
  <2> QED BY <1>2, <2>1, ReplyStays DEF Replied
<1>6. ASSUME NEW q \in Proc, pc'[q] \in Settling PROVE status'[goal'[q]] = "replied"
  <2>1. goal'[q] \in Turn
    BY <1>6 DEF MemoryInv, WithGoal
  <2>2. status[goal'[q]] = "replied"
    BY <1>1, <1>6 DEF Settles, ReplyInv
  <2> QED BY <1>2, <2>1, <2>2 DEF StatusKept
<1> QED BY <1>4, <1>5, <1>6 DEF ReplyInv

LEMMA RecordStep ==
  ASSUME TypeOK', StatusKept, RecordSound PROVE CompletionIsReply' /\ SettledHasCommit'
<1>1. record' # NoRecord => record'.completion \in 0..MaxTurns
  BY DEF TypeOK, RecordType
<1>2. record' # NoRecord /\ record'.completion # 0 => record'.completion \in Turn
  BY <1>1, TurnIsNat DEF Turn
<1> QED BY <1>2 DEF StatusKept, RecordSound, CompletionIsReply, SettledHasCommit

LEMMA CommitStep ==
  ASSUME TypeOK, CommitInv, NEW p \in Proc, OwnPlace(p), OwnMemory(p), Sound(p), Settles(p),
         TreeKept \/ \A q \in Proc : ~Bare(q)',
         Bare(p)' => NoTree
  PROVE  CommitInv'
<1>1. \A q \in Proc \ {p} : pc'[q] = pc[q] /\ made'[q] = made[q] /\ held'[q] = held[q]
  BY Domains DEF OwnPlace, OwnMemory
<1>2. Numbered(intent)' /\ \A q \in Proc : Numbered(held[q])'
  <2>1. Numbered(intent') /\ Numbered(held'[p]) /\ \A q \in Proc : Numbered(held[q])
    BY DEF Sound, SoundIntent, CommitInv
  <2>2. \A q \in Proc : Numbered(held'[q])
    BY <1>1, <2>1
  <2> QED BY <2>1, <2>2 DEF Numbered
<1>3. \A q \in Proc : pc'[q] = "committed" => made'[q] # 0
  BY <1>1 DEF CommitInv, Settles
<1>4. \A q \in Proc : Bare(q)' => NoTree'
  <2>1. \A q \in Proc : Bare(q)' => NoTree
    BY <1>1 DEF CommitInv, Bare, NoTree
  <2> QED BY <2>1 DEF TreeKept, NoTree
<1> QED BY <1>2, <1>3, <1>4 DEF CommitInv, Bare, NoTree

(* A step that is no commit. *)
LEMMA LogSame ==
  ASSUME LogInv, log' = log, staged' \subseteq dirty', dirty' = dirty
  PROVE  LogInv'
BY DEF LogInv, Logged

(* The parts together.                                                     *)
LEMMA ProcStep ==
  ASSUME TurnInv, NEW p \in Proc, OwnPlace(p), OwnMemory(p),
         Typed(p), RecordTyped, OwnTyped(p), GitTyped, ServerTyped, OutputTyped, Remembered(p),
         Sound(p), Settles(p), RecordSound, LogInv',
         TreeKept \/ \A q \in Proc : ~Bare(q)',
         Bare(p)' => NoTree,
         p = Dispatcher => DispatchStep /\ FirstDispatch /\ EarlyDispatch,
         p \in Operators => OperatorStep(p) /\ FirstOperator(p) /\ EarlyOperator(p)
  PROVE  TurnInv'
<1> USE DEF TurnInv
<1>1. TypeOK'
  BY TypeStep
<1>2. MemoryInv'
  BY MemoryStep
<1>3. ReplyInv'
  BY <1>1, <1>2, ReplyStep
<1>4. CompletionIsReply' /\ SettledHasCommit'
  BY <1>1, RecordStep DEF Settles
<1>5. CommitInv'
  BY CommitStep
<1>6. DispatcherInv'
  BY DispatcherStep
<1>7. FirstInv'
  BY <1>2, FirstStep DEF Settles
<1>8. EarlyInv'
  BY EarlyStep
<1>9. AckedIsAdmitted'
  <2>1. acked' => acked \/ status[1] \in Admitted
    BY Actors DEF FirstDispatch, OperatorStep
  <2> QED BY <2>1, AckedStep DEF Settles
<1> QED BY <1>1, <1>2, <1>3, <1>4, <1>5, <1>6, <1>7, <1>8, <1>9

LEMMA StartTurn == ASSUME TurnInv, NEW p \in Proc, Start(p) PROVE TurnInv'
<1> USE DEF TurnInv
<1>1. p = Dispatcher /\ p \notin Operators
  BY StartActor, Actors
<1>2. OwnPlace(p) /\ OwnMemory(p) /\ Typed(p) /\ RecordTyped /\ OwnTyped(p) /\ GitTyped
        /\ ServerTyped /\ OutputTyped /\ Remembered(p)
  BY StartOwn, StartTyped, StartRecord, StartOthers, StartRemembered
<1>3. Sound(p) /\ Settles(p) /\ RecordSound /\ (TreeKept \/ StoreTree(p))
  BY StartSound, StartSettles, StartSettled
<1>4. LogInv'
  <2>1. UNCHANGED <<log, dirty, staged>>
    BY DEF Start, PlanIntent, ReserveRef, CreateTree, CreateTreeFails, StoreTree, PersistReady,
       CreateSession, SubscribeUnreachable, PromptUnreachable, Recreate, FailBeforePrompt,
       CleanTree, CleanIntent, DiscardUnacknowledged
  <2> QED BY <2>1, LogSame DEF LogInv
<1>5. ~Bare(p)'
  <2>1. pc'[p] \notin Settling
    BY Domains DEF Start, PlanIntent, ReserveRef, CreateTree, CreateTreeFails, StoreTree,
       PersistReady, CreateSession, SubscribeUnreachable, PromptUnreachable, Recreate,
       FailBeforePrompt, CleanTree, CleanIntent, DiscardUnacknowledged, Settling
  <2> QED BY <2>1 DEF Bare, Settling
<1>6. StoreTree(p) => \A q \in Proc : ~Bare(q)'
  <2> SUFFICES ASSUME StoreTree(p), NEW q \in Operators PROVE ~Bare(q)'
    BY <1>1, <1>5, Actors
  <2>1. pc[Dispatcher] \in Making
    BY <1>1 DEF StoreTree, Making
  <2>2. pc[q] \in {"idle", "reconcile", "resume"}
    BY <2>1, EarlyOps
  <2>3. pc'[q] = pc[q]
    BY <1>1, <1>2, Actors, Domains DEF OwnPlace
  <2> QED BY <2>2, <2>3 DEF Bare
<1>7. DispatchStep /\ FirstDispatch /\ EarlyDispatch
  BY <1>1, StartPlaced, StartFirst, StartEarly
<1> HIDE DEF TurnInv
<1> QED BY <1>1, <1>2, <1>3, <1>4, <1>5, <1>6, <1>7, ProcStep

LEMMA PromptTurn == ASSUME TurnInv, NEW p \in Proc, Prompt(p) PROVE TurnInv'
<1> USE DEF TurnInv
<1>1. OwnPlace(p) /\ OwnMemory(p) /\ Typed(p) /\ RecordTyped /\ OwnTyped(p) /\ GitTyped
        /\ ServerTyped /\ OutputTyped /\ Remembered(p)
  BY PromptOwn, PromptTyped, PromptRecord, PromptOthers, PromptRemembered
<1>2. Sound(p) /\ Settles(p) /\ RecordSound /\ TreeKept
  BY PromptSound, PromptSettles, PromptSettled
<1>3. LogInv'
  <2>1. UNCHANGED <<log, dirty, staged>>
    BY DEF Prompt, PersistUncertain, Send, Accepted, ResponseLost, MessageFails, Confirmed,
       ConfirmTimesOut, PreserveIntent, PreserveRecord, PersistRunning, WriteRef, Acknowledge,
       PatchMessage
  <2> QED BY <2>1, LogSame DEF LogInv
<1>4. ~Bare(p)'
  <2>1. pc'[p] \notin Settling
    BY Domains DEF Prompt, PersistUncertain, Send, Accepted, ResponseLost, MessageFails,
       Confirmed, ConfirmTimesOut, PreserveIntent, PreserveRecord, PersistRunning, WriteRef,
       Acknowledge, PatchMessage, Settling
  <2> QED BY <2>1 DEF Bare, Settling
<1>5. p = Dispatcher => DispatchStep /\ FirstDispatch /\ EarlyDispatch
  BY PromptPlaced, PromptFirst, PromptEarly
<1>6. p \in Operators => OperatorStep(p) /\ FirstOperator(p) /\ EarlyOperator(p)
  <2> SUFFICES ASSUME p \in Operators PROVE OperatorStep(p) /\ FirstOperator(p) /\ EarlyOperator(p)
    OBVIOUS
  <2>1. DispatchOver /\ pc[Dispatcher] \notin Making
    BY PromptOperator, OthersWait
  <2> QED BY <2>1, PromptPlaced DEF FirstOperator, EarlyOperator
<1> HIDE DEF TurnInv
<1> QED BY <1>1, <1>2, <1>3, <1>4, <1>5, <1>6, ProcStep

LEMMA FinalizeTurn == ASSUME TurnInv, NEW p \in Proc, Finalize(p) PROVE TurnInv'
<1> USE DEF TurnInv
<1>1. OwnPlace(p) /\ OwnMemory(p) /\ Typed(p) /\ RecordTyped /\ OwnTyped(p) /\ GitTyped
        /\ ServerTyped /\ OutputTyped /\ Remembered(p)
  BY FinalizeOwn, FinalizeTyped, FinalizeRecord, FinalizeOthers, FinalizeRemembered
<1>2. Sound(p) /\ Settles(p) /\ RecordSound /\ TreeKept
  BY FinalizeSound, FinalizeSettles, FinalizeSettled
<1>3. LogInv'
  <2>1. CASE Commit(p)
    BY <2>1, LogGrows
  <2>2. CASE Finalize(p) /\ ~Commit(p)
    <3>1. log' = log /\ dirty' = dirty /\ staged' \in {staged, dirty}
      BY <2>2 DEF Finalize, SaveCursor, TerminalObserved, Watches, ReplyInvalid, ReadTerminal,
         CloseTurn, ValidateTree, Commit, PersistCommitted, PatchTerminal, RemoveIntent
    <3> QED BY <3>1, LogSame DEF LogInv
  <2> QED BY <2>1, <2>2
<1>4. Bare(p)' => NoTree
  BY FinalizeBare
<1>5. p = Dispatcher => DispatchStep /\ FirstDispatch /\ EarlyDispatch
  BY FinalizePlaced, FinalizeFirst, FinalizeEarly
<1>6. p \in Operators => OperatorStep(p) /\ FirstOperator(p) /\ EarlyOperator(p)
  <2> SUFFICES ASSUME p \in Operators PROVE OperatorStep(p) /\ FirstOperator(p) /\ EarlyOperator(p)
    OBVIOUS
  <2>1. pc[Dispatcher] \notin Making
    BY OthersWait
  <2> QED BY <2>1, FinalizePlaced, FinalizeOperator DEF EarlyOperator
<1> HIDE DEF TurnInv
<1> QED BY <1>1, <1>2, <1>3, <1>4, <1>5, <1>6, ProcStep

LEMMA ReconcileTurn == ASSUME TurnInv, NEW p \in Proc, Reconcile(p) PROVE TurnInv'
<1> USE DEF TurnInv
<1>1. p \in Operators /\ p # Dispatcher
  BY ReconcileActor, Actors
<1>2. OwnPlace(p) /\ OwnMemory(p) /\ Typed(p) /\ RecordTyped /\ OwnTyped(p) /\ GitTyped
        /\ ServerTyped /\ OutputTyped /\ Remembered(p)
  BY ReconcileOwn, ReconcileTyped, ReconcileRecord, ReconcileOthers, ReconcileRemembered
<1>3. Sound(p) /\ Settles(p) /\ RecordSound /\ TreeKept
  BY ReconcileSound, ReconcileSettles, ReconcileSettled
<1>4. LogInv'
  <2>1. UNCHANGED <<log, dirty, staged>>
    BY DEF Reconcile, ReadIntent, AdoptSession, CleanStrandedTree, TombstoneStrand,
       SessionAnswers, ServerSilent, PromptLanded, PromptMissing, StaleRunning, StillRunning,
       PatchOrInsert, PersistRecovered, AdoptCommit, FinalizeRecovered, SettleCommitted,
       Recovering, Upsert, Resume
  <2> QED BY <2>1, LogSame DEF LogInv
<1>5. ~Bare(p)'
  <2>0. then[p] \in {"end", "resume", "persist", "remove"}
    BY DEF TypeOK
  <2>1. pc'[p] \notin {"close", "patch"}
    BY <2>0, Domains DEF Reconcile, ReadIntent, AdoptSession, CleanStrandedTree,
       TombstoneStrand, SessionAnswers, ServerSilent, PromptLanded, PromptMissing, StaleRunning,
       StillRunning, PatchOrInsert, PersistRecovered, AdoptCommit, FinalizeRecovered,
       SettleCommitted, Recovering, Upsert, Resume
  <2> QED BY <2>1 DEF Bare
<1>6. OperatorStep(p) /\ FirstOperator(p) /\ EarlyOperator(p)
  BY <1>1, ReconcilePlaced, ReconcileOperator, ReconcileEarly
<1> HIDE DEF TurnInv
<1> QED BY <1>1, <1>2, <1>3, <1>4, <1>5, <1>6, ProcStep

LEMMA CommandTurn == ASSUME TurnInv, NEW p \in Proc, Command(p) PROVE TurnInv'
<1> USE DEF TurnInv
<1>1. p \in Operators /\ p # Dispatcher
  BY CommandActor, Actors
<1>2. OwnPlace(p) /\ OwnMemory(p) /\ Typed(p) /\ RecordTyped /\ OwnTyped(p) /\ GitTyped
        /\ ServerTyped /\ OutputTyped /\ Remembered(p)
  BY CommandOwn, CommandTyped, CommandRecord, CommandOthers, CommandRemembered
<1>3. Sound(p) /\ Settles(p) /\ RecordSound /\ TreeKept
  BY CommandSound, CommandSettles, CommandSettled
<1>4. LogInv'
  <2>1. UNCHANGED <<log, dirty, staged>>
    BY DEF Command, Begin, List, Follow, OpenJournal, Message, Queue, AbortSession, PatchAborted
  <2> QED BY <2>1, LogSame DEF LogInv
<1>5. ~Bare(p)'
  <2>1. pc'[p] \notin {"close", "patch"}
    BY Domains DEF Command, Begin, List, Follow, OpenJournal, Message, Queue, AbortSession,
       PatchAborted
  <2> QED BY <2>1 DEF Bare
<1>6. OperatorStep(p) /\ FirstOperator(p) /\ EarlyOperator(p)
  BY <1>1, CommandPlaced, CommandOperator, CommandEarly
<1> HIDE DEF TurnInv
<1> QED BY <1>1, <1>2, <1>3, <1>4, <1>5, <1>6, ProcStep

LEMMA QuitTurn == ASSUME TurnInv, NEW p \in Proc, Quit(p) PROVE TurnInv'
<1> USE DEF TurnInv
<1>1. /\ pc' = [pc EXCEPT ![p] = IF p = Dispatcher THEN "ended" ELSE "idle"]
      /\ cmd' = [cmd EXCEPT ![p] = IF p = Dispatcher THEN "dispatch" ELSE "none"]
      /\ held' = [held EXCEPT ![p] = NoIntent]
      /\ goal' = [goal EXCEPT ![p] = 0]
      /\ made' = [made EXCEPT ![p] = 0]
      /\ then' = [then EXCEPT ![p] = "end"]
      /\ turnLock' = IF turnLock = p THEN Nobody ELSE turnLock
      /\ UNCHANGED <<worktree, record, intent, tree, dirty, staged, log, status, sentTo, sends,
                     minted, acked, confirmed>>
  BY DEF Quit
<1>2. /\ pc'[p] = IF p = Dispatcher THEN "ended" ELSE "idle"
      /\ cmd'[p] = IF p = Dispatcher THEN "dispatch" ELSE "none"
      /\ held'[p] = NoIntent /\ goal'[p] = 0 /\ made'[p] = 0 /\ then'[p] = "end"
  BY <1>1, Domains
<1>3. OwnPlace(p) /\ OwnMemory(p)
  BY <1>1, <1>2, Domains DEF OwnPlace, OwnMemory, Places
<1>4. Typed(p) /\ RecordTyped
  BY <1>1, <1>2 DEF Typed, RecordTyped, WithIntent, TypeOK
<1>5. OwnTyped(p)
  BY <1>1, <1>2, Own DEF OwnTyped
<1>6. GitTyped /\ ServerTyped /\ OutputTyped
  BY <1>1, GitTypes, ServerTypes, OutputTypes DEF GitTyped, ServerTyped, OutputTyped
<1>7. Remembered(p) /\ ~Bare(p)'
  BY <1>2 DEF Remembered, WithGoal, Settling, Bare
<1>8. Sound(p)
  BY <1>1, <1>2, OldSound, NoneSound DEF Sound
<1>9. Settles(p)
  BY <1>1, <1>2 DEF Settles, StatusKept, Settling
<1>10. RecordSound /\ TreeKept
  BY <1>1, RecordSame
<1>11. LogInv'
  BY <1>1, LogSame DEF LogInv
<1>12. p = Dispatcher => DispatchStep /\ FirstDispatch /\ EarlyDispatch
  BY <1>1, <1>2 DEF DispatchStep, FirstDispatch, EarlyDispatch, Acknowledged, DispatchOver,
     Landing, Making
<1>13. p \in Operators => OperatorStep(p) /\ FirstOperator(p) /\ EarlyOperator(p)
  BY <1>1, <1>2, Actors DEF OperatorStep, FirstOperator, EarlyOperator, Alien, Unacknowledged,
     Acknowledged, Shared, Settling, ListPlaces
<1> HIDE DEF TurnInv
<1> QED BY <1>3, <1>4, <1>5, <1>6, <1>7, <1>8, <1>9, <1>10, <1>11, <1>12, <1>13, ProcStep

(* The session changes only the status of a message, and the worktree.     *)
LEMMA ServerTurn ==
  ASSUME TurnInv, NEW t \in Turn, Admit(t) \/ Drop(t) \/ Reply(t) \/ Fail(t) \/ Edit(t)
  PROVE  TurnInv'
<1> USE DEF TurnInv
<1>1. UNCHANGED <<worktree, record, intent, turnLock, tree, staged, log, sentTo, sends, minted,
                  acked, confirmed, cmd, pc, held, goal, made, then>>
  BY DEF Admit, Drop, Reply, Fail, Edit, Serve
<1>2. status' \in [Turn -> Status] /\ StatusKept
  BY ServerTypes DEF Admit, Drop, Reply, Fail, Edit, Serve, StatusKept, Status, Admitted
<1>3. dirty' \subseteq Turn /\ LogInv'
  <2>1. CASE Edit(t)
    <3>1. dirty' = dirty \cup {t} /\ \A k \in 1..Len(log) : t \notin log[k]
      BY <2>1 DEF Edit
    <3>2. t \notin Logged
      BY <3>1 DEF Logged
    <3>3. Logged' = Logged
      BY <1>1 DEF Logged
    <3> QED BY <1>1, <3>1, <3>2, <3>3, GitTypes DEF LogInv
  <2>2. CASE Admit(t) \/ Drop(t) \/ Reply(t) \/ Fail(t)
    <3>1. dirty' = dirty
      BY <2>2 DEF Admit, Drop, Reply, Fail, Serve
    <3> QED BY <1>1, <3>1, GitTypes, LogSame DEF LogInv
  <2> QED BY <2>1, <2>2
<1>4. TypeOK'
  <2>1. status' \in [Turn -> {"unsent", "inflight", "dropped"} \cup Admitted]
    BY <1>2 DEF Status
  <2> QED BY <1>1, <1>3, <2>1 DEF TypeOK
<1>5. MemoryInv'
  BY <1>1 DEF MemoryInv
<1>6. ReplyInv'
  <2>1. Replied(intent)'
    <3>1. Replied(intent) /\ intent \in IntentType \cup {NoIntent}
      BY DEF ReplyInv, TypeOK
    <3> QED BY <1>1, <1>2, <3>1, ReplyStays DEF Replied
  <2>2. ASSUME NEW q \in Proc PROVE Replied(held[q])'
    <3>1. Replied(held[q]) /\ held[q] \in IntentType \cup {NoIntent}
      BY DEF ReplyInv, TypeOK
    <3> QED BY <1>1, <1>2, <3>1, ReplyStays DEF Replied
  <2>3. ASSUME NEW q \in Proc, pc[q] \in Settling PROVE status'[goal[q]] = "replied"
    BY <1>2, <2>3 DEF MemoryInv, WithGoal, ReplyInv, StatusKept
  <2> QED BY <1>1, <2>1, <2>2, <2>3 DEF ReplyInv
<1>7. CompletionIsReply' /\ SettledHasCommit'
  <2>1. RecordSound
    BY <1>1, RecordSame
  <2> QED BY <1>2, <1>4, <2>1, RecordStep
<1>8. DispatcherInv' /\ EarlyInv' /\ CommitInv'
  BY <1>1 DEF DispatcherInv, EarlyInv, CommitInv, Numbered
<1>9. FirstInv'
  <2>1. pc[Dispatcher] \in {"confirmed", "landed", "ack"} => status'[goal[Dispatcher]] \in Admitted
    BY <1>2, Actors DEF FirstInv, MemoryInv, WithGoal, StatusKept
  <2> QED BY <1>1, <2>1 DEF FirstInv, DispatchOver
<1>10. AckedIsAdmitted'
  BY <1>1, <1>2, AckedStep
<1> QED BY <1>3, <1>4, <1>5, <1>6, <1>7, <1>8, <1>9, <1>10

LEMMA InitTurn == Init => TurnInv
<1> SUFFICES ASSUME Init PROVE TurnInv
  OBVIOUS
<1>1. TypeOK
  <2>1. pc \in [Proc -> Places] /\ cmd \in [Proc -> Commands \cup {"none", "dispatch"}]
    BY DEF Init, Places
  <2>2. held \in [Proc -> IntentType \cup {NoIntent}]
    BY DEF Init
  <2>3. /\ goal \in [Proc -> 0..MaxTurns] /\ made \in [Proc -> 0..MaxTurns]
        /\ then \in [Proc -> {"end", "resume", "persist", "remove"}]
        /\ minted \in 0..MaxTurns
    BY TurnIsNat DEF Init
  <2>4. /\ status \in [Turn -> {"unsent", "inflight", "dropped"} \cup Admitted]
        /\ sentTo \in [Turn -> 0..2] /\ sends \in [Turn -> Nat]
    BY DEF Init
  <2>5. log \in Seq(SUBSET Turn)
    BY DEF Init
  <2> QED BY <2>1, <2>2, <2>3, <2>4, <2>5 DEF Init, TypeOK
<1>2. MemoryInv
  BY Actors DEF Init, MemoryInv, WithIntent, WithGoal, Settling
<1>3. LogInv
  <2>1. Logged = {}
    BY DEF Init, Logged
  <2> QED BY <2>1, FS_EmptySet DEF Init, LogInv
<1>4. ReplyInv /\ CommitInv
  BY DEF Init, ReplyInv, CommitInv, Replied, Numbered, Settling
<1>5. CompletionIsReply /\ SettledHasCommit /\ AckedIsAdmitted
  BY DEF Init, CompletionIsReply, SettledHasCommit, AckedIsAdmitted
<1>6. DispatcherInv
  BY Actors DEF Init, DispatcherInv, Unacknowledged, Acknowledged, Shared, Settling
<1>7. FirstInv
  BY Actors DEF Init, FirstInv, DispatchOver, ListPlaces
<1>8. EarlyInv
  BY Actors DEF Init, EarlyInv
<1> QED BY <1>1, <1>2, <1>3, <1>4, <1>5, <1>6, <1>7, <1>8 DEF TurnInv

LEMMA NextTurn == TurnInv /\ [Next]_vars => TurnInv'
<1> SUFFICES ASSUME TurnInv, [Next]_vars PROVE TurnInv'
  OBVIOUS
<1>1. CASE UNCHANGED vars
  BY <1>1 DEF vars, TurnInv, TypeOK, MemoryInv, LogInv, Logged, ReplyInv, Replied,
     CompletionIsReply, DispatcherInv, FirstInv, DispatchOver, AckedIsAdmitted, EarlyInv,
     CommitInv, Numbered, SettledHasCommit
<1>2. QED
  BY <1>1, StartTurn, PromptTurn, FinalizeTurn, ReconcileTurn, CommandTurn, QuitTurn, ServerTurn
     DEF Next

(* The invariant of a ref and its turn holds in every reachable state.     *)
THEOREM TurnInvariant == Spec => []TurnInv
BY InitTurn, NextTurn, PTL DEF Spec

USE DEF Planned, WorktreeReady, SessionCreated, PromptUncertain, Running, Observed,
        Validated, Committed

-----------------------------------------------------------------------------
(* KeptInv: without an `ls` that meets a live dispatch, a ref that was     *)
(* acknowledged keeps its record, its session and a message.               *)

(* The record of an acknowledged ref.                                      *)
Kept(r) == r # NoRecord /\ ~r.tombstoned /\ r.session # Reserved /\ r.message # 0

(* A step of p once the dispatch is acknowledged.                          *)
KeepsStep(p) ==
  /\ Beyond(intent') /\ Beyond(held'[p]) /\ pc'[p] # "tombstone"
  /\ Kept(record')

LEMMA AtAcked ==
  ASSUME KeptInv, acked
  PROVE  /\ Beyond(intent) /\ Kept(record)
         /\ \A p \in Proc : Beyond(held[p]) /\ pc[p] # "tombstone"
BY DEF KeptInv, AckedIsKept, Active, Kept

LEMMA NoneBeyond == Beyond(NoIntent)
BY DEF Beyond

LEMMA PhasedBeyond ==
  ASSUME NEW p \in Proc, held[p] \in IntentType, Beyond(held[p]), NEW n \in 3..8
  PROVE  Beyond(InPhase(p, n))
<1>1. InPhase(p, n).session = held[p].session /\ InPhase(p, n).phase = n
  BY DEF InPhase, IntentType
<1>2. held[p] # NoIntent
  BY NoIntentIsNone
<1> QED BY <1>1, <1>2 DEF Beyond

LEMMA PromptKeeps ==
  ASSUME TurnInv, KeptInv, acked, NEW p \in Operators, Prompt(p) PROVE KeepsStep(p)
<1>0. /\ pc[p] \in WithIntent => held[p] \in IntentType
      /\ Beyond(intent) /\ Kept(record) /\ Beyond(held[p]) /\ pc[p] \notin Alien /\ p # Dispatcher
      /\ p \in Proc /\ TypeOK
  BY AtAcked, AtDispatch, Actors DEF TurnInv, MemoryInv
<1>1. CASE PersistUncertain(p)
  <2> DEFINE t == IF goal[p] = 0 THEN minted + 1 ELSE goal[p]
             i == InPhase(p, PromptUncertain)
             j == [i EXCEPT !.message = t]
  <2>1. i \in IntentType /\ Beyond(i)
    BY <1>0, <1>1, Phased, PhasedBeyond DEF PersistUncertain, WithIntent
  <2>2. intent' = j /\ held'[p] = j /\ record' = record /\ pc'[p] = "prompt"
    BY <1>0, <1>1, Domains DEF PersistUncertain
  <2> HIDE DEF i, t
  <2>3. j.session = i.session /\ j.phase = i.phase /\ i # NoIntent
    BY <2>1, NoIntentIsNone DEF IntentType
  <2> HIDE DEF j
  <2>4. Beyond(j)
    BY <2>1, <2>3 DEF Beyond
  <2> QED BY <1>0, <2>2, <2>4 DEF KeepsStep
<1>2. CASE PersistRunning(p)
  <2>1. Beyond(InPhase(p, Running))
    BY <1>0, <1>2, PhasedBeyond DEF PersistRunning, WithIntent
  <2>2. intent' = InPhase(p, Running) /\ held'[p] = InPhase(p, Running) /\ record' = record
          /\ pc'[p] = "landed"
    BY <1>0, <1>2, Domains DEF PersistRunning
  <2> QED BY <1>0, <2>1, <2>2 DEF KeepsStep
<1>3. CASE PatchMessage(p)
  <2>1. goal[p] # 0
    BY <1>0, <1>3, TurnIsNat DEF PatchMessage, TurnInv, MemoryInv, WithGoal, Turn
  <2>2. intent' = intent /\ held'[p] = NoIntent /\ pc'[p] = "idle"
    BY <1>0, <1>3, Domains DEF PatchMessage
  <2>3. record \in RecordType
    BY <1>0 DEF Kept, TypeOK
  <2>4. record' \in RecordType /\ record'.message = goal[p] /\ record'.session = record.session
          /\ record'.tombstoned = record.tombstoned
    BY <1>0, <1>3, <2>3, PromptRecord, ZenonT(30) DEF PatchMessage, PatchRecord, RecordType, States, TypeOK
  <2>5. record' # NoRecord
    BY <2>4, NoRecordIsNone
  <2> QED BY <1>0, <2>1, <2>2, <2>4, <2>5, NoneBeyond DEF KeepsStep, Kept
<1>4. CASE Prompt(p) /\ ~PersistUncertain(p) /\ ~PersistRunning(p) /\ ~PatchMessage(p)
  <2>1. pc[p] \in {"prompt", "sent", "confirm"}
    BY <1>0, <1>4 DEF Prompt, PersistUncertain, Send, Accepted, ResponseLost, MessageFails,
       Confirmed, ConfirmTimesOut, PreserveIntent, PreserveRecord, PersistRunning, WriteRef,
       Acknowledge, PatchMessage, Alien, Unacknowledged, Acknowledged, Shared, Settling
  <2>2. intent' = intent /\ held' = held /\ record' = record /\ pc'[p] # "tombstone"
    BY <1>0, <1>4, <2>1, Domains DEF Prompt, PersistUncertain, Send, Accepted, ResponseLost,
       MessageFails, Confirmed, ConfirmTimesOut, PreserveIntent, PreserveRecord, PersistRunning,
       WriteRef, Acknowledge, PatchMessage
  <2> QED BY <1>0, <2>2 DEF KeepsStep
<1> QED BY <1>1, <1>2, <1>3, <1>4

LEMMA FinalizeKeeps ==
  ASSUME TurnInv, KeptInv, acked, NEW p \in Proc, Finalize(p) PROVE KeepsStep(p)
<1>0. /\ held[p] # NoIntent => held[p] \in IntentType
      /\ intent # NoIntent => intent \in IntentType
      /\ Beyond(intent) /\ Kept(record) /\ Beyond(held[p]) /\ Beyond(NoIntent) /\ TypeOK
  BY AtAcked, NoneBeyond DEF TurnInv, TypeOK
<1>a. TypeOK
  BY DEF TurnInv
<1>1. \A n \in 3..8 : held[p] # NoIntent => InPhase(p, n) \in IntentType /\ Beyond(InPhase(p, n))
  BY <1>0, Phased, PhasedBeyond
<1>2. pc'[p] # "tombstone"
  BY <1>0, Domains DEF Finalize, SaveCursor, TerminalObserved, Watches, ReplyInvalid,
     ReadTerminal, CloseTurn, ValidateTree, Commit, PersistCommitted, PatchTerminal, RemoveIntent
<1>3. CASE SaveCursor(p) \/ TerminalObserved(p) \/ ReplyInvalid(p) \/ CloseTurn(p) \/ ValidateTree(p)
  <2>1. \/ intent' = intent /\ held'[p] = held[p]
        \/ /\ held[p] # NoIntent
           /\ \E n \in {5, 6, 7} : intent' = InPhase(p, n) /\ held'[p] \in {NoIntent, InPhase(p, n)}
    BY <1>a, <1>3, Domains DEF SaveCursor, TerminalObserved, ReplyInvalid, CloseTurn, ValidateTree
  <2>2. record' = record
    BY <1>3 DEF SaveCursor, TerminalObserved, ReplyInvalid, CloseTurn, ValidateTree
  <2> QED BY <1>0, <1>1, <1>2, <2>1, <2>2 DEF KeepsStep
<1>4. CASE ReadTerminal(p)
  <2> DEFINE n == IF intent.phase < Observed THEN Observed ELSE intent.phase
             j == [intent EXCEPT !.phase = n, !.reply = goal[p]]
  <2>1. ASSUME intent # NoIntent PROVE Beyond(j)
    <3>1. j.session = intent.session /\ j.phase = n
      BY <1>0, <2>1 DEF IntentType
    <3>2. n # 1 /\ n # 2
      BY <1>0, <2>1 DEF IntentType
    <3> HIDE DEF j, n
    <3> QED BY <1>0, <2>1, <3>1, <3>2 DEF Beyond
  <2>2. intent' = intent /\ record' = record /\ held'[p] = IF intent = NoIntent THEN NoIntent ELSE j
    BY <1>0, <1>4, Domains DEF ReadTerminal
  <2> HIDE DEF j
  <2> QED BY <1>0, <1>2, <2>1, <2>2 DEF KeepsStep
<1>5. CASE PersistCommitted(p)
  <2> DEFINE i == InPhase(p, Committed)
             j == [i EXCEPT !.commit = made[p]]
  <2>1. ASSUME held[p] # NoIntent PROVE Beyond(j)
    <3>1. i \in IntentType /\ Beyond(i) /\ i # NoIntent
      BY <1>1, <2>1, NoIntentIsNone
    <3> HIDE DEF i
    <3>2. j.session = i.session /\ j.phase = i.phase
      BY <3>1 DEF IntentType
    <3> HIDE DEF j
    <3> QED BY <3>1, <3>2 DEF Beyond
  <2>2. /\ record' = record
        /\ \/ intent' = intent /\ held'[p] = held[p]
           \/ held[p] # NoIntent /\ intent' = j /\ held'[p] = j
    BY <1>0, <1>5, Domains DEF PersistCommitted
  <2> HIDE DEF j
  <2> QED BY <1>0, <1>2, <2>1, <2>2 DEF KeepsStep
<1>6. CASE PatchTerminal(p)
  <2>1. intent' = intent /\ held' = held
    BY <1>6 DEF PatchTerminal
  <2>2. record \in RecordType
    BY <1>0 DEF Kept, TypeOK
  <2>3. record' # NoRecord
    BY <1>6, <2>2, NoRecordIsNone, FinalizeRecord, <1>0 DEF PatchTerminal, PatchRecord,
       RecordType, NoRecord
  <2>4. record'.message = record.message /\ record'.session = record.session
          /\ record'.tombstoned = record.tombstoned
    BY <1>6, <2>2 DEF PatchTerminal, PatchRecord, RecordType
  <2> QED BY <1>0, <1>2, <2>1, <2>3, <2>4 DEF KeepsStep, Kept
<1>7. CASE Commit(p) \/ RemoveIntent(p)
  <2>1. record' = record /\ intent' \in {intent, NoIntent} /\ held'[p] \in {held[p], NoIntent}
    BY <1>0, <1>7, Domains DEF Commit, RemoveIntent
  <2> QED BY <1>0, <1>2, <2>1 DEF KeepsStep
<1> QED BY <1>3, <1>4, <1>5, <1>6, <1>7 DEF Finalize

LEMMA ReconcileKeeps ==
  ASSUME TurnInv, KeptInv, acked, NEW p \in Operators, Reconcile(p) PROVE KeepsStep(p)
<1>0. /\ pc[p] \in WithIntent => held[p] \in IntentType /\ held[p] # NoIntent
      /\ Beyond(intent) /\ Kept(record) /\ Beyond(held[p]) /\ pc[p] # "tombstone" /\ TypeOK /\ p \in Proc
      /\ pc[p] = "upsert" => then[p] # "end"
      /\ then[p] \in {"end", "resume", "persist", "remove"}
  BY AtAcked, Actors, NoIntentIsNone DEF TurnInv, MemoryInv, TypeOK
<1>1. ~AdoptSession(p) /\ ~CleanStrandedTree(p) /\ ~TombstoneStrand(p)
  BY <1>0 DEF AdoptSession, CleanStrandedTree, TombstoneStrand, Recovering, Beyond, WithIntent
<1>2. pc'[p] # "tombstone"
  BY <1>0, <1>1, Domains DEF Reconcile, ReadIntent, AdoptSession, CleanStrandedTree,
     TombstoneStrand, SessionAnswers, ServerSilent, PromptLanded, PromptMissing, StaleRunning,
     StillRunning, PatchOrInsert, PersistRecovered, AdoptCommit, FinalizeRecovered,
     SettleCommitted, Recovering, Upsert, Resume
<1>3. CASE PersistRecovered(p)
  <2>1. Beyond(InPhase(p, Running))
    BY <1>0, <1>3, PhasedBeyond DEF PersistRecovered, WithIntent
  <2>2. record' = record /\ intent' = held'[p] /\ held'[p] \in {held[p], InPhase(p, Running)}
    BY <1>0, <1>3, Domains DEF PersistRecovered
  <2> QED BY <1>0, <1>2, <2>1, <2>2 DEF KeepsStep
<1>4. CASE AdoptCommit(p)
  <2> DEFINE i == InPhase(p, Committed)
             j == [i EXCEPT !.commit = Len(log)]
  <2>1. i \in IntentType /\ Beyond(i) /\ i # NoIntent
    BY <1>0, <1>4, Phased, PhasedBeyond, NoIntentIsNone DEF AdoptCommit, Recovering, WithIntent
  <2>2. intent' = j /\ held'[p] = j /\ record' = record
    BY <1>0, <1>4, Domains DEF AdoptCommit
  <2> HIDE DEF i
  <2>3. j.session = i.session /\ j.phase = i.phase
    BY <2>1 DEF IntentType
  <2> HIDE DEF j
  <2>4. Beyond(j)
    BY <2>1, <2>3 DEF Beyond
  <2> QED BY <1>0, <1>2, <2>2, <2>4 DEF KeepsStep
<1>5. CASE PatchOrInsert(p)
  <2> DEFINE message == IF held[p].phase = SessionCreated THEN 0 ELSE held[p].message
             state   == IF then[p] = "remove" THEN "idle" ELSE "running"
             m == IF message = 0 THEN record.message ELSE message
             patched == [record EXCEPT !.session = held[p].session, !.state = state,
                                       !.message = m]
  <2>1. record # NoRecord /\ record \in RecordType
    BY <1>0 DEF Kept, TypeOK
  <2>2. record' = patched /\ intent' = intent /\ held' = held
    BY <1>5, <2>1 DEF PatchOrInsert, PatchRecord, InsertRecord
  <2>3. held[p].session # Reserved
    BY <1>0, <1>5 DEF PatchOrInsert, WithIntent, Beyond
  <2>4. m # 0
    BY <1>0 DEF Kept
  <2> HIDE DEF m, state
  <2>5. record'.session = held[p].session /\ record'.message = m
          /\ record'.tombstoned = record.tombstoned
    BY <2>1, <2>2 DEF RecordType
  <2>6. record' # NoRecord
    <3>1. DOMAIN record' = DOMAIN record /\ "tree" \in DOMAIN record
      BY <2>1, <2>2 DEF RecordType
    <3>2. "tree" \notin DOMAIN NoRecord
      BY DEF NoRecord
    <3> QED BY <3>1, <3>2
  <2> QED BY <1>0, <1>2, <2>2, <2>3, <2>4, <2>5, <2>6 DEF KeepsStep, Kept
<1>6. CASE SettleCommitted(p)
  <2>1. record # NoRecord /\ record \in RecordType /\ intent' = intent /\ held' = held
    BY <1>0, <1>6 DEF Kept, TypeOK, SettleCommitted
  <2>2. /\ record'.session = record.session /\ record'.message = record.message
        /\ record'.tombstoned = record.tombstoned
        /\ DOMAIN record' = DOMAIN record /\ "tree" \in DOMAIN record
    BY <1>6, <2>1 DEF SettleCommitted, PatchRecord, RecordType
  <2>3. "tree" \notin DOMAIN NoRecord
    BY DEF NoRecord
  <2>4. record' # NoRecord
    BY <2>2, <2>3
  <2> QED BY <1>0, <1>2, <2>1, <2>2, <2>4 DEF KeepsStep, Kept
<1>7. CASE Reconcile(p) /\ ~PersistRecovered(p) /\ ~AdoptCommit(p) /\ ~PatchOrInsert(p) /\ ~SettleCommitted(p)
  <2>1. record' = record /\ intent' = intent /\ held'[p] \in {held[p], intent}
    BY <1>0, <1>1, <1>7, Domains DEF Reconcile, ReadIntent, AdoptSession, CleanStrandedTree,
       TombstoneStrand, SessionAnswers, ServerSilent, PromptLanded, PromptMissing, StaleRunning,
       StillRunning, PatchOrInsert, PersistRecovered, AdoptCommit, FinalizeRecovered,
       SettleCommitted, Recovering, Upsert, Resume
  <2> QED BY <1>0, <1>2, <2>1 DEF KeepsStep
<1> QED BY <1>3, <1>4, <1>5, <1>6, <1>7

LEMMA CommandKeeps ==
  ASSUME TurnInv, KeptInv, acked, NEW p \in Operators, Command(p) PROVE KeepsStep(p)
<1>0. /\ Beyond(intent) /\ Kept(record) /\ Beyond(held[p]) /\ Beyond(NoIntent) /\ TypeOK /\ p \in Proc
      /\ p # Dispatcher
  BY AtAcked, Actors, NoneBeyond DEF TurnInv
<1>1. pc'[p] # "tombstone" /\ intent' = intent
  BY <1>0, Domains DEF Command, Begin, List, Follow, OpenJournal, Message, Queue, AbortSession,
     PatchAborted
<1>2. CASE Message(p)
  <2>1. held'[p] = NewIntent(FALSE, PromptUncertain, record.session, 0) /\ record' = record
    BY <1>0, <1>2, Domains DEF Message
  <2>2. held'[p].phase = 4 /\ held'[p].session = record.session
    BY <2>1 DEF NewIntent
  <2>3. Beyond(held'[p])
    BY <1>0, <2>2 DEF Kept, Beyond
  <2> QED BY <1>0, <1>1, <2>1, <2>3 DEF KeepsStep
<1>3. CASE Queue(p)
  <2>1. held'[p] = NewIntent(FALSE, PromptUncertain, record.session, minted') /\ record' = record
    BY <1>0, <1>3, Domains DEF Queue
  <2>2. held'[p].phase = 4 /\ held'[p].session = record.session
    BY <2>1 DEF NewIntent
  <2>3. Beyond(held'[p])
    BY <1>0, <2>2 DEF Kept, Beyond
  <2> QED BY <1>0, <1>1, <2>1, <2>3 DEF KeepsStep
<1>4. CASE PatchAborted(p)
  <2>1. record # NoRecord /\ record \in RecordType /\ held'[p] = NoIntent
    BY <1>0, <1>4, Domains DEF Kept, TypeOK, PatchAborted
  <2>2. /\ record'.session = record.session /\ record'.message = record.message
        /\ record'.tombstoned = record.tombstoned
        /\ DOMAIN record' = DOMAIN record /\ "tree" \in DOMAIN record
    BY <1>4, <2>1 DEF PatchAborted, PatchRecord, RecordType
  <2>3. "tree" \notin DOMAIN NoRecord
    BY DEF NoRecord
  <2>4. record' # NoRecord
    BY <2>2, <2>3
  <2> QED BY <1>0, <1>1, <2>1, <2>2, <2>4 DEF KeepsStep, Kept
<1>5. CASE Command(p) /\ ~Message(p) /\ ~Queue(p) /\ ~PatchAborted(p)
  <2>1. record' = record /\ held'[p] \in {held[p], intent, NoIntent}
    BY <1>0, <1>5, Domains DEF Command, Begin, List, Follow, OpenJournal, Message, Queue,
       AbortSession, PatchAborted
  <2> QED BY <1>0, <1>1, <2>1 DEF KeepsStep
<1> QED BY <1>2, <1>3, <1>4, <1>5

Launched == {"ready", "prompt", "sent", "confirm", "confirmed", "landed", "ack"}

(* A step of the dispatch before its acknowledgement.                      *)
Launches ==
  /\ pc'[Dispatcher] = "ended" \/ record' = NoRecord \/ ~record'.tombstoned
  /\ pc'[Dispatcher] \in Launched => held'[Dispatcher].session # Reserved
  /\ pc'[Dispatcher] \in {"landed", "ack"} => Beyond(intent') /\ Beyond(held'[Dispatcher])
  /\ pc'[Dispatcher] = "ack" =>
       record' # NoRecord /\ record'.session # Reserved /\ record'.message # 0
  /\ acked' =>
       /\ Beyond(intent') /\ Beyond(held'[Dispatcher]) /\ pc'[Dispatcher] # "tombstone"
       /\ Kept(record')

LEMMA BeforeAck ==
  ASSUME KeptInv, ~DispatchOver
  PROVE  /\ \A o \in Operators : pc[o] = "idle" /\ held[o] = NoIntent
         /\ record = NoRecord \/ ~record.tombstoned
         /\ pc[Dispatcher] \in Launched => held[Dispatcher].session # Reserved
         /\ pc[Dispatcher] \in {"landed", "ack"} => Beyond(intent) /\ Beyond(held[Dispatcher])
         /\ pc[Dispatcher] = "ack" =>
              record # NoRecord /\ record.session # Reserved /\ record.message # 0
BY DEF KeptInv, Launched

LEMMA StartLaunch ==
  ASSUME TypeOK, MemoryInv, DispatcherInv, KeptInv, ~DispatchOver, Start(Dispatcher) PROVE Launches
<1>0. ~acked' /\ (record = NoRecord \/ ~record.tombstoned) /\ Dispatcher \in Proc
  <2>1. ~acked
    BY DEF DispatchOver
  <2>2. acked' = acked
    BY DEF Start, PlanIntent, ReserveRef, CreateTree, CreateTreeFails, StoreTree, PersistReady,
       CreateSession, SubscribeUnreachable, PromptUnreachable, Recreate, FailBeforePrompt,
       CleanTree, CleanIntent, DiscardUnacknowledged
  <2> QED BY <2>1, <2>2, BeforeAck, Actors
<1>1. CASE CreateSession(Dispatcher)
  <2> DEFINE i == InPhase(Dispatcher, SessionCreated)
             j == [i EXCEPT !.session = @ + 1]
  <2>1. held[Dispatcher] \in IntentType
    BY <1>0, <1>1 DEF CreateSession, MemoryInv, WithIntent
  <2>2. i \in IntentType
    BY <1>0, <2>1, Phased
  <2>3. held'[Dispatcher] = j /\ pc'[Dispatcher] = "ready" /\ record' = record
    BY <1>0, <1>1, Domains DEF CreateSession
  <2> HIDE DEF i
  <2>4. j.session = i.session + 1 /\ i.session \in 0..2
    BY <2>2 DEF IntentType
  <2> HIDE DEF j
  <2> QED BY <1>0, <2>3, <2>4 DEF Launches, Reserved
<1>2. CASE Start(Dispatcher) /\ ~CreateSession(Dispatcher)
  <2>1. pc'[Dispatcher] \notin Launched
    BY <1>0, <1>2, Domains DEF Start, PlanIntent, ReserveRef, CreateTree, CreateTreeFails,
       StoreTree, PersistReady, CreateSession, SubscribeUnreachable, PromptUnreachable, Recreate,
       FailBeforePrompt, CleanTree, CleanIntent, DiscardUnacknowledged, Launched
  <2>2. pc'[Dispatcher] = "ended" \/ record' = NoRecord \/ ~record'.tombstoned
    <3>1. CASE ReserveRef(Dispatcher)
      BY <3>1 DEF ReserveRef, InsertRecord, NewRecord
    <3>2. CASE StoreTree(Dispatcher)
      BY <1>0, <3>2 DEF StoreTree, PatchRecord, TypeOK, RecordType
    <3>3. CASE CreateTreeFails(Dispatcher)
      BY <1>0, <3>3, Domains DEF CreateTreeFails
    <3>4. CASE Start(Dispatcher) /\ ~ReserveRef(Dispatcher) /\ ~StoreTree(Dispatcher)
                 /\ ~CreateTreeFails(Dispatcher)
      <4>1. record' \in {record, NoRecord}
        BY <3>4 DEF Start, PlanIntent, ReserveRef, CreateTree, CreateTreeFails, StoreTree,
           PersistReady, CreateSession, SubscribeUnreachable, PromptUnreachable, Recreate,
           FailBeforePrompt, CleanTree, CleanIntent, DiscardUnacknowledged
      <4> QED BY <1>0, <4>1
    <3> QED BY <1>2, <3>1, <3>2, <3>3, <3>4
  <2> QED BY <1>0, <2>1, <2>2 DEF Launches, Launched
<1> QED BY <1>1, <1>2

LEMMA PromptLaunch ==
  ASSUME TypeOK, MemoryInv, DispatcherInv, KeptInv, ~DispatchOver, Prompt(Dispatcher) PROVE Launches
<1>a. ~acked /\ Dispatcher \in Proc /\ cmd[Dispatcher] = "dispatch"
  BY Actors, AtDispatch DEF DispatchOver
<1>b. record = NoRecord \/ ~record.tombstoned
  BY BeforeAck
<1>c. pc[Dispatcher] \in WithIntent => held[Dispatcher] \in IntentType /\ held[Dispatcher] # NoIntent
  BY <1>a, NoIntentIsNone DEF MemoryInv
<1>d. pc[Dispatcher] \in Launched => held[Dispatcher].session # Reserved
  BY BeforeAck
<1>1. CASE PersistUncertain(Dispatcher)
  <2> DEFINE t == IF goal[Dispatcher] = 0 THEN minted + 1 ELSE goal[Dispatcher]
             i == InPhase(Dispatcher, PromptUncertain)
             j == [i EXCEPT !.message = t]
  <2>1. i \in IntentType /\ i.session = held[Dispatcher].session /\ held[Dispatcher].session # Reserved
    BY <1>a, <1>c, <1>d, <1>1, Phased DEF PersistUncertain, WithIntent, Launched
  <2>2. held'[Dispatcher] = j /\ record' = record /\ pc'[Dispatcher] = "prompt" /\ acked' = acked
    BY <1>a, <1>1, Domains DEF PersistUncertain
  <2> HIDE DEF i, t
  <2>3. j.session = i.session
    BY <2>1 DEF IntentType
  <2> HIDE DEF j
  <2> QED BY <1>a, <1>b, <2>1, <2>2, <2>3 DEF Launches
<1>2. CASE PersistRunning(Dispatcher)
  <2> DEFINE i == InPhase(Dispatcher, Running)
  <2>1. held[Dispatcher] \in IntentType /\ held[Dispatcher].session # Reserved
    BY <1>c, <1>d, <1>2 DEF PersistRunning, WithIntent, Launched
  <2>2. i.session = held[Dispatcher].session /\ i.phase = 5
    BY <2>1 DEF InPhase, IntentType
  <2>3. /\ intent' = i /\ held'[Dispatcher] = i /\ record' = record /\ acked' = acked
        /\ pc'[Dispatcher] = "landed"
    BY <1>a, <1>2, Domains DEF PersistRunning
  <2> HIDE DEF i
  <2>4. Beyond(i)
    BY <2>1, <2>2 DEF Beyond
  <2> QED BY <1>a, <1>b, <2>1, <2>2, <2>3, <2>4 DEF Launches
<1>3. CASE WriteRef(Dispatcher)
  <2>1. held[Dispatcher].session # Reserved /\ Beyond(intent) /\ Beyond(held[Dispatcher])
    BY <1>3, BeforeAck DEF WriteRef, Launched
  <2>2. /\ intent' = intent /\ held' = held /\ acked' = acked /\ pc'[Dispatcher] = "ack"
        /\ WriteRecord(Dispatcher, "running")
    BY <1>a, <1>3, Domains DEF WriteRef
  <2>3. goal[Dispatcher] # 0
    BY <1>a, <1>3, TurnIsNat DEF WriteRef, MemoryInv, WithGoal, Turn
  <2>4. /\ record' # NoRecord /\ ~record'.tombstoned
        /\ record'.session # Reserved /\ record'.message # 0
    <3>1. CASE worktree
      <4>1. record \in RecordType /\ ~record.tombstoned
        BY <1>b, <2>2, <3>1 DEF WriteRecord, PatchRecord, TypeOK
      <4>2. record' = [record EXCEPT !.session = held[Dispatcher].session,
                                     !.message = goal[Dispatcher], !.state = "running"]
        BY <2>2, <3>1 DEF WriteRecord, PatchRecord
      <4>3. /\ record'.session = held[Dispatcher].session /\ record'.message = goal[Dispatcher]
            /\ record'.tombstoned = record.tombstoned
            /\ DOMAIN record' = DOMAIN record /\ "tree" \in DOMAIN record
        BY <4>1, <4>2 DEF RecordType
      <4>4. "tree" \notin DOMAIN NoRecord
        BY DEF NoRecord
      <4>5. record' # NoRecord
        BY <4>3, <4>4
      <4> QED BY <2>1, <2>3, <4>1, <4>3, <4>5
    <3>2. CASE ~worktree
      <4>1. record' = NewRecord(held[Dispatcher].session, goal[Dispatcher], "running")
        BY <2>2, <3>2 DEF WriteRecord, InsertRecord
      <4>2. /\ record'.session = held[Dispatcher].session /\ record'.message = goal[Dispatcher]
            /\ record'.tombstoned = FALSE /\ "tree" \in DOMAIN record'
        BY <4>1 DEF NewRecord
      <4>3. "tree" \notin DOMAIN NoRecord
        BY DEF NoRecord
      <4>4. record' # NoRecord
        BY <4>2, <4>3
      <4> QED BY <2>1, <2>3, <4>2, <4>4
    <3> QED BY <3>1, <3>2
  <2> QED BY <1>a, <2>1, <2>2, <2>4 DEF Launches
<1>4. CASE Acknowledge(Dispatcher)
  <2>1. Beyond(intent) /\ Beyond(held[Dispatcher]) /\ Kept(record)
    BY <1>4, BeforeAck DEF Acknowledge, Kept
  <2>2. /\ intent' = intent /\ held' = held /\ record' = record /\ pc'[Dispatcher] = "waiting"
    BY <1>a, <1>4, Domains DEF Acknowledge
  <2> QED BY <2>1, <2>2 DEF Launches, Launched, Kept
<1>5. CASE PreserveRecord(Dispatcher) \/ PatchMessage(Dispatcher)
  <2>1. pc'[Dispatcher] = "ended" /\ acked' = acked
    BY <1>a, <1>5, Domains DEF PreserveRecord, PatchMessage
  <2> QED BY <1>a, <2>1 DEF Launches, Launched
<1>6. CASE \/ Send(Dispatcher) \/ Accepted(Dispatcher) \/ ResponseLost(Dispatcher)
           \/ MessageFails(Dispatcher) \/ Confirmed(Dispatcher) \/ ConfirmTimesOut(Dispatcher)
           \/ PreserveIntent(Dispatcher)
  <2>1. record' = record /\ acked' = acked /\ pc'[Dispatcher] \notin {"landed", "ack"}
    BY <1>a, <1>6, Domains DEF Send, Accepted, ResponseLost, MessageFails, Confirmed,
       ConfirmTimesOut, PreserveIntent
  <2>2. pc'[Dispatcher] \in Launched => pc[Dispatcher] \in Launched /\ held' = held
    BY <1>a, <1>6, Domains DEF Send, Accepted, ResponseLost, MessageFails, Confirmed,
       ConfirmTimesOut, PreserveIntent, Launched
  <2> QED BY <1>a, <1>b, <1>d, <2>1, <2>2 DEF Launches
<1> QED BY <1>1, <1>2, <1>3, <1>4, <1>5, <1>6 DEF Prompt

LEMMA FinalizeLaunch ==
  ASSUME TypeOK, DispatcherInv, KeptInv, ~DispatchOver, Finalize(Dispatcher) PROVE Launches
<1>1. ~acked /\ Dispatcher \in Proc /\ (record = NoRecord \/ ~record.tombstoned)
  BY Actors, BeforeAck DEF DispatchOver
<1>2. acked' = acked /\ pc'[Dispatcher] \notin Launched
  BY <1>1, AtDispatch, Domains DEF Finalize, SaveCursor, TerminalObserved, Watches,
     ReplyInvalid, ReadTerminal, CloseTurn, ValidateTree, Commit, PersistCommitted, PatchTerminal,
     RemoveIntent, Launched, Settling
<1>3. record' = NoRecord \/ ~record'.tombstoned
  <2>1. CASE PatchTerminal(Dispatcher)
    BY <1>1, <2>1 DEF PatchTerminal, PatchRecord, TypeOK, RecordType
  <2>2. CASE Finalize(Dispatcher) /\ ~PatchTerminal(Dispatcher)
    BY <1>1, <2>2 DEF Finalize, SaveCursor, TerminalObserved, Watches, ReplyInvalid,
       ReadTerminal, CloseTurn, ValidateTree, Commit, PersistCommitted, PatchTerminal, RemoveIntent
  <2> QED BY <2>1, <2>2
<1> QED BY <1>1, <1>2, <1>3 DEF Launches, Launched

(* The cases of a step: before the acknowledgement it is the dispatch's;   *)
(* after it, the ref is kept; and a dispatch that failed acknowledges      *)
(* nothing.                                                                *)
LEMMA LaunchStep ==
  ASSUME TypeOK, KeptInv, ~DispatchOver, OwnPlace(Dispatcher), OwnMemory(Dispatcher), Launches
  PROVE  KeptInv'
<1>1. \A o \in Operators : pc'[o] = "idle" /\ held'[o] = NoIntent
  BY BeforeAck, Domains, Actors DEF OwnPlace, OwnMemory
<1>2. \A p \in Proc : acked' => Beyond(held[p])' /\ pc'[p] # "tombstone"
  BY <1>1, Actors, NoneBeyond DEF Launches, Beyond
<1>3. acked' => AckedIsKept'
  BY DEF Launches, AckedIsKept, Active, Kept
<1>4. ~DispatchOver' /\ record' # NoRecord => ~record'.tombstoned
  BY DEF Launches, DispatchOver
<1>5. acked' => Beyond(intent)'
  BY DEF Launches, Beyond
<1>6. /\ pc'[Dispatcher] \in Launched => held'[Dispatcher].session # Reserved
      /\ pc'[Dispatcher] \in {"landed", "ack"} => Beyond(intent)' /\ Beyond(held[Dispatcher])'
      /\ pc'[Dispatcher] = "ack" =>
           record' # NoRecord /\ record'.session # Reserved /\ record'.message # 0
  BY DEF Launches, Beyond
<1>7. AckedIsKept'
  BY <1>3 DEF AckedIsKept
<1> QED BY <1>1, <1>2, <1>4, <1>5, <1>6, <1>7 DEF KeptInv, Launched

LEMMA KeepStep ==
  ASSUME TypeOK, DispatcherInv', KeptInv, acked, acked' = acked,
         NEW p \in Proc, OwnPlace(p), OwnMemory(p), KeepsStep(p),
         pc'[Dispatcher] \in Acknowledged
  PROVE  KeptInv'
<1>1. \A q \in Proc \ {p} : pc'[q] = pc[q] /\ held'[q] = held[q]
  BY Domains DEF OwnPlace, OwnMemory
<1>2. ASSUME NEW q \in Proc PROVE Beyond(held[q])' /\ pc'[q] # "tombstone"
  <2>1. CASE q = p
    BY <2>1 DEF KeepsStep, Beyond
  <2>2. CASE q # p
    BY <1>1, <2>2, AtAcked DEF Beyond
  <2> QED BY <2>1, <2>2
<1>3. Beyond(intent)' /\ AckedIsKept'
  BY DEF KeepsStep, Beyond, AckedIsKept, Active, Kept
<1>4. DispatchOver' /\ pc'[Dispatcher] \notin Launched
  BY DEF DispatchOver, Acknowledged, Settling, Launched
<1> QED BY <1>2, <1>3, <1>4 DEF KeptInv, Launched

LEMMA FailedStep ==
  ASSUME ~acked', pc'[Dispatcher] = "ended" PROVE KeptInv'
BY DEF KeptInv, DispatchOver, AckedIsKept

(* What a process does, with what another lemma says of it.                *)
Runs(p) == Start(p) \/ Prompt(p) \/ Finalize(p) \/ Reconcile(p) \/ Command(p) \/ Quit(p)

LEMMA RunsOwn == ASSUME TurnInv, NEW p \in Proc, Runs(p) PROVE OwnPlace(p) /\ OwnMemory(p)
<1>1. TypeOK /\ MemoryInv
  BY DEF TurnInv
<1>2. CASE Quit(p)
  BY <1>1, <1>2, Domains DEF Quit, OwnPlace, OwnMemory, Places
<1> QED BY <1>1, <1>2, StartOwn, PromptOwn, FinalizeOwn, ReconcileOwn, CommandOwn DEF Runs

LEMMA OnlyDispatch ==
  ASSUME TurnInv, KeptInv, ~Overlap, ~DispatchOver, NEW p \in Proc, Runs(p) PROVE p = Dispatcher
<1> SUFFICES ASSUME p \in Operators PROVE FALSE
  BY Actors
<1>1. pc[p] = "idle" /\ DispatcherInv /\ p # Dispatcher
  BY BeforeAck, Actors DEF TurnInv
<1>2. CASE Start(p)
  BY <1>1, <1>2, StartActor
<1>3. CASE Prompt(p)
  BY <1>1, <1>3 DEF Prompt, PersistUncertain, Send, Accepted, ResponseLost, MessageFails,
     Confirmed, ConfirmTimesOut, PreserveIntent, PreserveRecord, PersistRunning, WriteRef,
     Acknowledge, PatchMessage
<1>4. CASE Finalize(p)
  BY <1>1, <1>4 DEF Finalize, SaveCursor, TerminalObserved, Watches, ReplyInvalid, ReadTerminal,
     CloseTurn, ValidateTree, Commit, PersistCommitted, PatchTerminal, RemoveIntent
<1>5. CASE Reconcile(p)
  BY <1>1, <1>5 DEF Reconcile, ReadIntent, AdoptSession, CleanStrandedTree, TombstoneStrand,
     SessionAnswers, ServerSilent, PromptLanded, PromptMissing, StaleRunning, StillRunning,
     PatchOrInsert, PersistRecovered, AdoptCommit, FinalizeRecovered, SettleCommitted, Recovering,
     Upsert, Resume
<1>6. CASE Command(p)
  BY <1>1, <1>6 DEF Command, Begin, List, Follow, OpenJournal, Message, Queue, AbortSession,
     PatchAborted
<1>7. CASE Quit(p)
  BY <1>1, <1>7 DEF Quit
<1> QED BY <1>2, <1>3, <1>4, <1>5, <1>6, <1>7 DEF Runs

LEMMA DispatchLaunch ==
  ASSUME TurnInv, KeptInv, ~DispatchOver, Runs(Dispatcher) PROVE Launches
<1>1. TypeOK /\ MemoryInv /\ DispatcherInv
  BY DEF TurnInv
<1>2. CASE Quit(Dispatcher)
  <2>1. pc'[Dispatcher] = "ended" /\ acked' = acked /\ ~acked
    BY <1>1, <1>2, Actors, Domains DEF Quit, DispatchOver
  <2> QED BY <2>1 DEF Launches, Launched
<1>3. ~Reconcile(Dispatcher) /\ ~Command(Dispatcher)
  BY <1>1, Actors, ReconcileActor, CommandActor
<1> QED BY <1>1, <1>2, <1>3, StartLaunch, PromptLaunch, FinalizeLaunch DEF Runs

LEMMA AckedStays ==
  ASSUME TurnInv, acked, NEW p \in Proc, Runs(p) PROVE acked' = acked /\ ~Start(p) /\ (p = Dispatcher => ~Prompt(p))
<1>1. pc[Dispatcher] \in Acknowledged /\ DispatcherInv
  BY AtDispatch DEF TurnInv
<1>2. ~Start(p)
  <2> SUFFICES ASSUME Start(p) PROVE FALSE
    OBVIOUS
  <2>1. p = Dispatcher
    BY <1>1, StartActor
  <2> QED BY <1>1, <2>1 DEF Start, PlanIntent, ReserveRef, CreateTree, CreateTreeFails,
       StoreTree, PersistReady, CreateSession, SubscribeUnreachable, PromptUnreachable, Recreate,
       FailBeforePrompt, CleanTree, CleanIntent, DiscardUnacknowledged, Acknowledged, Settling
<1>3. p = Dispatcher => ~Prompt(p)
  BY <1>1 DEF Prompt, PersistUncertain, Send, Accepted, ResponseLost, MessageFails, Confirmed,
     ConfirmTimesOut, PreserveIntent, PreserveRecord, PersistRunning, WriteRef, Acknowledge,
     PatchMessage, Acknowledged, Settling
<1>4. acked' = acked
  <2>1. CASE Prompt(p)
    <3>1. pc[p] \notin Alien
      BY <1>1, <1>3, <2>1, Actors, AtDispatch
    <3> QED BY <2>1, <3>1 DEF Prompt, PersistUncertain, Send, Accepted, ResponseLost,
         MessageFails, Confirmed, ConfirmTimesOut, PreserveIntent, PreserveRecord, PersistRunning,
         WriteRef, Acknowledge, PatchMessage, Alien, Unacknowledged, Shared
  <2>2. CASE Finalize(p)
    BY <2>2 DEF Finalize, SaveCursor, TerminalObserved, Watches, ReplyInvalid, ReadTerminal,
       CloseTurn, ValidateTree, Commit, PersistCommitted, PatchTerminal, RemoveIntent
  <2>3. CASE Reconcile(p)
    BY <2>3 DEF Reconcile, ReadIntent, AdoptSession, CleanStrandedTree, TombstoneStrand,
       SessionAnswers, ServerSilent, PromptLanded, PromptMissing, StaleRunning, StillRunning,
       PatchOrInsert, PersistRecovered, AdoptCommit, FinalizeRecovered, SettleCommitted,
       Recovering, Upsert, Resume
  <2>4. CASE Command(p)
    BY <2>4 DEF Command, Begin, List, Follow, OpenJournal, Message, Queue, AbortSession,
       PatchAborted
  <2>5. CASE Quit(p)
    BY <2>5 DEF Quit
  <2> QED BY <1>2, <2>1, <2>2, <2>3, <2>4, <2>5 DEF Runs
<1> QED BY <1>2, <1>3, <1>4

LEMMA RunsKeep ==
  ASSUME TurnInv, KeptInv, acked, NEW p \in Proc, Runs(p) PROVE KeepsStep(p)
<1>1. DispatcherInv /\ TypeOK
  BY DEF TurnInv
<1>2. CASE Prompt(p)
  BY <1>2, AckedStays, Actors, PromptKeeps
<1>3. CASE Finalize(p)
  BY <1>3, FinalizeKeeps
<1>4. CASE Reconcile(p)
  BY <1>1, <1>4, ReconcileActor, ReconcileKeeps
<1>5. CASE Command(p)
  BY <1>1, <1>5, CommandActor, CommandKeeps
<1>6. CASE Quit(p)
  <2>1. intent' = intent /\ record' = record /\ held'[p] = NoIntent /\ pc'[p] \in {"idle", "ended"}
    BY <1>1, <1>6, Domains DEF Quit
  <2> QED BY <2>1, AtAcked, NoneBeyond DEF KeepsStep
<1> QED BY <1>2, <1>3, <1>4, <1>5, <1>6, AckedStays DEF Runs

LEMMA FailedRuns ==
  ASSUME TurnInv, ~acked, pc[Dispatcher] = "ended", NEW p \in Proc, Runs(p)
  PROVE  p \in Operators /\ ~acked' /\ pc'[Dispatcher] = "ended"
<1>1. TypeOK /\ DispatcherInv
  BY DEF TurnInv
<1>2. p \in Operators
  <2> SUFFICES ASSUME p = Dispatcher PROVE FALSE
    BY Actors
  <2>1. ~Reconcile(p) /\ ~Command(p)
    BY <1>1, Actors, ReconcileActor, CommandActor
  <2>2. ~Start(p)
    BY DEF Start, PlanIntent, ReserveRef, CreateTree, CreateTreeFails, StoreTree, PersistReady,
       CreateSession, SubscribeUnreachable, PromptUnreachable, Recreate, FailBeforePrompt,
       CleanTree, CleanIntent, DiscardUnacknowledged
  <2>3. ~Prompt(p)
    BY DEF Prompt, PersistUncertain, Send, Accepted, ResponseLost, MessageFails, Confirmed,
       ConfirmTimesOut, PreserveIntent, PreserveRecord, PersistRunning, WriteRef, Acknowledge,
       PatchMessage
  <2>4. ~Finalize(p) /\ ~Quit(p)
    BY DEF Finalize, SaveCursor, TerminalObserved, Watches, ReplyInvalid, ReadTerminal,
       CloseTurn, ValidateTree, Commit, PersistCommitted, PatchTerminal, RemoveIntent, Quit
  <2> QED BY <2>1, <2>2, <2>3, <2>4 DEF Runs
<1>3. p # Dispatcher /\ pc[p] \notin Alien
  BY <1>1, <1>2, Actors, AtDispatch
<1>4. pc'[Dispatcher] = pc[Dispatcher]
  BY <1>1, <1>3, RunsOwn, Domains, Actors DEF OwnPlace
<1>5. acked' = acked
  <2>1. CASE Start(p)
    BY <1>1, <1>3, <2>1, StartActor
  <2>2. CASE Prompt(p)
    BY <1>3, <2>2 DEF Prompt, PersistUncertain, Send, Accepted, ResponseLost, MessageFails,
       Confirmed, ConfirmTimesOut, PreserveIntent, PreserveRecord, PersistRunning, WriteRef,
       Acknowledge, PatchMessage, Alien, Unacknowledged, Shared, Settling
  <2>3. CASE Finalize(p)
    BY <2>3 DEF Finalize, SaveCursor, TerminalObserved, Watches, ReplyInvalid, ReadTerminal,
       CloseTurn, ValidateTree, Commit, PersistCommitted, PatchTerminal, RemoveIntent
  <2>4. CASE Reconcile(p)
    BY <2>4 DEF Reconcile, ReadIntent, AdoptSession, CleanStrandedTree, TombstoneStrand,
       SessionAnswers, ServerSilent, PromptLanded, PromptMissing, StaleRunning, StillRunning,
       PatchOrInsert, PersistRecovered, AdoptCommit, FinalizeRecovered, SettleCommitted,
       Recovering, Upsert, Resume
  <2>5. CASE Command(p)
    BY <2>5 DEF Command, Begin, List, Follow, OpenJournal, Message, Queue, AbortSession,
       PatchAborted
  <2>6. CASE Quit(p)
    BY <2>6 DEF Quit
  <2> QED BY <2>1, <2>2, <2>3, <2>4, <2>5, <2>6 DEF Runs
<1> QED BY <1>2, <1>4, <1>5

LEMMA InitKept == Init => KeptInv
BY Actors DEF Init, KeptInv, AckedIsKept, DispatchOver, Beyond

LEMMA NextKept == ASSUME ~Overlap PROVE TurnInv /\ TurnInv' /\ KeptInv /\ [Next]_vars => KeptInv'
<1> SUFFICES ASSUME TurnInv, TurnInv', KeptInv, [Next]_vars PROVE KeptInv'
  OBVIOUS
<1>1. ASSUME NEW p \in Proc, Runs(p) PROVE KeptInv'
  <2>0. TypeOK /\ DispatcherInv'
    BY DEF TurnInv
  <2>1. CASE ~DispatchOver
    <3>1. p = Dispatcher
      BY <1>1, <2>1, OnlyDispatch
    <3> QED BY <1>1, <2>0, <2>1, <3>1, RunsOwn, DispatchLaunch, LaunchStep
  <2>2. CASE acked
    <3>1. acked' = acked /\ KeepsStep(p) /\ OwnPlace(p) /\ OwnMemory(p)
      BY <1>1, <2>2, AckedStays, RunsKeep, RunsOwn
    <3>2. pc'[Dispatcher] \in Acknowledged
      BY <2>0, <2>2, <3>1 DEF DispatcherInv
    <3> QED BY <2>0, <2>2, <3>1, <3>2, KeepStep
  <2>3. CASE ~acked /\ pc[Dispatcher] = "ended"
    BY <1>1, <2>3, FailedRuns, FailedStep
  <2> QED BY <2>1, <2>2, <2>3 DEF DispatchOver
<1>2. ASSUME UNCHANGED <<record, intent, acked, pc, held>> PROVE KeptInv'
  BY <1>2 DEF KeptInv, DispatchOver, Beyond, AckedIsKept, Active
<1>3. ASSUME NEW t \in Turn, Admit(t) \/ Drop(t) \/ Reply(t) \/ Fail(t) \/ Edit(t) PROVE KeptInv'
  <2>1. UNCHANGED <<record, intent, acked, pc, held>>
    BY <1>3 DEF Admit, Drop, Reply, Fail, Edit, Serve
  <2> QED BY <1>2, <2>1
<1>4. CASE UNCHANGED vars
  BY <1>2, <1>4 DEF vars
<1> QED BY <1>1, <1>3, <1>4 DEF Next, Runs

(* Without such an `ls`, the invariant of an acknowledged ref holds in     *)
(* every reachable state.                                                  *)
THEOREM KeptInvariant == ASSUME ~Overlap PROVE Spec => []KeptInv
<1>1. TurnInv /\ TurnInv' /\ KeptInv /\ [Next]_vars => KeptInv'
  BY NextKept
<1> QED BY <1>1, InitKept, TurnInvariant, PTL DEF Spec

-----------------------------------------------------------------------------
(* TraceInv: with operators that list, follow and abort, and no `ls` that  *)
(* meets a live dispatch, an admitted message can be found again.          *)

(* A step of p names no message but the dispatch's.                        *)
Single(p) ==
  /\ record' # NoRecord => record'.message \in {0, 1}
  /\ OneNamed(intent') /\ OneNamed(held'[p])

LEMMA NoneNamed == OneNamed(NoIntent)
BY DEF OneNamed

LEMMA PhasedNamed ==
  ASSUME NEW i \in IntentType, OneNamed(i), NEW n \in 1..8
  PROVE  /\ [i EXCEPT !.phase = n].message = i.message /\ [i EXCEPT !.phase = n].phase = n
         /\ [i EXCEPT !.phase = n] # NoIntent /\ OneNamed([i EXCEPT !.phase = n])
<1> DEFINE j == [i EXCEPT !.phase = n]
<1>1. j \in IntentType /\ j.message = i.message /\ j.phase = n
  BY DEF IntentType
<1>2. i # NoIntent /\ j # NoIntent
  BY <1>1, NoIntentIsNone
<1> HIDE DEF j
<1>3. OneNamed(j)
  BY <1>1, <1>2 DEF OneNamed
<1> QED BY <1>1, <1>2, <1>3 DEF j

(* What the record and the intents name now.                               *)
LEMMA NamesNow ==
  ASSUME TypeOK, OneMessage, NEW p \in Proc
  PROVE  /\ record # NoRecord => record \in RecordType /\ record.message \in {0, 1}
         /\ OneNamed(intent) /\ OneNamed(held[p]) /\ OneNamed(NoIntent)
         /\ intent # NoIntent => intent \in IntentType
         /\ held[p] # NoIntent => held[p] \in IntentType
BY NoneNamed DEF TypeOK, OneMessage

LEMMA FinalizeSingle ==
  ASSUME TurnInv, OneMessage, NEW p \in Proc, Finalize(p)
  PROVE  Single(p) /\ (Named => Named')
<1>0. TypeOK
  BY DEF TurnInv
<1>1. \A n \in 1..8 : held[p] # NoIntent => OneNamed(InPhase(p, n))
  BY <1>0, NamesNow, PhasedNamed DEF InPhase
<1>3. CASE SaveCursor(p) \/ TerminalObserved(p) \/ ReplyInvalid(p) \/ CloseTurn(p) \/ ValidateTree(p)
  <2>1. \/ intent' = intent /\ held'[p] = held[p]
        \/ /\ held[p] # NoIntent
           /\ \E n \in {5, 6, 7} : intent' = InPhase(p, n) /\ held'[p] \in {NoIntent, InPhase(p, n)}
    BY <1>0, <1>3, Domains DEF SaveCursor, TerminalObserved, ReplyInvalid, CloseTurn, ValidateTree,
       Running, Observed, Validated
  <2>2. record' = record
    BY <1>3 DEF SaveCursor, TerminalObserved, ReplyInvalid, CloseTurn, ValidateTree
  <2> QED BY <1>0, <1>1, <2>1, <2>2, NamesNow DEF Single, Named
<1>4. CASE ReadTerminal(p)
  <2> DEFINE n == IF intent.phase < Observed THEN Observed ELSE intent.phase
             j == [intent EXCEPT !.phase = n, !.reply = goal[p]]
  <2>1. ASSUME intent # NoIntent PROVE OneNamed(j)
    <3>1. intent \in IntentType /\ OneNamed(intent)
      BY <1>0, <2>1, NamesNow
    <3>2. j.message = intent.message
      BY <3>1 DEF IntentType
    <3> HIDE DEF j
    <3> QED BY <2>1, <3>1, <3>2 DEF OneNamed
  <2>2. intent' = intent /\ record' = record /\ held'[p] = IF intent = NoIntent THEN NoIntent ELSE j
    BY <1>0, <1>4, Domains DEF ReadTerminal
  <2> HIDE DEF j
  <2> QED BY <1>0, <2>1, <2>2, NamesNow DEF Single, Named
<1>5. CASE PersistCommitted(p)
  <2> DEFINE i == InPhase(p, Committed)
             j == [i EXCEPT !.commit = made[p]]
  <2>1. ASSUME held[p] # NoIntent PROVE OneNamed(j)
    <3>1. i \in IntentType /\ OneNamed(i) /\ i # NoIntent
      BY <1>0, <1>1, <2>1, NamesNow, Phased, NoIntentIsNone DEF Committed
    <3> HIDE DEF i
    <3>2. j.message = i.message
      BY <3>1 DEF IntentType
    <3> HIDE DEF j
    <3> QED BY <3>1, <3>2 DEF OneNamed
  <2>2. /\ record' = record
        /\ \/ intent' = intent /\ held'[p] = held[p]
           \/ held[p] # NoIntent /\ intent' = j /\ held'[p] = j
    BY <1>0, <1>5, Domains DEF PersistCommitted
  <2> HIDE DEF j
  <2> QED BY <1>0, <2>1, <2>2, NamesNow DEF Single, Named
<1>6. CASE PatchTerminal(p)
  <2>1. intent' = intent /\ held' = held
    BY <1>6 DEF PatchTerminal
  <2>2. record # NoRecord /\ record \in RecordType
    BY <1>0, <1>6, NamesNow DEF PatchTerminal, PatchRecord
  <2>3. record'.message = record.message /\ DOMAIN record' = DOMAIN record /\ "tree" \in DOMAIN record
    BY <1>6, <2>2 DEF PatchTerminal, PatchRecord, RecordType
  <2>4. record' # NoRecord
    BY <2>3 DEF NoRecord
  <2> QED BY <1>0, <2>1, <2>2, <2>3, <2>4, NamesNow DEF Single, Named
<1>7. CASE Commit(p) \/ RemoveIntent(p)
  <2>1. record' = record /\ intent' \in {intent, NoIntent} /\ held'[p] \in {held[p], NoIntent}
    BY <1>0, <1>7, Domains DEF Commit, RemoveIntent
  <2> QED BY <1>0, <2>1, NamesNow DEF Single, Named
<1> QED BY <1>3, <1>4, <1>5, <1>6, <1>7 DEF Finalize

LEMMA ReconcileSingle ==
  ASSUME TurnInv, OneMessage, NEW p \in Proc, Reconcile(p)
  PROVE  Single(p) /\ (Named => Named')
<1>0. /\ TypeOK
      /\ pc[p] \in WithIntent => held[p] \in IntentType /\ held[p] # NoIntent
  BY NoIntentIsNone DEF TurnInv, MemoryInv
<1>1. CASE PersistRecovered(p) \/ AdoptSession(p) \/ AdoptCommit(p)
  <2>1. held[p] \in IntentType /\ record' = record
    BY <1>0, <1>1 DEF PersistRecovered, AdoptSession, AdoptCommit, Recovering, WithIntent
  <2>2. OneNamed(held[p]) /\ OneNamed(intent)
    BY <1>0, NamesNow
  <2>3. \A n \in 1..8 : /\ OneNamed(InPhase(p, n)) /\ InPhase(p, n) \in IntentType
    BY <2>1, <2>2, PhasedNamed, Phased DEF InPhase
  <2>4. CASE PersistRecovered(p)
    <3>1. intent' = held'[p] /\ held'[p] \in {held[p], InPhase(p, 5)}
      BY <1>0, <2>4, Domains DEF PersistRecovered, Running
    <3> QED BY <1>0, <2>1, <2>2, <2>3, <3>1, NamesNow DEF Single, Named
  <2>5. CASE AdoptSession(p)
    <3> DEFINE i == InPhase(p, SessionCreated)
               j == [i EXCEPT !.session = record.session]
    <3>1. i \in IntentType /\ OneNamed(i) /\ i # NoIntent
      BY <2>3, NoIntentIsNone DEF SessionCreated
    <3>2. intent' = intent /\ held'[p] = j
      BY <1>0, <2>5, Domains DEF AdoptSession
    <3> HIDE DEF i
    <3>3. j.message = i.message
      BY <3>1 DEF IntentType
    <3> HIDE DEF j
    <3>4. OneNamed(j)
      BY <3>1, <3>3 DEF OneNamed
    <3> QED BY <1>0, <2>1, <2>2, <3>2, <3>4, NamesNow DEF Single, Named
  <2>6. CASE AdoptCommit(p)
    <3> DEFINE i == InPhase(p, Committed)
               j == [i EXCEPT !.commit = Len(log)]
    <3>1. i \in IntentType /\ OneNamed(i) /\ i # NoIntent
      BY <2>3, NoIntentIsNone DEF Committed
    <3>2. intent' = j /\ held'[p] = j
      BY <1>0, <2>6, Domains DEF AdoptCommit
    <3> HIDE DEF i
    <3>3. j.message = i.message
      BY <3>1 DEF IntentType
    <3> HIDE DEF j
    <3>4. OneNamed(j)
      BY <3>1, <3>3 DEF OneNamed
    <3> QED BY <1>0, <2>1, <3>2, <3>4, NamesNow DEF Single, Named
  <2> QED BY <1>1, <2>4, <2>5, <2>6
<1>2. CASE PatchOrInsert(p)
  <2> DEFINE message == IF held[p].phase = SessionCreated THEN 0 ELSE held[p].message
             state   == IF then[p] = "remove" THEN "idle" ELSE "running"
             m == IF message = 0 THEN record.message ELSE message
  <2>1. /\ pc[p] = "upsert" /\ intent' = intent /\ held' = held
        /\ \/ /\ record # NoRecord
              /\ record' = [record EXCEPT !.session = held[p].session, !.state = state, !.message = m]
           \/ record = NoRecord /\ record' = NewRecord(held[p].session, message, state)
    BY <1>2 DEF PatchOrInsert, PatchRecord, InsertRecord
  <2>2. message \in {0, 1}
    BY <1>0, <2>1, NamesNow DEF WithIntent, OneNamed
  <2> HIDE DEF message, state
  <2>3. CASE record # NoRecord
    <3>1. record \in RecordType /\ record.message \in {0, 1}
      BY <1>0, <2>3, NamesNow
    <3>2. m \in {0, 1} /\ (record.message = 1 => m = 1)
      BY <2>2, <3>1
    <3> HIDE DEF m
    <3>3. record'.message = m /\ DOMAIN record' = DOMAIN record /\ "tree" \in DOMAIN record
      BY <2>1, <2>3, <3>1 DEF RecordType
    <3>4. record' # NoRecord
      BY <3>3 DEF NoRecord
    <3> QED BY <1>0, <2>1, <3>2, <3>3, <3>4, NamesNow DEF Single, Named
  <2>4. CASE record = NoRecord
    <3>1. record'.message = message
      BY <2>1, <2>4 DEF NewRecord
    <3> QED BY <1>0, <2>1, <2>2, <2>4, <3>1, NamesNow DEF Single, Named
  <2> QED BY <2>3, <2>4
<1>3. CASE SettleCommitted(p) \/ TombstoneStrand(p)
  <2>1. intent' = intent /\ held' = held
    BY <1>3 DEF SettleCommitted, TombstoneStrand
  <2>2. CASE record = NoRecord
    <3>1. record' = record
      BY <1>3, <2>2 DEF SettleCommitted, TombstoneStrand, PatchRecord
    <3> QED BY <1>0, <2>1, <3>1, NamesNow DEF Single, Named
  <2>3. CASE record # NoRecord
    <3>1. record \in RecordType
      BY <1>0, <2>3, NamesNow
    <3>2. record'.message = record.message /\ DOMAIN record' = DOMAIN record /\ "tree" \in DOMAIN record
      <4>1. CASE SettleCommitted(p)
        BY <2>3, <3>1, <4>1 DEF SettleCommitted, PatchRecord, RecordType
      <4>2. CASE TombstoneStrand(p)
        BY <2>3, <3>1, <4>2 DEF TombstoneStrand, RecordType
      <4> QED BY <1>3, <4>1, <4>2
    <3>3. record' # NoRecord
      BY <3>2 DEF NoRecord
    <3> QED BY <1>0, <2>1, <2>3, <3>2, <3>3, NamesNow DEF Single, Named
  <2> QED BY <2>2, <2>3
<1>4. CASE /\ Reconcile(p) /\ ~PersistRecovered(p) /\ ~AdoptSession(p) /\ ~AdoptCommit(p)
           /\ ~PatchOrInsert(p) /\ ~SettleCommitted(p) /\ ~TombstoneStrand(p)
  <2>1. record' = record /\ intent' = intent /\ held'[p] \in {held[p], intent}
    BY <1>0, <1>4, Domains DEF Reconcile, ReadIntent, CleanStrandedTree,
       SessionAnswers, ServerSilent, PromptLanded, PromptMissing, StaleRunning,
       StillRunning, FinalizeRecovered, Recovering, Upsert, Resume
  <2> QED BY <1>0, <2>1, NamesNow DEF Single, Named
<1> QED BY <1>1, <1>2, <1>3, <1>4

(* Operators that only ask never send a message, and never hold the place  *)
(* of a command that does.                                                 *)
LEMMA QueryNow ==
  ASSUME TurnInv, QueryInv, NEW p \in Operators
  PROVE  /\ p \in Proc /\ p # Dispatcher /\ TypeOK /\ DispatcherInv
         /\ cmd[p] \in Queries \cup {"none"} /\ pc[p] \notin Senders /\ pc[p] \notin Alien
BY Actors, AtDispatch DEF TurnInv, QueryInv

LEMMA QueryRuns ==
  ASSUME TurnInv, QueryInv, NEW p \in Operators, Runs(p)
  PROVE  Finalize(p) \/ Reconcile(p) \/ Command(p) \/ Quit(p)
<1>1. ~Start(p)
  BY QueryNow, StartActor
<1>2. ~Prompt(p)
  BY QueryNow DEF Prompt, PersistUncertain, Send, Accepted, ResponseLost, MessageFails,
     Confirmed, ConfirmTimesOut, PreserveIntent, PreserveRecord, PersistRunning, WriteRef,
     Acknowledge, PatchMessage, Senders, Alien, Unacknowledged, Shared, Settling, Queries
<1> QED BY <1>1, <1>2 DEF Runs

LEMMA QueryCommand ==
  ASSUME TurnInv, QueryInv, Allowed \subseteq Queries, NEW p \in Operators, Command(p)
  PROVE  \/ \E c \in Queries : Begin(p, c)
         \/ List(p) \/ Follow(p) \/ OpenJournal(p) \/ AbortSession(p) \/ PatchAborted(p)
<1>1. ~Message(p) /\ ~Queue(p)
  BY QueryNow DEF Message, Queue, Senders, Queries
<1> QED BY <1>1 DEF Command

LEMMA QueryStep ==
  ASSUME TurnInv, QueryInv, Allowed \subseteq Queries, NEW p \in Operators, Runs(p)
  PROVE  cmd'[p] \in Queries \cup {"none"} /\ pc'[p] \notin Senders
<1>0. TypeOK /\ p \in Proc /\ p # Dispatcher /\ cmd[p] \in Queries \cup {"none"}
  BY QueryNow
<1>1. CASE Finalize(p)
  BY <1>0, <1>1, Domains DEF Finalize, SaveCursor, TerminalObserved, Watches, ReplyInvalid,
     ReadTerminal, CloseTurn, ValidateTree, Commit, PersistCommitted, PatchTerminal,
     RemoveIntent, Senders, Queries
<1>2. CASE Reconcile(p)
  <2>1. then[p] \in {"end", "resume", "persist", "remove"}
    BY <1>0, Own
  <2> QED BY <1>0, <1>2, <2>1, Domains DEF Reconcile, ReadIntent, AdoptSession,
       CleanStrandedTree, TombstoneStrand, SessionAnswers, ServerSilent, PromptLanded,
       PromptMissing, StaleRunning, StillRunning, PatchOrInsert, PersistRecovered, AdoptCommit,
       FinalizeRecovered, SettleCommitted, Recovering, Upsert, Resume, Senders
<1>3. CASE Command(p)
  BY <1>0, <1>3, QueryCommand, Domains DEF Begin, List, Follow, OpenJournal, AbortSession,
     PatchAborted, Senders, Queries
<1>4. CASE Quit(p)
  BY <1>0, <1>4, Domains DEF Quit, Senders
<1> QED BY <1>1, <1>2, <1>3, <1>4, QueryRuns

(* What was lost stays lost while operators only ask.                      *)
LEMMA QueryLost ==
  ASSUME TurnInv, QueryInv, Allowed \subseteq Queries, NEW p \in Operators, Runs(p), Lost
  PROVE  Lost'
<1>1. 1 \in Turn /\ TypeOK
  BY BoundAssumption, QueryNow DEF Turn
<1>2. CASE Finalize(p)
  BY <1>2 DEF Finalize, SaveCursor, TerminalObserved, Watches, ReplyInvalid, ReadTerminal,
     CloseTurn, ValidateTree, Commit, PersistCommitted, PatchTerminal, RemoveIntent, Lost
<1>3. CASE Reconcile(p)
  BY <1>3 DEF Reconcile, ReadIntent, AdoptSession, CleanStrandedTree, TombstoneStrand,
     SessionAnswers, ServerSilent, PromptLanded, PromptMissing, StaleRunning, StillRunning,
     PatchOrInsert, PersistRecovered, AdoptCommit, FinalizeRecovered, SettleCommitted,
     Recovering, Upsert, Resume, Lost
<1>4. CASE Command(p)
  <2>1. CASE AbortSession(p)
    BY <1>1, <2>1 DEF AbortSession, Lost
  <2>2. CASE ~AbortSession(p)
    BY <1>4, <2>2, QueryCommand DEF Begin, List, Follow, OpenJournal, PatchAborted, Lost
  <2> QED BY <2>1, <2>2
<1>5. CASE Quit(p)
  BY <1>5 DEF Quit, Lost
<1> QED BY <1>2, <1>3, <1>4, <1>5, QueryRuns

LEMMA CommandSingle ==
  ASSUME TurnInv, QueryInv, Allowed \subseteq Queries, OneMessage, NEW p \in Operators, Command(p)
  PROVE  Single(p) /\ (Named => Named')
<1>0. TypeOK /\ p \in Proc
  BY QueryNow
<1>1. CASE PatchAborted(p)
  <2>1. intent' = intent /\ held'[p] = NoIntent
    BY <1>0, <1>1, Domains DEF PatchAborted
  <2>2. record # NoRecord /\ record \in RecordType /\ record' = [record EXCEPT !.state = "aborted"]
    BY <1>0, <1>1, NamesNow DEF PatchAborted, PatchRecord
  <2>3. record'.message = record.message /\ DOMAIN record' = DOMAIN record /\ "tree" \in DOMAIN record
    BY <2>2 DEF RecordType
  <2>4. record' # NoRecord
    BY <2>3 DEF NoRecord
  <2> QED BY <1>0, <2>1, <2>2, <2>3, <2>4, NamesNow DEF Single, Named
<1>2. CASE ~PatchAborted(p)
  <2>1. record' = record /\ intent' = intent /\ held'[p] \in {held[p], intent, NoIntent}
    BY <1>0, <1>2, QueryCommand, Domains DEF Begin, List, Follow, OpenJournal, AbortSession
  <2> QED BY <1>0, <2>1, NamesNow DEF Single, Named
<1> QED BY <1>1, <1>2

LEMMA QuitSingle ==
  ASSUME TurnInv, OneMessage, NEW p \in Proc, Quit(p) PROVE Single(p) /\ (Named => Named')
<1>1. record' = record /\ intent' = intent /\ held'[p] = NoIntent /\ TypeOK
  BY Domains DEF Quit, TurnInv
<1> QED BY <1>1, NamesNow DEF Single, Named

(* What a step of a dispatch that is not acknowledged leads to: it goes on, *)
(* or it has ended, and then its message is lost, named by the record, or   *)
(* named by an intent that recovery will find.                              *)
GoesOn ==
  /\ pc'[Dispatcher] \in Unacknowledged /\ Reserving'
  /\ pc'[Dispatcher] \in Sending => Uncertain(intent') /\ Uncertain(held'[Dispatcher])
  /\ pc'[Dispatcher] \in Pending => status'[1] = "unsent"
  /\ pc'[Dispatcher] \in {"cleanup", "cleaned", "discard"} => Lost'
Ends ==
  /\ pc'[Dispatcher] = "ended" \/ acked'
  /\ Lost' \/ Named' \/ (Reserving' /\ Uncertain(intent') /\ held'[Dispatcher] = NoIntent)
SendsStep == Single(Dispatcher) /\ (GoesOn \/ Ends)

LEMMA SendingNow ==
  ASSUME TurnInv, TraceInv, ~DispatchOver
  PROVE  /\ TypeOK /\ Dispatcher \in Proc /\ cmd[Dispatcher] = "dispatch" /\ 1 \in Turn
         /\ pc[Dispatcher] \in Unacknowledged /\ ~acked /\ Reserving
         /\ pc[Dispatcher] \in Sending => Uncertain(intent) /\ Uncertain(held[Dispatcher])
         /\ pc[Dispatcher] \in Pending => status[1] = "unsent"
         /\ pc[Dispatcher] \in {"cleanup", "cleaned", "discard"} => Lost
         /\ pc[Dispatcher] \in WithIntent => held[Dispatcher] \in IntentType /\ held[Dispatcher] # NoIntent
         /\ pc[Dispatcher] \in WithGoal => goal[Dispatcher] = 1
<1>1. /\ TypeOK /\ Dispatcher \in Proc /\ cmd[Dispatcher] = "dispatch" /\ ~acked /\ 1 \in Turn
  BY Actors, AtDispatch, BoundAssumption DEF TurnInv, DispatchOver, Turn
<1>2. goal[Dispatcher] = minted /\ minted <= 1
  BY DEF TurnInv, FirstInv
<1>3. pc[Dispatcher] \in WithGoal => goal[Dispatcher] = 1
  <2>1. minted \in Nat
    BY <1>1, ServerTypes
  <2>2. pc[Dispatcher] \in WithGoal => goal[Dispatcher] \in 1..MaxTurns
    BY <1>1 DEF TurnInv, MemoryInv, Turn
  <2> QED BY <1>2, <2>1, <2>2
<1>4. pc[Dispatcher] \in WithIntent => held[Dispatcher] \in IntentType /\ held[Dispatcher] # NoIntent
  BY <1>1, NoIntentIsNone DEF TurnInv, MemoryInv
<1> QED BY <1>1, <1>3, <1>4 DEF TraceInv, SendingInv

LEMMA InPhaseNamed ==
  ASSUME NEW p \in Proc, held[p] \in IntentType, OneNamed(held[p])
  PROVE  \A n \in 1..8 :
           /\ InPhase(p, n) \in IntentType /\ InPhase(p, n) # NoIntent /\ OneNamed(InPhase(p, n))
           /\ InPhase(p, n).message = held[p].message /\ InPhase(p, n).phase = n
<1> TAKE n \in 1..8
<1>1. InPhase(p, n) = [held[p] EXCEPT !.phase = n]
  BY DEF InPhase
<1>2. InPhase(p, n) \in IntentType
  BY Phased
<1>3. /\ [held[p] EXCEPT !.phase = n].message = held[p].message
      /\ [held[p] EXCEPT !.phase = n].phase = n
      /\ OneNamed([held[p] EXCEPT !.phase = n])
  BY PhasedNamed, Zenon
<1>4. InPhase(p, n) # NoIntent
  BY <1>2, NoIntentIsNone
<1> QED BY <1>1, <1>2, <1>3, <1>4, Zenon

LEMMA NewNamed ==
  ASSUME NEW m \in {0, 1}, NEW n, NEW s, NEW r
  PROVE  OneNamed(NewIntent(r, n, s, m))
BY DEF OneNamed, NewIntent

(* The record when only a field of it that is no name changes.             *)
LEMMA SameNames ==
  ASSUME TypeOK, OneMessage, Reserving, record # NoRecord,
         \/ record' = [record EXCEPT !.tree = TRUE]
         \/ record' = [record EXCEPT !.tombstoned = TRUE]
  PROVE  Reserving' /\ record'.message \in {0, 1}
<1>1. record \in RecordType /\ record.message \in {0, 1}
  BY DEF TypeOK, OneMessage
<1>2. /\ record'.message = record.message /\ record'.state = record.state
      /\ record'.session = record.session
  BY <1>1 DEF RecordType
<1> QED BY <1>1, <1>2 DEF Reserving

LEMMA StartSends ==
  ASSUME TurnInv, TraceInv, ~DispatchOver, Start(Dispatcher) PROVE SendsStep
<1> DEFINE D == Dispatcher
<1>0. TypeOK /\ OneMessage /\ Dispatcher \in Proc
  BY SendingNow DEF TraceInv
<1>1. CASE PlanIntent(D)
  <2>1. pc[D] = "start" /\ pc'[D] = "planned" /\ status' = status /\ record' = record
    BY <1>0, <1>1, Domains DEF PlanIntent
  <2>2. intent' = NewIntent(TRUE, 1, 0, 0) /\ held'[D] = NewIntent(TRUE, 1, 0, 0)
    BY <1>0, <1>1, Domains DEF PlanIntent
  <2>3. Single(D)
    BY <1>0, <2>1, <2>2, NewNamed, NamesNow DEF Single
  <2> QED BY <2>1, <2>3, SendingNow DEF SendsStep, GoesOn, Unacknowledged, Reserving, Pending, Sending
<1>2. CASE ReserveRef(D)
  <2>1. pc[D] = "start" /\ pc'[D] = "reserved" /\ status' = status /\ intent' = intent
    BY <1>0, <1>2, Domains DEF ReserveRef
  <2>2. record' = NewRecord(0, 0, "running") /\ held'[D] = NewIntent(TRUE, 1, 0, 0)
    BY <1>0, <1>2, Domains DEF ReserveRef, InsertRecord, Reserved
  <2>3. record'.message = 0 /\ record'.state = "running" /\ record'.session = 0
    BY <2>2 DEF NewRecord
  <2>4. Single(D)
    BY <1>0, <2>1, <2>2, <2>3, NewNamed, NamesNow DEF Single
  <2> QED BY <2>1, <2>3, <2>4, SendingNow DEF SendsStep, GoesOn, Unacknowledged, Reserving, Reserved, Pending, Sending
<1>3. CASE CreateTree(D)
  <2>1. pc[D] = "reserved" /\ pc'[D] = "treed" /\ status' = status /\ record' = record /\ intent' = intent
    BY <1>0, <1>3, Domains DEF CreateTree
  <2>2. held'[D] = InPhase(D, 2)
    BY <1>0, <1>3, Domains DEF CreateTree
  <2>3. held[D] \in IntentType /\ OneNamed(held[D])
    BY <1>0, <2>1, SendingNow, NamesNow DEF WithIntent
  <2>4. OneNamed(InPhase(D, 2))
    BY <1>0, <2>3, InPhaseNamed
  <2>5. Single(D)
    BY <1>0, <2>1, <2>2, <2>4, NamesNow DEF Single
  <2> QED BY <2>1, <2>5, SendingNow DEF SendsStep, GoesOn, Unacknowledged, Reserving, Pending, Sending
<1>4. CASE CreateTreeFails(D)
  <2>1. pc[D] = "reserved" /\ pc'[D] = "ended" /\ status' = status /\ intent' = NoIntent
        /\ held'[D] = NoIntent
    BY <1>0, <1>4, Domains DEF CreateTreeFails
  <2>2. record # NoRecord /\ record' = [record EXCEPT !.tombstoned = TRUE]
    BY <1>4 DEF CreateTreeFails, PatchRecord
  <2>3. Single(D)
    BY <1>0, <2>1, <2>2, SendingNow, SameNames, NamesNow DEF Single
  <2> QED BY <2>1, <2>3, SendingNow DEF SendsStep, Ends, Lost, Pending
<1>5. CASE StoreTree(D)
  <2>1. pc[D] = "treed" /\ pc'[D] = "stored" /\ status' = status /\ intent' = intent /\ held' = held
    BY <1>0, <1>5, Domains DEF StoreTree
  <2>2. record # NoRecord /\ record' = [record EXCEPT !.tree = TRUE]
    BY <1>5 DEF StoreTree, PatchRecord
  <2>3. Single(D) /\ Reserving'
    BY <1>0, <2>1, <2>2, SendingNow, SameNames, NamesNow DEF Single
  <2> QED BY <2>1, <2>3, SendingNow DEF SendsStep, GoesOn, Unacknowledged, Pending, Sending
<1>6. CASE PersistReady(D)
  <2>1. pc[D] = "stored" /\ pc'[D] = "planned" /\ status' = status /\ record' = record
        /\ intent' = held[D] /\ held'[D] = held[D]
    BY <1>0, <1>6, Domains DEF PersistReady
  <2>2. Single(D)
    BY <1>0, <2>1, NamesNow DEF Single
  <2> QED BY <2>1, <2>2, SendingNow DEF SendsStep, GoesOn, Unacknowledged, Reserving, Pending, Sending
<1>7. CASE CreateSession(D)
  <2> DEFINE i == InPhase(D, 3)
             j == [i EXCEPT !.session = @ + 1]
  <2>1. pc[D] = "planned" /\ pc'[D] = "ready" /\ status' = status /\ record' = record
        /\ intent' = j /\ held'[D] = j
    BY <1>0, <1>7, Domains DEF CreateSession
  <2>2. held[D] \in IntentType /\ OneNamed(held[D])
    BY <1>0, <2>1, SendingNow, NamesNow DEF WithIntent
  <2>3. i \in IntentType /\ i # NoIntent /\ OneNamed(i)
    BY <1>0, <2>2, InPhaseNamed
  <2> HIDE DEF i
  <2>4. j.message = i.message
    BY <2>3 DEF IntentType
  <2> HIDE DEF j
  <2>5. OneNamed(j)
    BY <2>3, <2>4 DEF OneNamed
  <2>6. Single(D)
    BY <1>0, <2>1, <2>5, NamesNow DEF Single
  <2> QED BY <2>1, <2>6, SendingNow DEF SendsStep, GoesOn, Unacknowledged, Reserving, Pending, Sending
<1>8. CASE SubscribeUnreachable(D) \/ PromptUnreachable(D)
  <2>1. pc[D] \in {"ready", "prompt"} /\ pc'[D] = "planned" /\ status' = status /\ record' = record
        /\ intent' = intent /\ held' = held
    BY <1>0, <1>8, Domains DEF SubscribeUnreachable, PromptUnreachable, Recreate
  <2>2. Single(D)
    BY <1>0, <2>1, NamesNow DEF Single
  <2> QED BY <2>1, <2>2, SendingNow DEF SendsStep, GoesOn, Unacknowledged, Reserving, Pending, Sending
<1>9. CASE FailBeforePrompt(D)
  <2>1. pc'[D] = "cleanup" /\ record' = record /\ intent' = intent /\ held' = held
    BY <1>0, <1>9, Domains DEF FailBeforePrompt
  <2>2. Single(D)
    BY <1>0, <2>1, NamesNow DEF Single
  <2>3. Lost'
    <3>1. CASE pc[D] \in {"planned", "ready", "prompt"}
      BY <1>9, <3>1, SendingNow DEF FailBeforePrompt, Lost, Pending
    <3>2. CASE pc[D] = "sent"
      <4>1. status' = [status EXCEPT ![1] = "dropped"]
        BY <1>9, <3>2, SendingNow DEF FailBeforePrompt, WithGoal
      <4> QED BY <1>0, <4>1, SendingNow, ServerTypes DEF Lost
    <3> QED BY <1>9, <3>1, <3>2 DEF FailBeforePrompt
  <2> QED BY <2>1, <2>2, <2>3, SendingNow DEF SendsStep, GoesOn, Unacknowledged, Reserving, Pending, Sending
<1>10. CASE CleanTree(D)
  <2>1. pc[D] = "cleanup" /\ pc'[D] = "cleaned" /\ status' = status /\ record' = record
        /\ intent' = intent /\ held' = held
    BY <1>0, <1>10, Domains DEF CleanTree
  <2>2. Single(D)
    BY <1>0, <2>1, NamesNow DEF Single
  <2> QED BY <2>1, <2>2, SendingNow DEF SendsStep, GoesOn, Unacknowledged, Reserving, Pending, Sending, Lost
<1>11. CASE CleanIntent(D)
  <2>1. pc[D] = "cleaned" /\ pc'[D] = "discard" /\ status' = status /\ record' = record
        /\ intent' = NoIntent /\ held' = held
    BY <1>0, <1>11, Domains DEF CleanIntent
  <2>2. Single(D)
    BY <1>0, <2>1, NamesNow DEF Single
  <2> QED BY <2>1, <2>2, SendingNow DEF SendsStep, GoesOn, Unacknowledged, Reserving, Pending, Sending, Lost
<1>12. CASE DiscardUnacknowledged(D)
  <2>1. pc[D] = "discard" /\ pc'[D] = "ended" /\ status' = status /\ intent' = intent
        /\ record' \in {record, NoRecord} /\ held'[D] = NoIntent
    BY <1>0, <1>12, Domains DEF DiscardUnacknowledged
  <2>2. Single(D)
    BY <1>0, <2>1, NamesNow DEF Single
  <2> QED BY <2>1, <2>2, SendingNow DEF SendsStep, Ends, Lost
<1> QED BY <1>1, <1>2, <1>3, <1>4, <1>5, <1>6, <1>7, <1>8, <1>9, <1>10, <1>11, <1>12 DEF Start

(* What the record of a dispatch is written with names its message.        *)
LEMMA WrittenNames ==
  ASSUME TurnInv, TraceInv, ~DispatchOver, pc[Dispatcher] \in {"preserved", "landed"},
         NEW st, WriteRecord(Dispatcher, st)
  PROVE  record' # NoRecord /\ record'.message = 1
<1>1. goal[Dispatcher] = 1 /\ TypeOK
  BY SendingNow DEF WithGoal
<1>2. CASE worktree
  <2>1. /\ record # NoRecord
        /\ record' = [record EXCEPT !.session = held[Dispatcher].session, !.message = 1, !.state = st]
    BY <1>1, <1>2 DEF WriteRecord, PatchRecord
  <2>2. record \in RecordType
    BY <1>1, <2>1 DEF TypeOK
  <2>3. record'.message = 1 /\ DOMAIN record' = DOMAIN record /\ "tree" \in DOMAIN record
    BY <2>1, <2>2 DEF RecordType
  <2> QED BY <2>3 DEF NoRecord
<1>3. CASE ~worktree
  <2>1. record' = NewRecord(held[Dispatcher].session, 1, st)
    BY <1>1, <1>3 DEF WriteRecord, InsertRecord
  <2>2. record'.message = 1 /\ "tree" \in DOMAIN record'
    BY <2>1 DEF NewRecord
  <2> QED BY <2>2 DEF NoRecord
<1> QED BY <1>2, <1>3

LEMMA PromptSends ==
  ASSUME TurnInv, TurnInv', KeptInv, TraceInv, ~DispatchOver, Prompt(Dispatcher) PROVE SendsStep
<1> DEFINE D == Dispatcher
<1>0. TypeOK /\ OneMessage /\ D \in Proc /\ cmd[D] = "dispatch"
  BY SendingNow DEF TraceInv
<1>1. CASE PersistUncertain(D)
  <2> DEFINE i == InPhase(D, 4)
             j == [i EXCEPT !.message = goal'[D]]
  <2>1. pc[D] = "ready" /\ pc'[D] = "prompt" /\ status' = status /\ record' = record /\ acked' = acked
        /\ intent' = j /\ held'[D] = j
    BY <1>0, <1>1, Domains DEF PersistUncertain
  <2>2. goal'[D] = 1
    <3>1. ~DispatchOver'
      BY <2>1, SendingNow DEF DispatchOver
    <3>2. goal'[D] = minted' /\ minted' <= 1
      BY <3>1 DEF TurnInv, FirstInv
    <3>3. goal'[D] \in 1..MaxTurns
      BY <1>0, <2>1 DEF TurnInv, MemoryInv, WithGoal, Turn
    <3> QED BY <3>2, <3>3
  <2>3. i \in IntentType /\ i # NoIntent /\ i.phase = 4
    BY <1>0, <2>1, SendingNow, NamesNow, InPhaseNamed DEF WithIntent
  <2> HIDE DEF i
  <2>4. j.message = 1 /\ j.phase = 4 /\ DOMAIN j = DOMAIN i /\ "reply" \in DOMAIN i
    BY <2>2, <2>3 DEF IntentType
  <2>5. j # NoIntent
    BY <2>4 DEF NoIntent
  <2> HIDE DEF j
  <2>6. OneNamed(j) /\ Uncertain(j)
    BY <2>4, <2>5 DEF OneNamed, Uncertain
  <2>7. Single(D) /\ Uncertain(intent') /\ Uncertain(held'[D])
    BY <1>0, <2>1, <2>6, NamesNow DEF Single
  <2> QED BY <2>1, <2>7, SendingNow DEF SendsStep, GoesOn, Unacknowledged, Reserving, Pending, Sending
<1>2. CASE Send(D) \/ Accepted(D) \/ ResponseLost(D) \/ Confirmed(D) \/ ConfirmTimesOut(D)
  <2>1. pc[D] \in Sending /\ pc'[D] \in {"sent", "confirm", "confirmed", "preserve"}
        /\ record' = record /\ intent' = intent /\ held' = held
    BY <1>0, <1>2, Domains DEF Send, Accepted, ResponseLost, Confirmed, ConfirmTimesOut, Sending
  <2>2. Single(D)
    BY <1>0, <2>1, NamesNow DEF Single
  <2> QED BY <2>1, <2>2, SendingNow DEF SendsStep, GoesOn, Unacknowledged, Reserving, Pending, Sending
<1>3. CASE PreserveIntent(D) \/ PersistRunning(D)
  <2>1. /\ pc[D] \in {"preserve", "confirmed"} /\ pc'[D] \in {"preserved", "landed"}
        /\ record' = record
        /\ \E n \in {4, 5} : intent' = InPhase(D, n) /\ held'[D] = InPhase(D, n)
    BY <1>0, <1>3, Domains DEF PreserveIntent, PersistRunning
  <2>2. held[D] \in IntentType /\ OneNamed(held[D]) /\ held[D].message = 1
    BY <1>0, <2>1, SendingNow, NamesNow DEF WithIntent, Sending, Uncertain
  <2>3. PICK n \in {4, 5} : intent' = InPhase(D, n) /\ held'[D] = InPhase(D, n)
    BY <2>1
  <2>4. /\ InPhase(D, n) # NoIntent /\ OneNamed(InPhase(D, n))
        /\ InPhase(D, n).message = 1 /\ InPhase(D, n).phase = n
    BY <1>0, <2>2, InPhaseNamed
  <2>5. Uncertain(InPhase(D, n))
    BY <2>4 DEF Uncertain
  <2>6. Single(D) /\ Uncertain(intent') /\ Uncertain(held'[D])
    BY <1>0, <2>1, <2>3, <2>4, <2>5, NamesNow DEF Single
  <2> QED BY <2>1, <2>6, SendingNow DEF SendsStep, GoesOn, Unacknowledged, Reserving, Pending, Sending
<1>4. CASE PreserveRecord(D)
  <2>1. pc[D] = "preserved" /\ pc'[D] = "ended" /\ intent' = intent /\ held'[D] = NoIntent
    BY <1>0, <1>4, Domains DEF PreserveRecord
  <2>2. record' # NoRecord /\ record'.message = 1
    BY <1>4, <2>1, WrittenNames DEF PreserveRecord
  <2>3. Single(D)
    BY <1>0, <2>1, <2>2, NamesNow DEF Single
  <2> QED BY <2>1, <2>2, <2>3 DEF SendsStep, Ends, Named
<1>5. CASE WriteRef(D)
  <2>1. pc[D] = "landed" /\ pc'[D] = "ack" /\ intent' = intent /\ held' = held
    BY <1>0, <1>5, Domains DEF WriteRef
  <2>2. record' # NoRecord /\ record'.message = 1
    BY <1>5, <2>1, WrittenNames DEF WriteRef
  <2>3. Single(D)
    BY <1>0, <2>1, <2>2, NamesNow DEF Single
  <2> QED BY <2>1, <2>2, <2>3 DEF SendsStep, GoesOn, Unacknowledged, Reserving, Pending, Sending
<1>6. CASE Acknowledge(D)
  <2>1. pc[D] = "ack" /\ acked' /\ record' = record /\ intent' = intent /\ held' = held
    BY <1>0, <1>6, Domains DEF Acknowledge
  <2>2. record # NoRecord /\ record.message # 0
    BY <2>1, BeforeAck
  <2>3. Single(D) /\ Named'
    BY <1>0, <2>1, <2>2, NamesNow DEF Single, Named
  <2> QED BY <2>1, <2>3 DEF SendsStep, Ends
<1>7. ~MessageFails(D) /\ ~PatchMessage(D)
  <2>1. pc[D] # "patchqueue"
    BY SendingNow DEF Unacknowledged
  <2> QED BY <1>0, <2>1 DEF MessageFails, PatchMessage
<1> QED BY <1>1, <1>2, <1>3, <1>4, <1>5, <1>6, <1>7 DEF Prompt

LEMMA QuitSends ==
  ASSUME TurnInv, KeptInv, TraceInv, ~DispatchOver, Quit(Dispatcher) PROVE SendsStep
<1> DEFINE D == Dispatcher
<1>0. TypeOK /\ OneMessage /\ D \in Proc
  BY SendingNow DEF TraceInv
<1>1. pc'[D] = "ended" /\ record' = record /\ intent' = intent /\ status' = status /\ held'[D] = NoIntent
  BY <1>0, Domains DEF Quit
<1>2. Single(D)
  BY <1>0, <1>1, NamesNow DEF Single
<1>3. CASE pc[D] = "ack"
  <2>1. record # NoRecord /\ record.message # 0
    BY <1>3, BeforeAck
  <2> QED BY <1>0, <1>1, <1>2, <2>1, NamesNow DEF SendsStep, Ends, Named
<1>4. CASE pc[D] # "ack"
  BY <1>1, <1>2, <1>4, SendingNow DEF SendsStep, Ends, Reserving, Lost, Unacknowledged, Pending, Sending
<1> QED BY <1>3, <1>4

(* A step of a dispatch that is not acknowledged keeps the whole of it.    *)
LEMMA DispatchTraces ==
  ASSUME TurnInv, TurnInv', KeptInv, TraceInv, ~DispatchOver, Runs(Dispatcher)
  PROVE  TraceInv'
<1> DEFINE D == Dispatcher
<1>0. TypeOK /\ OneMessage /\ QueryInv /\ DispatcherInv /\ D \in Proc
      /\ pc[D] \in Unacknowledged
  BY SendingNow DEF TraceInv, TurnInv
<1>1. ~Finalize(D) /\ ~Reconcile(D) /\ ~Command(D)
  <2>1. ~Finalize(D)
    BY <1>0 DEF Finalize, SaveCursor, TerminalObserved, Watches, ReplyInvalid, ReadTerminal,
       CloseTurn, ValidateTree, Commit, PersistCommitted, PatchTerminal, RemoveIntent, Unacknowledged
  <2> QED BY <1>0, <2>1, Actors, ReconcileActor, CommandActor
<1>2. SendsStep
  BY <1>1, StartSends, PromptSends, QuitSends DEF Runs
<1>3. OwnPlace(D) /\ OwnMemory(D)
  BY <1>0, RunsOwn
<1>4. \A q \in Proc : q # D => pc'[q] = pc[q] /\ cmd'[q] = cmd[q] /\ held'[q] = held[q]
  BY <1>0, <1>3, Domains DEF OwnPlace, OwnMemory
<1>5. QueryInv'
  BY <1>0, <1>4, Actors DEF QueryInv
<1>6. OneMessage'
  BY <1>0, <1>2, <1>4 DEF SendsStep, Single, OneMessage, OneNamed
<1>7. \A o \in Operators : pc'[o] = "idle" /\ held'[o] = NoIntent
  BY <1>4, Actors, BeforeAck
<1>8. DispatcherInv'
  BY DEF TurnInv
<1>9. SendingInv'
  <2> SUFFICES ASSUME ~DispatchOver' PROVE
        /\ pc'[D] \in Unacknowledged /\ Reserving'
        /\ pc'[D] \in Sending => Uncertain(intent') /\ Uncertain(held'[D])
        /\ pc'[D] \in Pending => status'[1] = "unsent"
        /\ pc'[D] \in {"cleanup", "cleaned", "discard"} => Lost'
    BY DEF SendingInv
  <2>1. GoesOn
    BY <1>2 DEF SendsStep, Ends, DispatchOver
  <2> QED BY <2>1 DEF GoesOn
<1>10. SoughtInv'
  <2>1. pc'[D] \in Unacknowledged => ~DispatchOver'
    BY <1>8 DEF DispatcherInv, DispatchOver, Unacknowledged, Acknowledged, Settling
  <2>2. DispatchOver' => Ends
    BY <1>2, <2>1 DEF SendsStep, GoesOn
  <2> QED BY <1>7, <2>2 DEF SoughtInv, Ends, Querying
<1> QED BY <1>5, <1>6, <1>9, <1>10 DEF TraceInv

(* Recovery finds the message, or leaves what names it as it is.           *)
Seeks(p) ==
  /\ record' = record /\ intent' = intent
  /\ held'[p] = NoIntent \/ Uncertain(held'[p])
  /\ pc'[p] \in Querying

LEMMA SoughtNow ==
  ASSUME TurnInv, TraceInv, DispatchOver, ~Lost, ~Named, NEW p \in Operators
  PROVE  /\ TypeOK /\ p \in Proc
         /\ cmd[p] \in Queries \cup {"none"} /\ pc[p] \in Querying
         /\ intent # NoIntent /\ Uncertain(intent)
         /\ held[p] = NoIntent \/ Uncertain(held[p])
         /\ record # NoRecord =>
              record.message = 0 /\ record.state = "running" /\ record.session = Reserved
         /\ pc[p] \in {"recover", "upsert"} =>
              held[p] # NoIntent /\ held[p].message = 1 /\ held[p].phase \in {4, 5}
<1>1. /\ TypeOK /\ p \in Proc /\ cmd[p] \in Queries \cup {"none"} /\ pc[p] \in Querying
      /\ Reserving /\ Uncertain(intent) /\ (held[p] = NoIntent \/ Uncertain(held[p]))
  BY QueryNow DEF TraceInv, SoughtInv
<1>2. record # NoRecord => record.message = 0 /\ record.state = "running" /\ record.session = Reserved
  BY <1>1 DEF TraceInv, OneMessage, Named, Reserving
<1>3. pc[p] \in {"recover", "upsert"} =>
        held[p] # NoIntent /\ held[p].message = 1 /\ held[p].phase \in {4, 5}
  <2>1. pc[p] \in {"recover", "upsert"} => held[p] # NoIntent
    BY <1>1, NoIntentIsNone DEF TurnInv, MemoryInv, WithIntent
  <2> QED BY <1>1, <2>1 DEF Uncertain
<1> QED BY <1>1, <1>2, <1>3 DEF Uncertain

LEMMA FinalizeSeeks ==
  ASSUME TurnInv, TraceInv, DispatchOver, ~Lost, ~Named, NEW p \in Operators PROVE ~Finalize(p)
BY SoughtNow DEF Finalize, SaveCursor, TerminalObserved, Watches, ReplyInvalid, ReadTerminal,
   CloseTurn, ValidateTree, Commit, PersistCommitted, PatchTerminal, RemoveIntent, Querying

LEMMA ReconcileSeeks ==
  ASSUME TurnInv, TraceInv, DispatchOver, ~Lost, ~Named, NEW p \in Operators, Reconcile(p)
  PROVE  Named' \/ Seeks(p)
<1>0. TypeOK /\ p \in Proc /\ pc[p] \in Querying
  BY SoughtNow
<1>1. CASE pc[p] = "reconcile"
  <2>1. ReadIntent(p)
    BY <1>1 DEF Reconcile, ReadIntent, AdoptSession, CleanStrandedTree, TombstoneStrand,
       SessionAnswers, ServerSilent, PromptLanded, PromptMissing, StaleRunning, StillRunning,
       PatchOrInsert, PersistRecovered, AdoptCommit, FinalizeRecovered, SettleCommitted, Recovering
  <2>2. record' = record /\ intent' = intent /\ held'[p] = intent /\ pc'[p] = "recover"
    BY <1>0, <2>1, SoughtNow, Domains DEF ReadIntent
  <2> QED BY <2>2, SoughtNow DEF Seeks, Querying
<1>2. CASE pc[p] = "recover"
  <2>1. /\ held[p].phase \in {4, 5} /\ held[p].message = 1
        /\ record # NoRecord => record.state = "running"
    BY <1>2, SoughtNow
  <2>2. ~ReadIntent(p) /\ ~TombstoneStrand(p) /\ ~PatchOrInsert(p) /\ ~PersistRecovered(p)
    BY <1>2 DEF ReadIntent, TombstoneStrand, PatchOrInsert, PersistRecovered
  <2>3. /\ ~AdoptSession(p) /\ ~CleanStrandedTree(p) /\ ~SessionAnswers(p) /\ ~StaleRunning(p)
        /\ ~AdoptCommit(p) /\ ~FinalizeRecovered(p) /\ ~SettleCommitted(p)
    <3>0. ~Recovering(p, {Planned, WorktreeReady}) /\ ~Recovering(p, {SessionCreated})
      BY <2>1 DEF Recovering
    <3>1. ~AdoptSession(p) /\ ~CleanStrandedTree(p) /\ ~SessionAnswers(p)
      BY <3>0, Zenon DEF AdoptSession, CleanStrandedTree, SessionAnswers
    <3>2. ~AdoptCommit(p) /\ ~FinalizeRecovered(p) /\ ~SettleCommitted(p)
      BY <2>1 DEF AdoptCommit, FinalizeRecovered, SettleCommitted, Recovering
    <3>3. ~StaleRunning(p)
      BY <2>1 DEF StaleRunning
    <3> QED BY <3>1, <3>2, <3>3
  <2>4. ServerSilent(p) \/ PromptLanded(p) \/ PromptMissing(p) \/ StillRunning(p)
    BY <2>2, <2>3 DEF Reconcile
  <2>5. record' = record /\ intent' = intent /\ held' = held /\ pc'[p] \in {"upsert", "resume"}
    BY <1>0, <2>4, Domains DEF ServerSilent, PromptLanded, PromptMissing, StillRunning, Upsert, Resume
  <2> QED BY <2>5, SoughtNow DEF Seeks, Querying
<1>3. CASE pc[p] = "upsert"
  <2>1. PatchOrInsert(p)
    BY <1>3 DEF Reconcile, ReadIntent, AdoptSession, CleanStrandedTree, TombstoneStrand,
       SessionAnswers, ServerSilent, PromptLanded, PromptMissing, StaleRunning, StillRunning,
       PatchOrInsert, PersistRecovered, AdoptCommit, FinalizeRecovered, SettleCommitted, Recovering
  <2>2. held[p].phase # 3 /\ held[p].message = 1
    BY <1>3, SoughtNow
  <2> DEFINE message == IF held[p].phase = 3 THEN 0 ELSE held[p].message
             state   == IF then[p] = "remove" THEN "idle" ELSE "running"
             m == IF message = 0 THEN record.message ELSE message
  <2>3. \/ /\ record # NoRecord
           /\ record' = [record EXCEPT !.session = held[p].session, !.state = state, !.message = m]
        \/ record' = NewRecord(held[p].session, message, state)
    BY <2>1 DEF PatchOrInsert, PatchRecord, InsertRecord
  <2>4. message = 1 /\ m = 1
    BY <2>2
  <2> HIDE DEF message, state, m
  <2>5. CASE /\ record # NoRecord
             /\ record' = [record EXCEPT !.session = held[p].session, !.state = state, !.message = m]
    <3>1. record \in RecordType
      BY <1>0, <2>5 DEF TypeOK
    <3>2. record'.message = m /\ DOMAIN record' = DOMAIN record /\ "tree" \in DOMAIN record
      BY <2>5, <3>1 DEF RecordType
    <3> QED BY <2>4, <3>2 DEF NoRecord, Named
  <2>6. CASE record' = NewRecord(held[p].session, message, state)
    <3>1. record'.message = message /\ "tree" \in DOMAIN record'
      BY <2>6 DEF NewRecord
    <3> QED BY <2>4, <3>1 DEF NoRecord, Named
  <2> QED BY <2>3, <2>5, <2>6
<1>4. pc[p] \in {"reconcile", "recover", "upsert"}
  BY <1>0 DEF Querying, Reconcile, ReadIntent, AdoptSession, CleanStrandedTree, TombstoneStrand,
     SessionAnswers, ServerSilent, PromptLanded, PromptMissing, StaleRunning, StillRunning,
     PatchOrInsert, PersistRecovered, AdoptCommit, FinalizeRecovered, SettleCommitted, Recovering
<1> QED BY <1>1, <1>2, <1>3, <1>4

LEMMA CommandSeeks ==
  ASSUME TurnInv, TraceInv, Allowed \subseteq Queries, DispatchOver, ~Lost, ~Named,
         NEW p \in Operators, Command(p)
  PROVE  Seeks(p)
<1>0. TypeOK /\ p \in Proc /\ pc[p] \in Querying /\ QueryInv
  BY SoughtNow DEF TraceInv
<1>1. ~Follow(p) /\ ~AbortSession(p) /\ ~OpenJournal(p) /\ ~PatchAborted(p)
  BY <1>0, SoughtNow DEF Follow, AbortSession, OpenJournal, PatchAborted, Active, Known, Querying
<1>2. CASE List(p)
  <2>1. record' = record /\ intent' = intent /\ held'[p] = NoIntent /\ pc'[p] \in {"idle", "ended"}
        /\ (p # Dispatcher => pc'[p] = "idle")
    BY <1>0, <1>2, Domains DEF List
  <2> QED BY <2>1, Actors DEF Seeks, Querying
<1>3. CASE \E c \in Queries : Begin(p, c)
  <2>1. record' = record /\ intent' = intent /\ held' = held /\ pc'[p] \in {"abort", "reconcile"}
    BY <1>0, <1>3, Domains DEF Begin, Queries
  <2> QED BY <2>1, SoughtNow DEF Seeks, Querying
<1> QED BY <1>0, <1>1, <1>2, <1>3, QueryCommand

LEMMA QuitSeeks ==
  ASSUME TurnInv, TraceInv, NEW p \in Operators, Quit(p) PROVE Seeks(p)
<1>1. TypeOK /\ p \in Proc /\ p # Dispatcher
  BY QueryNow DEF TraceInv
<1>2. record' = record /\ intent' = intent /\ held'[p] = NoIntent /\ pc'[p] = "idle"
  BY <1>1, Domains DEF Quit
<1> QED BY <1>2 DEF Seeks, Querying

(* A step of an operator, once the dispatch is over.                       *)
LEMMA OperatorTraces ==
  ASSUME TurnInv, KeptInv', TraceInv, Allowed \subseteq Queries, DispatchOver,
         NEW p \in Operators, Runs(p)
  PROVE  TraceInv'
<1>0. /\ TypeOK /\ p \in Proc /\ p # Dispatcher /\ DispatcherInv
      /\ QueryInv /\ OneMessage /\ SoughtInv
  BY QueryNow DEF TraceInv
<1>1. OwnPlace(p) /\ OwnMemory(p)
  BY <1>0, RunsOwn
<1>2. /\ \A q \in Proc : q # p => pc'[q] = pc[q] /\ cmd'[q] = cmd[q] /\ held'[q] = held[q]
  BY <1>0, <1>1, Domains DEF OwnPlace, OwnMemory
<1>3. DispatchOver'
  <2>1. CASE acked
    BY <1>0, <2>1, AckedStays DEF DispatchOver
  <2>2. CASE ~acked
    BY <1>0, <2>2, FailedRuns DEF DispatchOver
  <2> QED BY <2>1, <2>2
<1>4. Single(p) /\ (Named => Named')
  BY <1>0, QueryRuns, FinalizeSingle, ReconcileSingle, CommandSingle, QuitSingle
<1>5. QueryInv'
  <2>1. cmd'[p] \in Queries \cup {"none"} /\ pc'[p] \notin Senders
    BY <1>0, QueryStep
  <2> QED BY <1>0, <1>2, <2>1, Actors DEF QueryInv
<1>6. OneMessage'
  BY <1>0, <1>2, <1>4 DEF Single, OneMessage, OneNamed
<1>7. SoughtInv'
  <2> SUFFICES ASSUME ~Lost', ~Named' PROVE
        Reserving' /\ Uncertain(intent')
          /\ \A o \in Operators : pc'[o] \in Querying /\ (held'[o] = NoIntent \/ Uncertain(held'[o]))
    BY DEF SoughtInv
  <2>1. ~Lost /\ ~Named
    BY <1>0, <1>4, QueryLost
  <2>2. Seeks(p)
    BY <1>0, <2>1, QueryRuns, FinalizeSeeks, ReconcileSeeks, CommandSeeks, QuitSeeks
  <2>3. /\ Reserving /\ Uncertain(intent)
        /\ \A o \in Operators : pc[o] \in Querying /\ (held[o] = NoIntent \/ Uncertain(held[o]))
    BY <1>0, <2>1 DEF SoughtInv
  <2>4. Reserving' /\ Uncertain(intent')
    BY <2>2, <2>3 DEF Seeks, Reserving
  <2>5. ASSUME NEW o \in Operators PROVE pc'[o] \in Querying /\ (held'[o] = NoIntent \/ Uncertain(held'[o]))
    <3>1. CASE o = p
      BY <2>2, <3>1 DEF Seeks
    <3>2. CASE o # p
      BY <1>2, <2>3, <3>2, Actors
    <3> QED BY <3>1, <3>2
  <2> QED BY <2>4, <2>5
<1> QED BY <1>3, <1>5, <1>6, <1>7 DEF TraceInv, SendingInv

(* An acknowledged dispatch is named by its record.                        *)
LEMMA AckedTraces ==
  ASSUME TurnInv, KeptInv', TraceInv, acked, Runs(Dispatcher)
  PROVE  TraceInv'
<1> DEFINE D == Dispatcher
<1>0. TypeOK /\ D \in Proc /\ DispatcherInv /\ QueryInv /\ OneMessage
  BY Actors DEF TurnInv, TraceInv
<1>1. acked' = acked /\ ~Start(D) /\ ~Prompt(D) /\ ~Reconcile(D) /\ ~Command(D)
  BY <1>0, AckedStays, Actors, ReconcileActor, CommandActor
<1>2. Single(D)
  BY <1>0, <1>1, FinalizeSingle, QuitSingle DEF Runs
<1>3. \A q \in Proc : q # D => pc'[q] = pc[q] /\ cmd'[q] = cmd[q] /\ held'[q] = held[q]
  BY <1>0, RunsOwn, Domains DEF OwnPlace, OwnMemory
<1>4. QueryInv'
  BY <1>0, <1>3, Actors DEF QueryInv
<1>5. OneMessage'
  BY <1>0, <1>2, <1>3 DEF Single, OneMessage, OneNamed
<1>6. Named'
  <2>1. record' # NoRecord /\ record'.message # 0
    BY <1>1 DEF KeptInv, AckedIsKept, Active
  <2> QED BY <1>2, <2>1 DEF Single, Named
<1> QED BY <1>1, <1>4, <1>5, <1>6 DEF TraceInv, SendingInv, SoughtInv, DispatchOver

LEMMA ServerTraces ==
  ASSUME TurnInv, TraceInv, NEW t \in Turn, Admit(t) \/ Drop(t) \/ Reply(t) \/ Fail(t) \/ Edit(t)
  PROVE  TraceInv'
<1>1. UNCHANGED <<record, intent, acked, pc, cmd, held>>
  BY DEF Admit, Drop, Reply, Fail, Edit, Serve
<1>2. 1 \in Turn /\ status \in [Turn -> Status]
  BY BoundAssumption, ServerTypes DEF TurnInv, Turn
<1>3. /\ status[1] = "unsent" => status'[1] = "unsent"
      /\ status[1] = "dropped" => status'[1] = "dropped"
  BY <1>2 DEF Admit, Drop, Reply, Fail, Edit, Serve
<1>4. Lost => Lost'
  BY <1>3 DEF Lost
<1>5. QueryInv' /\ OneMessage' /\ (Named' <=> Named) /\ (DispatchOver' <=> DispatchOver) /\ (Reserving' <=> Reserving)
  BY <1>1 DEF TraceInv, QueryInv, OneMessage, OneNamed, Named, DispatchOver, Reserving
<1>6. SendingInv'
  BY <1>1, <1>3, <1>4, <1>5 DEF TraceInv, SendingInv, Uncertain
<1>7. SoughtInv'
  BY <1>1, <1>4, <1>5 DEF TraceInv, SoughtInv, Uncertain
<1> QED BY <1>5, <1>6, <1>7 DEF TraceInv

LEMMA InitTraces == Init => TraceInv
BY Actors, BoundAssumption DEF Init, TraceInv, QueryInv, OneMessage, OneNamed, SendingInv, SoughtInv,
   DispatchOver, Unacknowledged, Reserving, Sending, Pending, Queries, Senders, Turn

LEMMA NextTraces ==
  ASSUME ~Overlap, Allowed \subseteq Queries
  PROVE  TurnInv /\ TurnInv' /\ KeptInv /\ KeptInv' /\ TraceInv /\ [Next]_vars => TraceInv'
<1> SUFFICES ASSUME TurnInv, TurnInv', KeptInv, KeptInv', TraceInv, [Next]_vars PROVE TraceInv'
  OBVIOUS
<1>1. ASSUME NEW p \in Proc, Runs(p) PROVE TraceInv'
  <2>1. CASE ~DispatchOver
    <3>1. p = Dispatcher
      BY <1>1, <2>1, OnlyDispatch
    <3> QED BY <1>1, <2>1, <3>1, DispatchTraces
  <2>2. CASE DispatchOver /\ p \in Operators
    BY <1>1, <2>2, OperatorTraces
  <2>3. CASE DispatchOver /\ p = Dispatcher
    <3>1. acked
      BY <1>1, <2>3, FailedRuns, Actors DEF DispatchOver
    <3> QED BY <1>1, <2>3, <3>1, AckedTraces
  <2> QED BY <2>1, <2>2, <2>3, Actors
<1>2. CASE UNCHANGED vars
  BY <1>2 DEF vars, TraceInv, QueryInv, OneMessage, OneNamed, SendingInv, SoughtInv, DispatchOver,
     Reserving, Uncertain, Lost, Named
<1> QED BY <1>1, <1>2, ServerTraces DEF Next, Runs

(* While operators list, follow and abort, and no `ls` meets the dispatch  *)
(* at work, the invariant of the traces holds in every reachable state.    *)
THEOREM TraceInvariant == ASSUME ~Overlap, Allowed \subseteq Queries PROVE Spec => []TraceInv
<1>1. TurnInv /\ TurnInv' /\ KeptInv /\ KeptInv' /\ TraceInv /\ [Next]_vars => TraceInv'
  BY NextTraces
<1> QED BY <1>1, InitTraces, TurnInvariant, KeptInvariant, PTL DEF Spec

(* Wherever the dispatch is killed, loses its answer or gives up, and      *)
(* whatever recovery is killed in turn: a message the session works on, or *)
(* has answered, is named by the intent or by the record.                  *)
THEOREM AdmittedLeavesTrace ==
  ASSUME ~Overlap, Allowed \subseteq Queries PROVE Spec => []AdmittedIsTraceable
<1>1. TurnInv /\ KeptInv /\ TraceInv => AdmittedIsTraceable
  <2> SUFFICES ASSUME TurnInv, KeptInv, TraceInv, status[1] \in {"running", "replied"}
               PROVE  Uncertain(intent) \/ Named
    BY DEF AdmittedIsTraceable, Uncertain, Named
  <2>1. ~Lost
    BY DEF Lost
  <2>2. CASE DispatchOver
    BY <2>1, <2>2 DEF TraceInv, SoughtInv
  <2>3. CASE ~DispatchOver
    <3>1. CASE pc[Dispatcher] = "ack"
      BY <2>3, <3>1, BeforeAck DEF TraceInv, OneMessage, Named
    <3>2. CASE pc[Dispatcher] # "ack"
      BY <2>1, <2>3, <3>2, SendingNow DEF Unacknowledged, Pending, Sending
    <3> QED BY <3>1, <3>2
  <2> QED BY <2>2, <2>3
<1> QED BY <1>1, TurnInvariant, KeptInvariant, TraceInvariant, PTL

-----------------------------------------------------------------------------
(* LockInv: the turn lock keeps apart the commands that take it.           *)

LockStays(p) == turnLock' = turnLock /\ cmd'[p] = cmd[p] /\ pc[p] # "idle"
LockLeft(p) ==
  /\ turnLock' = IF turnLock = p THEN Nobody ELSE turnLock
  /\ p # Dispatcher => cmd'[p] = "none" /\ pc'[p] = "idle"
LockTaken(p) ==
  /\ cmd'[p] \in Allowed
  /\ IF cmd'[p] \in Locking THEN turnLock = Nobody /\ turnLock' = p
     ELSE turnLock' = turnLock

LEMMA RunsLock ==
  ASSUME TypeOK, NEW p \in Proc, Runs(p) PROVE LockStays(p) \/ LockLeft(p) \/ LockTaken(p)
<1>1. CASE Start(p)
  BY <1>1, Domains DEF Start, PlanIntent, ReserveRef, CreateTree, CreateTreeFails, StoreTree,
     PersistReady, CreateSession, SubscribeUnreachable, PromptUnreachable, Recreate,
     FailBeforePrompt, CleanTree, CleanIntent, DiscardUnacknowledged, LockStays, LockLeft
<1>2. CASE Prompt(p)
  BY <1>2, Domains DEF Prompt, PersistUncertain, Send, Accepted, ResponseLost, MessageFails,
     Confirmed, ConfirmTimesOut, PreserveIntent, PreserveRecord, PersistRunning, WriteRef,
     Acknowledge, PatchMessage, LockStays, LockLeft
<1>3. CASE Finalize(p)
  BY <1>3, Domains DEF Finalize, SaveCursor, TerminalObserved, Watches, ReplyInvalid,
     ReadTerminal, CloseTurn, ValidateTree, Commit, PersistCommitted, PatchTerminal,
     RemoveIntent, LockStays, LockLeft
<1>4. CASE Reconcile(p)
  BY <1>4, Domains DEF Reconcile, ReadIntent, AdoptSession, CleanStrandedTree, TombstoneStrand,
     SessionAnswers, ServerSilent, PromptLanded, PromptMissing, StaleRunning, StillRunning,
     PatchOrInsert, PersistRecovered, AdoptCommit, FinalizeRecovered, SettleCommitted, Recovering,
     Upsert, Resume, LockStays
<1>5. CASE Command(p)
  <2>1. CASE \E c \in Allowed : Begin(p, c)
    BY <2>1, Domains DEF Begin, LockTaken
  <2>2. CASE List(p) \/ Follow(p) \/ OpenJournal(p) \/ Message(p) \/ Queue(p)
             \/ AbortSession(p) \/ PatchAborted(p)
    BY <2>2, Domains DEF List, Follow, OpenJournal, Message, Queue, AbortSession, PatchAborted,
       LockStays, LockLeft
  <2> QED BY <1>5, <2>1, <2>2 DEF Command
<1>6. CASE Quit(p)
  BY <1>6, Domains DEF Quit, LockLeft
<1> QED BY <1>1, <1>2, <1>3, <1>4, <1>5, <1>6 DEF Runs

LEMMA LockKept ==
  ASSUME TurnInv, LockInv, NEW p \in Proc, Runs(p) PROVE LockInv'
<1>1. TypeOK /\ OwnPlace(p) /\ OwnMemory(p)
  BY RunsOwn DEF TurnInv
<1>2. \A q \in Proc : q # p => pc'[q] = pc[q] /\ cmd'[q] = cmd[q]
  BY <1>1, Domains DEF OwnPlace, OwnMemory
<1> SUFFICES ASSUME NEW o \in Operators
             PROVE  (pc'[o] = "idle" \/ cmd'[o] \in Allowed) /\ (cmd'[o] \in Locking => turnLock' = o)
  BY DEF LockInv
<1>3. /\ pc[o] = "idle" \/ cmd[o] \in Allowed
      /\ cmd[o] \in Locking => turnLock = o
      /\ o \in Proc /\ o # Dispatcher /\ o # Nobody
  BY Actors, NobodyAssumption DEF LockInv
<1>4. CASE LockStays(p)
  BY <1>2, <1>3, <1>4 DEF LockStays
<1>5. CASE LockLeft(p)
  BY <1>2, <1>3, <1>5 DEF LockLeft, Locking
<1>6. CASE LockTaken(p)
  BY <1>2, <1>3, <1>6 DEF LockTaken
<1> QED BY <1>1, <1>4, <1>5, <1>6, RunsLock

(* A command that takes the turn lock of a session has it until it ends,   *)
(* also when it is killed: `m`, `q` and `k` of one ref never meet.         *)
THEOREM TurnLockIsHeld == Spec => []LockInv
<1>1. TurnInv /\ LockInv /\ [Next]_vars => LockInv'
  <2> SUFFICES ASSUME TurnInv, LockInv, [Next]_vars PROVE LockInv'
    OBVIOUS
  <2>1. ASSUME UNCHANGED <<turnLock, cmd, pc>> PROVE LockInv'
    BY <2>1 DEF LockInv
  <2>2. ASSUME NEW t \in Turn, Admit(t) \/ Drop(t) \/ Reply(t) \/ Fail(t) \/ Edit(t) PROVE LockInv'
    BY <2>1, <2>2 DEF Admit, Drop, Reply, Fail, Edit, Serve
  <2> QED BY <2>1, <2>2, LockKept DEF Next, Runs, vars
<1>2. Init => LockInv
  BY Actors DEF Init, LockInv, Locking
<1> QED BY <1>1, <1>2, TurnInvariant, PTL DEF Spec

(* Of commands that all take it, or that one operator runs, one is at work.*)
LEMMA Alone ==
  ASSUME Serial, LockInv, NEW o \in Operators, NEW q \in Operators, o # q, pc[o] # "idle"
  PROVE  pc[q] = "idle"
BY DEF Serial, LockInv
-----------------------------------------------------------------------------
(* What one step does to the record and to the intent.                     *)

(* The record goes, or says what it said, or no longer that a turn runs.   *)
ClaimKept ==
  record' # NoRecord =>
    /\ record # NoRecord /\ record'.message = record.message
    /\ record'.state = "running" => record.state = "running"

(* The steps that write a message to the record.                           *)
Claims(p) ==
  ReserveRef(p) \/ PreserveRecord(p) \/ WriteRef(p) \/ PatchMessage(p) \/ PatchOrInsert(p)

LEMMA RecordNow ==
  ASSUME TypeOK, record # NoRecord
  PROVE  record \in RecordType /\ record.message \in 0..MaxTurns
BY DEF TypeOK, RecordType

LEMMA RunsClaim ==
  ASSUME TypeOK, NEW p \in Proc, Runs(p) PROVE ClaimKept \/ Claims(p)
<1>1. CASE record' = record
  BY <1>1 DEF ClaimKept
<1>2. CASE record' = NoRecord
  BY <1>2 DEF ClaimKept
<1>3. CASE \/ CreateTreeFails(p) \/ StoreTree(p) \/ PatchTerminal(p) \/ SettleCommitted(p)
           \/ PatchAborted(p)
  <2>1. record # NoRecord
    BY <1>3 DEF CreateTreeFails, StoreTree, PatchTerminal, SettleCommitted, PatchAborted, PatchRecord
  <2>2. record \in RecordType
    BY <2>1, RecordNow
  <2>3. record'.message = record.message /\ (record'.state = "running" => record.state = "running")
    <3>1. CASE CreateTreeFails(p) \/ StoreTree(p)
      BY <2>2, <3>1 DEF CreateTreeFails, StoreTree, PatchRecord, RecordType
    <3>2. CASE PatchTerminal(p)
      BY <2>2, <3>2 DEF PatchTerminal, PatchRecord, RecordType
    <3>3. CASE SettleCommitted(p)
      BY <2>2, <3>3 DEF SettleCommitted, PatchRecord, RecordType
    <3>4. CASE PatchAborted(p)
      BY <2>2, <3>4 DEF PatchAborted, PatchRecord, RecordType
    <3> QED BY <1>3, <3>1, <3>2, <3>3, <3>4
  <2> QED BY <2>1, <2>3 DEF ClaimKept
<1>4. CASE TombstoneStrand(p)
  <2>1. CASE record = NoRecord
    BY <1>1, <1>4, <2>1 DEF TombstoneStrand
  <2>2. CASE record # NoRecord
    <3>1. record \in RecordType
      BY <2>2, RecordNow
    <3>2. record'.message = record.message /\ record'.state = record.state
      BY <1>4, <2>2, <3>1 DEF TombstoneStrand, RecordType
    <3> QED BY <2>2, <3>2 DEF ClaimKept
  <2> QED BY <2>1, <2>2
<1>5. CASE Start(p) /\ ~CreateTreeFails(p) /\ ~StoreTree(p)
  BY <1>1, <1>2, <1>5 DEF Start, PlanIntent, CreateTree,
     PersistReady, CreateSession, SubscribeUnreachable, PromptUnreachable, Recreate,
     FailBeforePrompt, CleanTree, CleanIntent, DiscardUnacknowledged, Claims
<1>6. CASE Prompt(p)
  BY <1>1, <1>6 DEF Prompt, PersistUncertain, Send, Accepted, ResponseLost, MessageFails,
     Confirmed, ConfirmTimesOut, PreserveIntent, PersistRunning, Acknowledge, Claims
<1>7. CASE Finalize(p) /\ ~PatchTerminal(p)
  BY <1>1, <1>7 DEF Finalize, SaveCursor, TerminalObserved, ReplyInvalid, ReadTerminal,
     CloseTurn, ValidateTree, Commit, PersistCommitted, RemoveIntent
<1>8. CASE Reconcile(p) /\ ~TombstoneStrand(p) /\ ~SettleCommitted(p)
  BY <1>1, <1>8 DEF Reconcile, ReadIntent, AdoptSession, CleanStrandedTree,
     SessionAnswers, ServerSilent, PromptLanded, PromptMissing, StaleRunning, StillRunning,
     PersistRecovered, AdoptCommit, FinalizeRecovered, Upsert, Resume, Claims
<1>9. CASE Command(p) /\ ~PatchAborted(p)
  BY <1>1, <1>9 DEF Command, Begin, List, Follow, OpenJournal, Message, Queue, AbortSession
<1>10. CASE Quit(p)
  BY <1>1, <1>10 DEF Quit
<1> QED BY <1>3, <1>4, <1>5, <1>6, <1>7, <1>8, <1>9, <1>10 DEF Runs

(* What such a step writes.                                                *)
Writes(p, message, state) ==
  record' # NoRecord /\ record'.message = message /\ record'.state = state

LEMMA WriteRecordWrites ==
  ASSUME TypeOK, NEW p \in Proc, NEW state, WriteRecord(p, state) PROVE Writes(p, goal[p], state)
<1>1. CASE worktree
  <2>1. record # NoRecord
        /\ record' = [record EXCEPT !.session = held[p].session, !.message = goal[p], !.state = state]
    BY <1>1 DEF WriteRecord, PatchRecord
  <2>2. record \in RecordType
    BY <2>1, RecordNow
  <2>3. record'.message = goal[p] /\ record'.state = state /\ "tree" \in DOMAIN record'
    BY <2>1, <2>2 DEF RecordType
  <2> QED BY <2>3 DEF Writes, NoRecord
<1>2. CASE ~worktree
  BY <1>2 DEF WriteRecord, InsertRecord, NewRecord, Writes, NoRecord
<1> QED BY <1>1, <1>2

LEMMA PatchMessageWrites ==
  ASSUME TypeOK, NEW p \in Proc, PatchMessage(p)
  PROVE  \/ pc[p] = "landed" /\ Writes(p, goal[p], "running")
         \/ pc[p] = "patchqueue" /\ record # NoRecord /\ Writes(p, goal[p], record.state)
<1>1. record # NoRecord
  BY DEF PatchMessage, PatchRecord
<1>2. record \in RecordType
  BY <1>1, RecordNow
<1>3. CASE pc[p] = "landed" /\ record' = [record EXCEPT !.message = goal[p], !.state = "running"]
  <2>1. record'.message = goal[p] /\ record'.state = "running" /\ "tree" \in DOMAIN record'
    BY <1>2, <1>3 DEF RecordType
  <2> QED BY <1>3, <2>1 DEF Writes, NoRecord
<1>4. CASE pc[p] = "patchqueue" /\ record' = [record EXCEPT !.message = goal[p]]
  <2>1. record'.message = goal[p] /\ record'.state = record.state /\ "tree" \in DOMAIN record'
    BY <1>2, <1>4 DEF RecordType
  <2> QED BY <1>1, <1>4, <2>1 DEF Writes, NoRecord
<1> QED BY <1>3, <1>4 DEF PatchMessage, PatchRecord

(* Recovery writes the message of the intent it holds, or keeps the one of *)
(* the record, or writes none.                                             *)
Upserted(p) == IF then[p] = "remove" THEN "idle" ELSE "running"

LEMMA UpsertWrites ==
  ASSUME TypeOK, MemoryInv, NEW p \in Proc, PatchOrInsert(p)
  PROVE  /\ pc[p] = "upsert" /\ held[p] \in IntentType /\ pc'[p] = then[p] /\ then[p] # "end"
         /\ UNCHANGED <<intent, held, minted, status, goal>>
         /\ \/ held[p].phase # SessionCreated /\ Writes(p, held[p].message, Upserted(p))
            \/ Writes(p, 0, Upserted(p))
            \/ /\ held[p].phase = SessionCreated \/ held[p].message = 0
               /\ record # NoRecord /\ Writes(p, record.message, Upserted(p))
<1> DEFINE message == IF held[p].phase = SessionCreated THEN 0 ELSE held[p].message
           state   == Upserted(p)
           m == IF message = 0 THEN record.message ELSE message
<1>1. /\ pc[p] = "upsert" /\ pc'[p] = then[p]
      /\ UNCHANGED <<intent, held, minted, status, goal>>
      /\ \/ /\ record # NoRecord
            /\ record' = [record EXCEPT !.session = held[p].session, !.state = state, !.message = m]
         \/ record = NoRecord /\ record' = NewRecord(held[p].session, message, state)
  BY Domains DEF PatchOrInsert, PatchRecord, InsertRecord, Upserted
<1>2. held[p] \in IntentType /\ then[p] # "end"
  BY <1>1 DEF MemoryInv, WithIntent
<1> HIDE DEF state
<1>3. CASE record # NoRecord
  <2>1. record \in RecordType
    BY <1>3, RecordNow
  <2> HIDE DEF m
  <2>2. record'.message = m /\ record'.state = state /\ "tree" \in DOMAIN record'
    BY <1>1, <1>3, <2>1 DEF RecordType
  <2>3. Writes(p, m, state)
    BY <2>2 DEF Writes, NoRecord
  <2> QED BY <1>1, <1>2, <1>3, <2>3 DEF m, state
<1>4. CASE record = NoRecord
  <2> HIDE DEF message
  <2>1. Writes(p, message, state)
    BY <1>1, <1>4 DEF Writes, NewRecord, NoRecord
  <2> QED BY <1>1, <1>2, <2>1 DEF message, state
<1> QED BY <1>1, <1>3, <1>4
(* The steps that may leave an intent with an uncertain prompt.            *)
Asks(p) == PersistReady(p) \/ PersistUncertain(p) \/ PreserveIntent(p)

LEMMA PhasedAsks ==
  ASSUME NEW p \in Proc, held[p] \in IntentType, NEW n \in 1..8
  PROVE  /\ InPhase(p, n) \in IntentType /\ InPhase(p, n).phase = n
         /\ InPhase(p, n).message = held[p].message
         /\ InPhase(p, n).reply = held[p].reply
BY DEF IntentType, InPhase

LEMMA NothingWaits == ~Waiting(NoIntent)
BY DEF Waiting

LEMMA RunsAsk ==
  ASSUME TurnInv, NEW p \in Proc, Runs(p)
  PROVE  intent' = intent \/ ~Waiting(intent') \/ Asks(p)
<1>0. TypeOK /\ DispatcherInv /\ (pc[p] \in WithIntent => held[p] \in IntentType)
  BY DEF TurnInv, MemoryInv
<1>1. CASE intent' = NoIntent
  BY <1>1, NothingWaits
<1>2. held[p] \in IntentType => \A n \in {5, 6, 7} : ~Waiting(InPhase(p, n))
  BY PhasedAsks DEF Waiting
<1>3. CASE Start(p)
  <2>1. CASE PlanIntent(p)
    BY <2>1 DEF PlanIntent, NewIntent, Waiting
  <2>2. CASE CreateSession(p)
    <3> DEFINE i == InPhase(p, SessionCreated)
               j == [i EXCEPT !.session = @ + 1]
    <3>1. i \in IntentType /\ i.phase = 3 /\ intent' = j
      BY <1>0, <2>2, PhasedAsks DEF CreateSession, WithIntent
    <3> HIDE DEF i
    <3>2. j.phase = 3
      BY <3>1 DEF IntentType
    <3> QED BY <3>1, <3>2 DEF Waiting
  <2>3. CASE ~PlanIntent(p) /\ ~CreateSession(p)
    BY <1>1, <1>3, <2>3 DEF Start, ReserveRef, CreateTree, CreateTreeFails, StoreTree,
       SubscribeUnreachable, PromptUnreachable, Recreate, FailBeforePrompt, CleanTree,
       CleanIntent, DiscardUnacknowledged, Asks
  <2> QED BY <2>1, <2>2, <2>3
<1>4. CASE Prompt(p)
  <2>1. CASE PersistRunning(p)
    <3>1. held[p] \in IntentType /\ intent' = InPhase(p, Running)
      BY <1>0, <2>1 DEF PersistRunning, WithIntent
    <3> QED BY <1>2, <3>1
  <2>2. CASE ~PersistRunning(p)
    BY <1>4, <2>2 DEF Prompt, Send, Accepted, ResponseLost, MessageFails,
       Confirmed, ConfirmTimesOut, PreserveRecord, WriteRef, Acknowledge, PatchMessage, Asks
  <2> QED BY <2>1, <2>2
<1>5. CASE Finalize(p)
  <2>0. held[p] # NoIntent => held[p] \in IntentType
    BY <1>0 DEF TypeOK
  <2>1. CASE PersistCommitted(p)
    <3> DEFINE i == InPhase(p, Committed)
               j == [i EXCEPT !.commit = made[p]]
    <3>1. intent' = intent \/ (held[p] # NoIntent /\ intent' = j)
      BY <2>1 DEF PersistCommitted
    <3>2. held[p] # NoIntent => i \in IntentType /\ i.phase = 8
      BY <2>0, PhasedAsks
    <3> HIDE DEF i
    <3>3. held[p] # NoIntent => j.phase = 8
      BY <3>2 DEF IntentType
    <3> HIDE DEF j
    <3> QED BY <3>1, <3>3 DEF Waiting
  <2>2. CASE ~PersistCommitted(p)
    <3>1. \/ intent' = intent \/ intent' = NoIntent
          \/ held[p] # NoIntent /\ intent' \in {InPhase(p, 5), InPhase(p, 6), InPhase(p, 7)}
      BY <1>5, <2>2 DEF Finalize, SaveCursor, TerminalObserved, ReplyInvalid, ReadTerminal,
         CloseTurn, ValidateTree, Commit, PatchTerminal, RemoveIntent
    <3> QED BY <1>1, <1>2, <2>0, <3>1
  <2> QED BY <2>1, <2>2
<1>6. CASE Reconcile(p)
  <2>1. CASE AdoptCommit(p)
    <3> DEFINE i == InPhase(p, Committed)
               j == [i EXCEPT !.commit = Len(log)]
    <3>1. intent' = j /\ i \in IntentType /\ i.phase = 8
      BY <1>0, <2>1, PhasedAsks DEF AdoptCommit, Recovering, WithIntent
    <3> HIDE DEF i
    <3>2. j.phase = 8
      BY <3>1 DEF IntentType
    <3> QED BY <3>1, <3>2 DEF Waiting
  <2>2. CASE PersistRecovered(p)
    <3>1. held[p] \in IntentType
          /\ intent' = IF held[p].phase = PromptUncertain THEN InPhase(p, Running) ELSE held[p]
      BY <1>0, <2>2 DEF PersistRecovered, WithIntent
    <3>2. held[p].phase # PromptUncertain => ~Waiting(held[p])
      BY DEF Waiting
    <3> QED BY <1>2, <3>1, <3>2
  <2>3. CASE ~AdoptCommit(p) /\ ~PersistRecovered(p)
    BY <1>6, <2>3 DEF Reconcile, ReadIntent, AdoptSession, CleanStrandedTree, TombstoneStrand,
       SessionAnswers, ServerSilent, PromptLanded, PromptMissing, StaleRunning, StillRunning,
       PatchOrInsert, FinalizeRecovered, SettleCommitted, Upsert, Resume
  <2> QED BY <2>1, <2>2, <2>3
<1>7. CASE Command(p)
  BY <1>7 DEF Command, Begin, List, Follow, OpenJournal, Message, Queue, AbortSession, PatchAborted
<1>8. CASE Quit(p)
  BY <1>8 DEF Quit
<1> QED BY <1>3, <1>4, <1>5, <1>6, <1>7, <1>8 DEF Runs

(* What the server has admitted stays so.                                  *)
LEMMA RunsStatus == ASSUME TurnInv, NEW p \in Proc, Runs(p) PROVE StatusKept
<1>1. TypeOK /\ MemoryInv /\ ReplyInv /\ CommitInv
  BY DEF TurnInv
<1>2. CASE Quit(p)
  BY <1>2 DEF Quit, StatusKept
<1> QED BY <1>1, <1>2, StartSettles, PromptSettles, FinalizeSettles, ReconcileSettles,
     CommandSettles DEF Runs, Settles
-----------------------------------------------------------------------------
(* MintedInv: no message is named before it is minted.                     *)

Upto(i, n) == i # NoIntent => i.message <= n /\ i.reply <= n

(* A step of p names nothing beyond what is minted.                        *)
Mints(p) ==
  /\ minted' \in Nat /\ minted <= minted'
  /\ Upto(intent', minted') /\ Upto(held'[p], minted') /\ goal'[p] <= minted'

LEMMA NoneUpto == \A n : Upto(NoIntent, n)
BY DEF Upto

LEMMA PhasedUpto ==
  ASSUME NEW p \in Proc, held[p] \in IntentType, Upto(held[p], minted), NEW n \in 1..8
  PROVE  Upto(InPhase(p, n), minted)
BY PhasedAsks, NoIntentIsNone DEF Upto

LEMMA NewUpto ==
  ASSUME NEW r, NEW phase, NEW s, NEW m, NEW n, m <= n, 0 <= n
  PROVE  Upto(NewIntent(r, phase, s, m), n)
BY DEF Upto, NewIntent

LEMMA MintedNow ==
  ASSUME TurnInv, MintedInv, NEW p \in Proc
  PROVE  /\ TypeOK /\ minted \in Nat /\ minted <= minted /\ 0 <= minted /\ minted <= minted + 1
         /\ Upto(intent, minted) /\ Upto(held[p], minted) /\ goal[p] \in Nat /\ goal[p] <= minted
         /\ record # NoRecord => record.message \in Nat /\ record.message <= minted
         /\ held[p] # NoIntent => held[p] \in IntentType
         /\ intent # NoIntent => intent \in IntentType
         /\ pc[p] \in WithIntent => held[p] \in IntentType
         /\ held[p] \in IntentType => \A n \in 1..8 : Upto(InPhase(p, n), minted)
<1>0. TypeOK
  BY DEF TurnInv
<1>a. minted \in Nat /\ goal[p] \in Nat
  BY <1>0, TurnIsNat DEF TypeOK
<1>b. Upto(intent, minted) /\ Upto(held[p], minted) /\ goal[p] <= minted
  BY DEF MintedInv, Minted, Upto
<1>1. TypeOK /\ minted \in Nat /\ goal[p] \in Nat /\ Upto(intent, minted) /\ Upto(held[p], minted)
      /\ goal[p] <= minted
  BY <1>0, <1>a, <1>b
<1>2. record # NoRecord => record.message \in Nat /\ record.message <= minted
  BY <1>1, RecordNow, TurnIsNat DEF MintedInv
<1>3. /\ held[p] # NoIntent => held[p] \in IntentType
      /\ intent # NoIntent => intent \in IntentType
      /\ pc[p] \in WithIntent => held[p] \in IntentType
  BY <1>1 DEF TypeOK, TurnInv, MemoryInv
<1> QED BY <1>1, <1>2, <1>3, PhasedUpto

LEMMA StartMints ==
  ASSUME TurnInv, MintedInv, NEW p \in Proc, Start(p) PROVE Mints(p)
<1>0. minted' = minted /\ goal'[p] \in {goal[p], 0}
  BY MintedNow, Domains DEF Start, PlanIntent, ReserveRef, CreateTree, CreateTreeFails,
     StoreTree, PersistReady, CreateSession, SubscribeUnreachable, PromptUnreachable, Recreate,
     FailBeforePrompt, CleanTree, CleanIntent, DiscardUnacknowledged
<1>1. CASE PlanIntent(p) \/ ReserveRef(p)
  <2>1. Upto(NewIntent(TRUE, Planned, 0, 0), minted)
    BY MintedNow, NewUpto
  <2>2. intent' \in {intent, NewIntent(TRUE, Planned, 0, 0)} /\ held'[p] = NewIntent(TRUE, Planned, 0, 0)
    BY <1>1, MintedNow, Domains DEF PlanIntent, ReserveRef
  <2> QED BY <1>0, <2>1, <2>2, MintedNow DEF Mints
<1>2. CASE CreateTree(p)
  <2>1. intent' = intent /\ held'[p] = InPhase(p, WorktreeReady) /\ held[p] \in IntentType
    BY <1>2, MintedNow, Domains DEF CreateTree, WithIntent
  <2> QED BY <1>0, <2>1, MintedNow DEF Mints
<1>3. CASE CreateSession(p)
  <2> DEFINE i == InPhase(p, SessionCreated)
             j == [i EXCEPT !.session = @ + 1]
  <2>1. intent' = j /\ held'[p] = j /\ held[p] \in IntentType
    BY <1>3, MintedNow, Domains DEF CreateSession, WithIntent
  <2>2. i \in IntentType /\ Upto(i, minted)
    BY <2>1, MintedNow, PhasedAsks
  <2> HIDE DEF i
  <2>3. j.message = i.message /\ j.reply = i.reply /\ i # NoIntent
    BY <2>2, NoIntentIsNone DEF IntentType
  <2> HIDE DEF j
  <2>4. Upto(j, minted)
    BY <2>2, <2>3 DEF Upto
  <2> QED BY <1>0, <2>1, <2>4, MintedNow DEF Mints
<1>4. CASE Start(p) /\ ~PlanIntent(p) /\ ~ReserveRef(p) /\ ~CreateTree(p) /\ ~CreateSession(p)
  <2>1. intent' \in {intent, held[p], NoIntent} /\ held'[p] \in {held[p], NoIntent}
    BY <1>4, MintedNow, Domains DEF Start, CreateTreeFails,
     StoreTree, PersistReady, SubscribeUnreachable, PromptUnreachable, Recreate,
     FailBeforePrompt, CleanTree, CleanIntent, DiscardUnacknowledged
  <2> QED BY <1>0, <2>1, MintedNow, NoneUpto DEF Mints
<1> QED BY <1>1, <1>2, <1>3, <1>4

LEMMA PromptMints ==
  ASSUME TurnInv, MintedInv, NEW p \in Proc, Prompt(p) PROVE Mints(p)
<1>1. CASE PersistUncertain(p)
  <2> DEFINE t == IF goal[p] = 0 THEN minted + 1 ELSE goal[p]
             i == InPhase(p, PromptUncertain)
             j == [i EXCEPT !.message = t]
  <2>1. /\ intent' = j /\ held'[p] = j /\ goal'[p] = t /\ held[p] \in IntentType
        /\ minted' = IF goal[p] = 0 THEN t ELSE minted
    BY <1>1, MintedNow, Domains DEF PersistUncertain, WithIntent
  <2>2. t <= minted' /\ minted' \in Nat /\ minted <= minted'
    BY <2>1, MintedNow
  <2>3. i \in IntentType /\ Upto(i, minted) /\ i.reply \in Nat
    BY <2>1, MintedNow, PhasedAsks, TurnIsNat DEF IntentType
  <2> HIDE DEF i, t
  <2>4. j.message = t /\ j.reply = i.reply /\ i # NoIntent
    BY <2>3, NoIntentIsNone DEF IntentType
  <2> HIDE DEF j
  <2>5. i.reply <= minted'
    BY <2>2, <2>3, <2>4, MintedNow DEF Upto
  <2>6. Upto(j, minted')
    BY <2>2, <2>4, <2>5 DEF Upto
  <2> QED BY <2>1, <2>2, <2>6 DEF Mints
<1>2. CASE PreserveIntent(p) \/ PersistRunning(p)
  <2>1. /\ minted' = minted /\ goal' = goal /\ held[p] \in IntentType
        /\ intent' = held'[p] /\ held'[p] \in {InPhase(p, 4), InPhase(p, 5)}
    BY <1>2, MintedNow, Domains DEF PreserveIntent, PersistRunning, WithIntent
  <2> QED BY <2>1, MintedNow DEF Mints
<1>3. CASE Prompt(p) /\ ~PersistUncertain(p) /\ ~PreserveIntent(p) /\ ~PersistRunning(p)
  <2>1. minted' = minted /\ goal'[p] \in {goal[p], 0}
        /\ intent' = intent /\ held'[p] \in {held[p], NoIntent}
    BY <1>3, MintedNow, Domains DEF Prompt, Send, Accepted, ResponseLost, MessageFails,
       Confirmed, ConfirmTimesOut, PreserveRecord, WriteRef, Acknowledge, PatchMessage
  <2> QED BY <2>1, MintedNow, NoneUpto DEF Mints
<1> QED BY <1>1, <1>2, <1>3

LEMMA FinalizeMints ==
  ASSUME TurnInv, MintedInv, NEW p \in Proc, Finalize(p) PROVE Mints(p)
<1>0. minted' = minted /\ goal'[p] \in {goal[p], 0}
  BY MintedNow, Domains DEF Finalize, SaveCursor, TerminalObserved, ReplyInvalid, ReadTerminal,
     CloseTurn, ValidateTree, Commit, PersistCommitted, PatchTerminal, RemoveIntent
<1>1. CASE ReadTerminal(p)
  <2> DEFINE phase == IF intent.phase < Observed THEN Observed ELSE intent.phase
             j == [intent EXCEPT !.phase = phase, !.reply = goal[p]]
  <2>1. intent' = intent /\ held'[p] = IF intent = NoIntent THEN NoIntent ELSE j
    BY <1>1, MintedNow, Domains DEF ReadTerminal
  <2> HIDE DEF phase
  <2>2. intent # NoIntent => j.message = intent.message /\ j.reply = goal[p]
    BY MintedNow DEF IntentType
  <2> HIDE DEF j
  <2>3. intent # NoIntent => Upto(j, minted)
    BY <2>2, MintedNow DEF Upto
  <2> QED BY <1>0, <2>1, <2>3, MintedNow, NoneUpto DEF Mints
<1>2. CASE PersistCommitted(p)
  <2> DEFINE i == InPhase(p, Committed)
             j == [i EXCEPT !.commit = made[p]]
  <2>1. \/ intent' = intent /\ held' = held
        \/ held[p] # NoIntent /\ intent' = j /\ held'[p] = j
    BY <1>2, MintedNow, Domains DEF PersistCommitted
  <2>2. held[p] # NoIntent => i \in IntentType /\ Upto(i, minted)
    BY MintedNow, PhasedAsks
  <2> HIDE DEF i
  <2>3. held[p] # NoIntent => j.message = i.message /\ j.reply = i.reply /\ i # NoIntent
    BY <2>2, NoIntentIsNone DEF IntentType
  <2> HIDE DEF j
  <2>4. held[p] # NoIntent => Upto(j, minted)
    BY <2>2, <2>3 DEF Upto
  <2> QED BY <1>0, <2>1, <2>4, MintedNow DEF Mints
<1>3. CASE Finalize(p) /\ ~ReadTerminal(p) /\ ~PersistCommitted(p)
  <2>1. \/ intent' \in {intent, NoIntent} /\ held'[p] \in {held[p], NoIntent}
        \/ /\ held[p] # NoIntent
           /\ intent' \in {InPhase(p, 5), InPhase(p, 6), InPhase(p, 7)}
           /\ held'[p] \in {intent', NoIntent}
    <3>1. CASE Commit(p) \/ PatchTerminal(p)
      BY <3>1 DEF Commit, PatchTerminal
    <3>4. CASE RemoveIntent(p)
      BY <3>4, MintedNow, Domains DEF RemoveIntent
    <3>2. CASE SaveCursor(p) \/ TerminalObserved(p) \/ ReplyInvalid(p)
      BY <3>2, MintedNow, Domains DEF SaveCursor, TerminalObserved, ReplyInvalid
    <3>3. CASE CloseTurn(p) \/ ValidateTree(p)
      BY <3>3, MintedNow, Domains DEF CloseTurn, ValidateTree
    <3> QED BY <1>3, <3>1, <3>2, <3>3, <3>4 DEF Finalize
  <2> QED BY <1>0, <2>1, MintedNow, NoneUpto DEF Mints
<1> QED BY <1>1, <1>2, <1>3

LEMMA ReconcileMints ==
  ASSUME TurnInv, MintedInv, NEW p \in Proc, Reconcile(p) PROVE Mints(p)
<1>0. minted' = minted
  BY DEF Reconcile, ReadIntent, AdoptSession, CleanStrandedTree, TombstoneStrand,
     SessionAnswers, ServerSilent, PromptLanded, PromptMissing, StaleRunning, StillRunning,
     PatchOrInsert, PersistRecovered, AdoptCommit, FinalizeRecovered, SettleCommitted, Upsert, Resume
<1>1. CASE AdoptSession(p)
  <2> DEFINE i == InPhase(p, SessionCreated)
             j == [i EXCEPT !.session = record.session]
  <2>1. intent' = intent /\ held'[p] = j /\ goal' = goal /\ held[p] \in IntentType
    BY <1>1, MintedNow, Domains DEF AdoptSession, Recovering, WithIntent
  <2>2. i \in IntentType /\ Upto(i, minted)
    BY <2>1, MintedNow, PhasedAsks
  <2> HIDE DEF i
  <2>3. j.message = i.message /\ j.reply = i.reply /\ i # NoIntent
    BY <2>2, NoIntentIsNone DEF IntentType
  <2> HIDE DEF j
  <2>4. Upto(j, minted)
    BY <2>2, <2>3 DEF Upto
  <2> QED BY <1>0, <2>1, <2>4, MintedNow DEF Mints
<1>2. CASE AdoptCommit(p)
  <2> DEFINE i == InPhase(p, Committed)
             j == [i EXCEPT !.commit = Len(log)]
  <2>1. intent' = j /\ held'[p] = j /\ goal' = goal /\ held[p] \in IntentType
    BY <1>2, MintedNow, Domains DEF AdoptCommit, Recovering, WithIntent
  <2>2. i \in IntentType /\ Upto(i, minted)
    BY <2>1, MintedNow, PhasedAsks
  <2> HIDE DEF i
  <2>3. j.message = i.message /\ j.reply = i.reply /\ i # NoIntent
    BY <2>2, NoIntentIsNone DEF IntentType
  <2> HIDE DEF j
  <2>4. Upto(j, minted)
    BY <2>2, <2>3 DEF Upto
  <2> QED BY <1>0, <2>1, <2>4, MintedNow DEF Mints
<1>3. CASE PersistRecovered(p)
  <2>1. /\ goal' = goal /\ held[p] \in IntentType
        /\ intent' = held'[p] /\ held'[p] \in {held[p], InPhase(p, 5)}
    BY <1>3, MintedNow, Domains DEF PersistRecovered, WithIntent
  <2> QED BY <1>0, <2>1, MintedNow DEF Mints
<1>4. CASE FinalizeRecovered(p)
  <2>1. /\ intent' = intent /\ held' = held /\ held[p] \in IntentType
        /\ goal'[p] \in {goal[p], held[p].reply}
    BY <1>4, MintedNow, Domains DEF FinalizeRecovered, Recovering, Resume, WithIntent
  <2>2. held[p].reply <= minted
    BY <2>1, MintedNow, NoIntentIsNone DEF Upto
  <2> QED BY <1>0, <2>1, <2>2, MintedNow DEF Mints
<1>5. CASE /\ Reconcile(p) /\ ~AdoptSession(p) /\ ~AdoptCommit(p) /\ ~PersistRecovered(p)
           /\ ~FinalizeRecovered(p)
  <2>1. intent' = intent /\ held'[p] \in {held[p], intent} /\ goal' = goal
    BY <1>5, MintedNow, Domains DEF Reconcile, ReadIntent, CleanStrandedTree, TombstoneStrand,
       SessionAnswers, ServerSilent, PromptLanded, PromptMissing, StaleRunning, StillRunning,
       PatchOrInsert, SettleCommitted, Upsert, Resume
  <2> QED BY <1>0, <2>1, MintedNow DEF Mints
<1> QED BY <1>1, <1>2, <1>3, <1>4, <1>5

LEMMA CommandMints ==
  ASSUME TurnInv, MintedInv, NEW p \in Proc, Command(p) PROVE Mints(p)
<1>1. CASE Message(p)
  <2> DEFINE i == NewIntent(FALSE, PromptUncertain, record.session, 0)
  <2>1. intent' = intent /\ held'[p] = i /\ goal'[p] = 0 /\ minted' = minted
    BY <1>1, MintedNow, Domains DEF Message
  <2>2. Upto(i, minted)
    BY MintedNow, NewUpto
  <2> QED BY <2>1, <2>2, MintedNow DEF Mints
<1>2. CASE Queue(p)
  <2> DEFINE i == NewIntent(FALSE, PromptUncertain, record.session, minted')
  <2>1. intent' = intent /\ held'[p] = i /\ goal'[p] = minted' /\ minted' = minted + 1
    BY <1>2, MintedNow, Domains DEF Queue
  <2>2. minted' \in Nat /\ minted <= minted' /\ 0 <= minted' /\ minted' <= minted'
    BY <2>1, MintedNow
  <2>3. Upto(i, minted')
    BY <2>2, NewUpto
  <2>4. Upto(intent, minted')
    BY <2>2, MintedNow DEF Upto, IntentType
  <2> QED BY <2>1, <2>2, <2>3, <2>4 DEF Mints
<1>3. CASE Command(p) /\ ~Message(p) /\ ~Queue(p)
  <2>1. /\ intent' = intent /\ held'[p] \in {held[p], intent, NoIntent} /\ minted' = minted
        /\ goal'[p] \in {goal[p], 0} \/ (record # NoRecord /\ goal'[p] = record.message)
    BY <1>3, MintedNow, Domains DEF Command, Begin, List, Follow, OpenJournal, AbortSession,
       PatchAborted, Active
  <2> QED BY <2>1, MintedNow, NoneUpto DEF Mints
<1> QED BY <1>1, <1>2, <1>3

LEMMA RunsMint == ASSUME TurnInv, MintedInv, NEW p \in Proc, Runs(p) PROVE Mints(p)
<1>1. CASE Quit(p)
  <2>1. intent' = intent /\ held'[p] = NoIntent /\ minted' = minted /\ goal'[p] = 0
    BY <1>1, MintedNow, Domains DEF Quit
  <2> QED BY <2>1, MintedNow, NoneUpto DEF Mints
<1> QED BY <1>1, StartMints, PromptMints, FinalizeMints, ReconcileMints, CommandMints DEF Runs

(* What the steps that write to the record write there.                    *)
LEMMA ClaimsWrite ==
  ASSUME TurnInv, NEW p \in Proc, Claims(p)
  PROVE  \/ ReserveRef(p) /\ Writes(p, 0, "running")
         \/ PreserveRecord(p) /\ Writes(p, goal[p], "unknown")
         \/ WriteRef(p) /\ Writes(p, goal[p], "running")
         \/ PatchMessage(p) /\ pc[p] = "landed" /\ Writes(p, goal[p], "running")
         \/ /\ PatchMessage(p) /\ pc[p] = "patchqueue"
            /\ record # NoRecord /\ Writes(p, goal[p], record.state)
         \/ /\ PatchOrInsert(p) /\ held[p].phase # SessionCreated
            /\ Writes(p, held[p].message, Upserted(p))
         \/ PatchOrInsert(p) /\ Writes(p, 0, Upserted(p))
         \/ /\ PatchOrInsert(p) /\ (held[p].phase = SessionCreated \/ held[p].message = 0)
            /\ record # NoRecord /\ Writes(p, record.message, Upserted(p))
<1>1. TypeOK /\ MemoryInv
  BY DEF TurnInv
<1>2. CASE ReserveRef(p)
  BY <1>2 DEF ReserveRef, InsertRecord, NewRecord, Writes, NoRecord
<1>3. CASE PreserveRecord(p)
  BY <1>1, <1>3, WriteRecordWrites DEF PreserveRecord
<1>4. CASE WriteRef(p)
  BY <1>1, <1>4, WriteRecordWrites DEF WriteRef
<1>5. CASE PatchMessage(p)
  BY <1>1, <1>5, PatchMessageWrites
<1>6. CASE PatchOrInsert(p)
  BY <1>1, <1>6, UpsertWrites
<1> QED BY <1>2, <1>3, <1>4, <1>5, <1>6 DEF Claims

LEMMA MintedKept ==
  ASSUME TurnInv, MintedInv, NEW p \in Proc, Runs(p) PROVE MintedInv'
<1>1. TypeOK /\ OwnMemory(p) /\ Mints(p)
  BY RunsOwn, RunsMint DEF TurnInv
<1>2. \A q \in Proc : q # p => held'[q] = held[q] /\ goal'[q] = goal[q]
  BY <1>1, Domains DEF OwnMemory
<1>3. record' # NoRecord => record'.message <= minted'
  <2>1. CASE ClaimKept
    BY <1>1, <2>1, MintedNow DEF ClaimKept, Mints
  <2>2. CASE Claims(p)
    <3>1. PatchOrInsert(p) => held[p] \in IntentType
      BY MintedNow, UpsertWrites DEF TurnInv
    <3>2. held[p] \in IntentType => held[p].message \in Nat /\ held[p].message <= minted
      BY MintedNow, NoIntentIsNone, TurnIsNat DEF Upto, IntentType
    <3>3. /\ minted \in Nat /\ minted' \in Nat /\ minted <= minted'
          /\ goal[p] \in Nat /\ goal[p] <= minted
          /\ record # NoRecord => record.message \in Nat /\ record.message <= minted
      BY <1>1, MintedNow DEF Mints
    <3>4. record' # NoRecord =>
            \/ record'.message \in {0, goal[p]}
            \/ record # NoRecord /\ record'.message = record.message
            \/ held[p] \in IntentType /\ record'.message = held[p].message
      BY <2>2, <3>1, ClaimsWrite DEF Writes
    <3> QED BY <3>2, <3>3, <3>4
  <2> QED BY <1>1, <2>1, <2>2, RunsClaim
<1>4. ASSUME NEW q \in Proc PROVE Upto(held'[q], minted') /\ goal'[q] <= minted'
  <2>1. CASE q = p
    BY <1>1, <2>1 DEF Mints
  <2>2. CASE q # p
    <3>1. held'[q] = held[q] /\ goal'[q] = goal[q]
      BY <1>2, <2>2
    <3>2. /\ held[q] # NoIntent => held[q].message \in Nat /\ held[q].reply \in Nat
          /\ Upto(held[q], minted) /\ goal[q] \in Nat /\ goal[q] <= minted
      BY MintedNow, TurnIsNat DEF IntentType
    <3> QED BY <1>1, <3>1, <3>2, MintedNow DEF Upto, Mints
  <2> QED BY <2>1, <2>2
<1> QED BY <1>1, <1>3, <1>4 DEF MintedInv, Minted, Mints, Upto
-----------------------------------------------------------------------------
(* UnrecordedInv and AnswerInv: what makes the local proof one.            *)

(* What the next state says of an intent.                                  *)
ProvenNext(i) ==
  Waiting(i) =>
    /\ i.message \in Turn
    /\ record' # NoRecord /\ record'.state = "running" /\ record'.message = i.message =>
         status'[i.message] \in Admitted

LEMMA ProvenStays ==
  ASSUME NEW i, Proven(i), StatusKept, ClaimKept PROVE ProvenNext(i)
<1> SUFFICES ASSUME Waiting(i) PROVE ProvenNext(i)
  BY DEF ProvenNext
<1>1. /\ i.message \in Turn
      /\ record # NoRecord /\ record.state = "running" /\ record.message = i.message =>
           status[i.message] \in Admitted
  BY DEF Proven
<1> QED BY <1>1 DEF ProvenNext, StatusKept, ClaimKept

(* A record that claims another message, or claims nothing.                *)
LEMMA ProvenApart ==
  ASSUME NEW i, Proven(i), NEW p \in Proc, NEW m, NEW state, Writes(p, m, state),
         m # i.message \/ state # "running"
  PROVE  ProvenNext(i)
BY DEF Proven, ProvenNext, Writes

(* A step of the dispatch before its acknowledgement.                      *)
Unrecords ==
  /\ ~DispatchOver' => pc'[Dispatcher] \in Unacknowledged
  /\ pc'[Dispatcher] \in Unrecorded =>
       /\ record' # NoRecord => record'.message = 0
       /\ pc'[Dispatcher] \in {"reserved", "treed", "stored"} => ~Waiting(held'[Dispatcher])
       /\ pc'[Dispatcher] \in Sending => held'[Dispatcher].message \in Turn
  /\ pc'[Dispatcher] \in {"landed", "ack"} => ~Waiting(intent')

LEMMA UnrecordedNow ==
  ASSUME TurnInv, UnrecordedInv, ~DispatchOver
  PROVE  /\ TypeOK /\ Dispatcher \in Proc /\ pc[Dispatcher] \in Unacknowledged
         /\ cmd[Dispatcher] = "dispatch"
         /\ pc[Dispatcher] # "ack" => record = NoRecord \/ record.message = 0
         /\ pc[Dispatcher] \in {"reserved", "treed", "stored"} => ~Waiting(held[Dispatcher])
         /\ pc[Dispatcher] \in Sending => held[Dispatcher].message \in Turn
         /\ pc[Dispatcher] \in {"landed", "ack"} => ~Waiting(intent)
         /\ pc[Dispatcher] \in WithIntent => held[Dispatcher] \in IntentType
<1>1. TypeOK /\ Dispatcher \in Proc /\ DispatcherInv /\ MemoryInv
  BY Actors DEF TurnInv
<1>2. pc[Dispatcher] \in Unacknowledged /\ cmd[Dispatcher] = "dispatch"
  BY <1>1, AtDispatch DEF UnrecordedInv
<1>3. pc[Dispatcher] \in WithIntent => held[Dispatcher] \in IntentType
  BY <1>1 DEF MemoryInv
<1>4. pc[Dispatcher] # "ack" =>
        /\ record = NoRecord \/ record.message = 0
        /\ pc[Dispatcher] \in {"reserved", "treed", "stored"} => ~Waiting(held[Dispatcher])
        /\ pc[Dispatcher] \in Sending => held[Dispatcher].message \in Turn
  BY <1>2 DEF UnrecordedInv, Unrecorded
<1>5. pc[Dispatcher] \in {"landed", "ack"} => ~Waiting(intent)
  BY DEF UnrecordedInv
<1> QED BY <1>1, <1>2, <1>3, <1>4, <1>5 DEF Sending

LEMMA OnlyProcess ==
  ASSUME TurnInv, UnrecordedInv, ~DispatchOver, Runs(Dispatcher)
  PROVE  Start(Dispatcher) \/ Prompt(Dispatcher) \/ Quit(Dispatcher)
<1> DEFINE D == Dispatcher
<1>0. DispatcherInv /\ D \in Proc /\ pc[D] \in Unacknowledged
  BY UnrecordedNow DEF TurnInv
<1>1. ~Finalize(D)
  BY <1>0 DEF Finalize, SaveCursor, TerminalObserved, Watches, ReplyInvalid, ReadTerminal,
     CloseTurn, ValidateTree, Commit, PersistCommitted, PatchTerminal, RemoveIntent, Unacknowledged
<1>2. ~Reconcile(D) /\ ~Command(D)
  BY <1>0, Actors, ReconcileActor, CommandActor
<1> QED BY <1>1, <1>2 DEF Runs

(* The record and the places of the dispatch.                              *)
LEMMA DispatchRecord ==
  ASSUME TurnInv, UnrecordedInv, ~DispatchOver, Runs(Dispatcher)
  PROVE  \/ ClaimKept
         \/ ReserveRef(Dispatcher) /\ Writes(Dispatcher, 0, "running")
         \/ PreserveRecord(Dispatcher) /\ Writes(Dispatcher, goal[Dispatcher], "unknown")
         \/ WriteRef(Dispatcher) /\ Writes(Dispatcher, goal[Dispatcher], "running")
<1> DEFINE D == Dispatcher
<1>1. TypeOK /\ D \in Proc /\ pc[D] \in Unacknowledged /\ cmd[D] = "dispatch"
  BY UnrecordedNow
<1>2. ~PatchMessage(D) /\ ~PatchOrInsert(D)
  BY <1>1 DEF PatchMessage, PatchOrInsert, Unacknowledged
<1> QED BY <1>1, <1>2, RunsClaim, ClaimsWrite

LEMMA StartUnrecords ==
  ASSUME TurnInv, UnrecordedInv, ~DispatchOver, Start(Dispatcher) PROVE Unrecords
<1> DEFINE D == Dispatcher
<1>1. TypeOK /\ D \in Proc /\ pc[D] \in Unacknowledged /\ ~DispatchOver
  BY UnrecordedNow
<1>2. pc'[D] \in (Unacknowledged \ (Sending \cup {"ack"})) \cup {"ended"}
  BY <1>1, Domains DEF Start, PlanIntent, ReserveRef, CreateTree, CreateTreeFails, StoreTree,
     PersistReady, CreateSession, SubscribeUnreachable, PromptUnreachable, Recreate,
     FailBeforePrompt, CleanTree, CleanIntent, DiscardUnacknowledged, Unacknowledged, Sending
<1>3. pc[D] # "ack"
  BY DEF Start, PlanIntent, ReserveRef, CreateTree, CreateTreeFails, StoreTree,
     PersistReady, CreateSession, SubscribeUnreachable, PromptUnreachable, Recreate,
     FailBeforePrompt, CleanTree, CleanIntent, DiscardUnacknowledged
<1>4. record' # NoRecord => record'.message = 0
  <2>1. ~PreserveRecord(D) /\ ~WriteRef(D)
    BY DEF Start, PlanIntent, ReserveRef, CreateTree, CreateTreeFails, StoreTree,
       PersistReady, CreateSession, SubscribeUnreachable, PromptUnreachable, Recreate,
       FailBeforePrompt, CleanTree, CleanIntent, DiscardUnacknowledged, PreserveRecord, WriteRef
  <2> QED BY <1>3, <2>1, DispatchRecord, UnrecordedNow DEF Runs, ClaimKept, Writes
<1>5. pc'[D] \in {"reserved", "treed", "stored"} => ~Waiting(held'[D])
  <2>1. CASE ReserveRef(D)
    <3>1. held'[D] = NewIntent(TRUE, Planned, 0, 0)
      BY <1>1, <2>1, Domains DEF ReserveRef
    <3> QED BY <3>1 DEF NewIntent, Waiting
  <2>2. CASE CreateTree(D)
    <3>1. held'[D] = InPhase(D, 2) /\ held[D] \in IntentType
      BY <1>1, <2>2, UnrecordedNow, Domains DEF CreateTree, WithIntent
    <3> QED BY <1>1, <3>1, PhasedAsks DEF Waiting
  <2>3. CASE StoreTree(D)
    <3>1. held' = held /\ pc[D] = "treed"
      BY <2>3 DEF StoreTree
    <3> QED BY <3>1, UnrecordedNow
  <2>4. CASE Start(D) /\ ~ReserveRef(D) /\ ~CreateTree(D) /\ ~StoreTree(D)
    BY <1>1, <2>4, Domains DEF Start, PlanIntent, CreateTreeFails,
       PersistReady, CreateSession, SubscribeUnreachable, PromptUnreachable, Recreate,
       FailBeforePrompt, CleanTree, CleanIntent, DiscardUnacknowledged
  <2> QED BY <2>1, <2>2, <2>3, <2>4
<1>6. ~DispatchOver' => pc'[D] # "ended"
  BY DEF DispatchOver
<1> QED BY <1>2, <1>4, <1>5, <1>6 DEF Unrecords, Unrecorded, Unacknowledged, Sending

LEMMA PromptUnrecords ==
  ASSUME TurnInv, UnrecordedInv, ~DispatchOver, Prompt(Dispatcher) PROVE Unrecords
<1> DEFINE D == Dispatcher
<1>1. TypeOK /\ D \in Proc /\ pc[D] \in Unacknowledged /\ cmd[D] = "dispatch"
  BY UnrecordedNow
<1>2. /\ pc'[D] \in Sending \cup {"ack", "waiting", "ended"}
      /\ pc'[D] = "ack" => WriteRef(D)
      /\ pc'[D] = "landed" => PersistRunning(D)
      /\ pc'[D] = "waiting" => acked'
      /\ pc[D] = "ack" => pc'[D] = "waiting"
      /\ PreserveRecord(D) => pc'[D] = "ended"
  BY <1>1, Domains DEF Prompt, PersistUncertain, Send, Accepted, ResponseLost, MessageFails,
     Confirmed, ConfirmTimesOut, PreserveIntent, PreserveRecord, PersistRunning, WriteRef,
     Acknowledge, PatchMessage, Unacknowledged, Sending
<1>3. pc'[D] \in Sending => record' = NoRecord \/ record'.message = 0
  <2>1. ~ReserveRef(D)
    BY DEF ReserveRef, Prompt, PersistUncertain, Send, Accepted, ResponseLost, MessageFails,
     Confirmed, ConfirmTimesOut, PreserveIntent, PreserveRecord, PersistRunning, WriteRef,
     Acknowledge, PatchMessage
  <2>2. WriteRef(D) => pc'[D] = "ack"
    BY <1>1, Domains DEF WriteRef
  <2> QED BY <1>2, <2>1, <2>2, DispatchRecord, UnrecordedNow DEF Runs, ClaimKept, Sending
<1>4. pc'[D] \in Sending => held'[D].message \in Turn
  <2>1. CASE PersistUncertain(D)
    <3> DEFINE t == IF goal[D] = 0 THEN minted + 1 ELSE goal[D]
               i == InPhase(D, PromptUncertain)
               j == [i EXCEPT !.message = t]
    <3>1. held'[D] = j /\ held[D] \in IntentType /\ (goal[D] = 0 => minted < MaxTurns)
      BY <1>1, <2>1, UnrecordedNow, Domains DEF PersistUncertain, WithIntent
    <3>2. t \in Turn
      BY <1>1, <3>1, ServerTypes, Own, TurnIsNat DEF Turn
    <3>3. i \in IntentType
      BY <1>1, <3>1, PhasedAsks
    <3> HIDE DEF i, t
    <3>4. j.message = t
      BY <3>3 DEF IntentType
    <3> QED BY <3>1, <3>2, <3>4
  <2>2. CASE PreserveIntent(D) \/ PersistRunning(D)
    <3>1. held'[D] \in {InPhase(D, 4), InPhase(D, 5)} /\ held[D] \in IntentType /\ pc[D] \in Sending
      BY <1>1, <2>2, UnrecordedNow, Domains DEF PreserveIntent, PersistRunning, WithIntent, Sending
    <3> QED BY <1>1, <3>1, PhasedAsks, UnrecordedNow
  <2>3. CASE Prompt(D) /\ ~PersistUncertain(D) /\ ~PreserveIntent(D) /\ ~PersistRunning(D)
    <3>1. pc'[D] \in Sending => held' = held /\ pc[D] \in Sending
      BY <1>1, <2>3, Domains DEF Prompt, Send, Accepted, ResponseLost, MessageFails,
         Confirmed, ConfirmTimesOut, PreserveRecord, WriteRef, Acknowledge, PatchMessage, Sending
    <3> QED BY <3>1, UnrecordedNow
  <2> QED BY <2>1, <2>2, <2>3
<1>5. pc'[D] \in {"landed", "ack"} => ~Waiting(intent')
  <2>1. CASE PersistRunning(D)
    <3>1. intent' = InPhase(D, 5) /\ held[D] \in IntentType
      BY <1>1, <2>1, UnrecordedNow DEF PersistRunning, WithIntent
    <3> QED BY <1>1, <3>1, PhasedAsks DEF Waiting
  <2>2. CASE WriteRef(D)
    <3>1. intent' = intent /\ pc[D] = "landed"
      BY <2>2 DEF WriteRef
    <3> QED BY <3>1, UnrecordedNow
  <2> QED BY <1>2, <2>1, <2>2
<1>6. ~DispatchOver' => pc'[D] \notin {"ended", "waiting"}
  BY <1>2 DEF DispatchOver
<1> QED BY <1>2, <1>3, <1>4, <1>5, <1>6 DEF Unrecords, Unrecorded, Unacknowledged, Sending

(* What the dispatch writes is proven.                                     *)
LEMMA DispatchProves ==
  ASSUME TurnInv, UnrecordedInv, Proven(intent), ~DispatchOver, Runs(Dispatcher)
  PROVE  ProvenNext(intent')
<1> DEFINE D == Dispatcher
<1>1. /\ TypeOK /\ D \in Proc /\ pc[D] \in Unacknowledged /\ StatusKept
      /\ pc[D] # "ack" => record = NoRecord \/ record.message = 0
  BY UnrecordedNow, RunsStatus
<1>2. 0 \notin Turn
  BY DEF Turn
<1>3. CASE ~Waiting(intent')
  BY <1>3 DEF ProvenNext
<1>4. CASE intent' = intent
  <2>1. CASE ClaimKept
    BY <1>1, <1>4, <2>1, ProvenStays
  <2>2. CASE ReserveRef(D) /\ Writes(D, 0, "running")
    <3>1. CASE Waiting(intent)
      <4>1. intent.message # 0
        BY <1>2, <3>1 DEF Proven
      <4> QED BY <1>1, <1>4, <2>2, <4>1, ProvenApart
    <3>2. CASE ~Waiting(intent)
      BY <1>3, <1>4, <3>2
    <3> QED BY <3>1, <3>2
  <2>3. CASE Writes(D, goal[D], "unknown")
    BY <1>1, <1>4, <2>3, ProvenApart
  <2>4. CASE WriteRef(D)
    <3>1. pc[D] = "landed"
      BY <2>4 DEF WriteRef
    <3> QED BY <1>3, <1>4, <3>1, UnrecordedNow
  <2> QED BY <2>1, <2>2, <2>3, <2>4, DispatchRecord
<1>5. CASE Asks(D)
  <2>1. CASE PersistReady(D)
    <3>1. pc[D] = "stored" /\ intent' = held[D]
      BY <2>1 DEF PersistReady
    <3> QED BY <1>3, <3>1, UnrecordedNow
  <2>2. CASE PersistUncertain(D) \/ PreserveIntent(D)
    <3>1. /\ record' = record /\ pc[D] # "ack" /\ intent' = held'[D] /\ pc'[D] \in {"prompt", "preserved"}
      BY <1>1, <2>2, Domains DEF PersistUncertain, PreserveIntent
    <3>2. Unrecords
      BY <2>2, PromptUnrecords DEF Prompt
    <3>3. intent'.message \in Turn
      BY <3>1, <3>2 DEF Unrecords, Unrecorded, Unacknowledged, Sending
    <3>4. record' = NoRecord \/ record'.message = 0
      BY <1>1, <3>1
    <3> QED BY <1>2, <3>3, <3>4 DEF ProvenNext
  <2> QED BY <1>5, <2>1, <2>2 DEF Asks
<1> QED BY <1>1, <1>3, <1>4, <1>5, RunsAsk

-----------------------------------------------------------------------------
(* Once the dispatch is over.                                              *)

AnswerNext(o) ==
  /\ pc'[o] \in {"recover", "upsert"} =>
       ProvenNext(held'[o]) /\ (Waiting(intent') => held'[o] = intent')
  /\ pc'[o] = "upsert" /\ Waiting(held'[o]) /\ then'[o] # "remove" =>
       status'[held'[o].message] \in Admitted
  /\ pc'[o] = "ready" => cmd'[o] = "message" /\ goal'[o] = 0
  /\ pc'[o] \in {"confirmed", "landed"} => status'[goal'[o]] \in Admitted
  /\ pc'[o] = "patchqueue" \/ (cmd'[o] = "queue" /\ pc'[o] \in {"prompt", "sent"}) =>
       (Waiting(intent') => intent'.message # goal'[o])

(* Where an operator has nothing to answer for.                            *)
Elsewhere(o) ==
  /\ pc'[o] \notin {"recover", "upsert", "ready", "confirmed", "landed", "patchqueue"}
  /\ cmd'[o] = "queue" => pc'[o] \notin {"prompt", "sent"}

LEMMA NothingToAnswer == ASSUME NEW o \in Operators, Elsewhere(o) PROVE AnswerNext(o)
BY DEF Elsewhere, AnswerNext

LEMMA AnswerNow ==
  ASSUME TurnInv, AnswerInv, NEW o \in Operators
  PROVE  /\ TypeOK /\ MemoryInv /\ o \in Proc /\ o # Dispatcher
         /\ pc[o] \in {"recover", "upsert"} =>
              Proven(held[o]) /\ (Waiting(intent) => held[o] = intent) /\ held[o] \in IntentType
         /\ pc[o] = "upsert" /\ Waiting(held[o]) /\ then[o] # "remove" =>
              status[held[o].message] \in Admitted
         /\ pc[o] = "ready" => cmd[o] = "message" /\ goal[o] = 0
         /\ pc[o] \in {"confirmed", "landed"} => status[goal[o]] \in Admitted
         /\ Queuing(o) /\ Waiting(intent) => intent.message # goal[o]
         /\ pc[o] \in WithGoal => goal[o] \in Turn
         /\ pc[o] \notin Alien
         /\ then[o] \in {"end", "resume", "persist", "remove"}
<1>1. TypeOK /\ MemoryInv /\ o \in Proc /\ o # Dispatcher /\ pc[o] \notin Alien
  BY Actors, AtDispatch DEF TurnInv
<1>2. /\ pc[o] \in {"recover", "upsert"} => held[o] \in IntentType
      /\ pc[o] \in WithGoal => goal[o] \in Turn
  BY <1>1 DEF MemoryInv, WithIntent
<1>3. then[o] \in {"end", "resume", "persist", "remove"}
  BY <1>1, Own
<1> QED BY <1>1, <1>2, <1>3 DEF AnswerInv

(* Another's step that keeps the claim of the record and asks nothing.     *)
LEMMA AnswerStays ==
  ASSUME TurnInv, AnswerInv, NEW o \in Operators, StatusKept, ClaimKept,
         intent' = intent \/ ~Waiting(intent'),
         pc'[o] = pc[o], cmd'[o] = cmd[o], held'[o] = held[o], goal'[o] = goal[o], then'[o] = then[o]
  PROVE  AnswerNext(o)
<1>1. pc[o] \in {"recover", "upsert"} =>
        ProvenNext(held[o]) /\ (Waiting(intent') => held[o] = intent')
  BY AnswerNow, ProvenStays
<1>2. pc[o] = "upsert" /\ Waiting(held[o]) /\ then[o] # "remove" =>
        status'[held[o].message] \in Admitted
  <2> SUFFICES ASSUME pc[o] = "upsert", Waiting(held[o]), then[o] # "remove"
               PROVE  status'[held[o].message] \in Admitted
    OBVIOUS
  <2>1. held[o].message \in Turn
    BY AnswerNow DEF Proven
  <2> QED BY <2>1, AnswerNow DEF StatusKept
<1>3. pc[o] \in {"confirmed", "landed"} => status'[goal[o]] \in Admitted
  BY AnswerNow DEF StatusKept, WithGoal
<1>4. Queuing(o) => (Waiting(intent') => intent'.message # goal[o])
  BY AnswerNow
<1> QED BY <1>1, <1>2, <1>3, <1>4, AnswerNow DEF AnswerNext, Queuing

LEMMA PromptAnswers ==
  ASSUME TurnInv, AnswerInv, NEW o \in Operators, Prompt(o) PROVE AnswerNext(o)
<1>0. TypeOK /\ o \in Proc /\ o # Dispatcher /\ pc[o] \notin Alien
  BY AnswerNow
<1>1. CASE PersistUncertain(o) \/ MessageFails(o) \/ PatchMessage(o)
  <2>1. Elsewhere(o)
    <3>1. pc'[o] \in {"prompt", "remove", "idle"} /\ (pc'[o] = "prompt" => cmd' = cmd /\ pc[o] = "ready")
      BY <1>0, <1>1, Domains DEF PersistUncertain, MessageFails, PatchMessage
    <3> QED BY <3>1, AnswerNow DEF Elsewhere
  <2> QED BY <2>1, NothingToAnswer
<1>2. CASE Send(o) \/ Accepted(o)
  <2>1. /\ UNCHANGED <<intent, cmd, held, goal>>
        /\ \/ pc[o] = "prompt" /\ pc'[o] = "sent"
           \/ pc[o] = "sent" /\ pc'[o] = IF cmd[o] = "queue" THEN "patchqueue" ELSE "confirm"
    BY <1>0, <1>2, Domains DEF Send, Accepted
  <2> QED BY <2>1, AnswerNow DEF AnswerNext, Queuing
<1>3. CASE Confirmed(o) \/ PersistRunning(o)
  <2>1. /\ pc'[o] \in {"confirmed", "landed"} /\ UNCHANGED <<goal, status>>
        /\ status[goal[o]] \in Admitted
    BY <1>0, <1>3, AnswerNow, Domains DEF Confirmed, PersistRunning
  <2> QED BY <2>1 DEF AnswerNext
<1>4. ~ResponseLost(o) /\ ~ConfirmTimesOut(o) /\ ~PreserveIntent(o) /\ ~PreserveRecord(o)
      /\ ~WriteRef(o) /\ ~Acknowledge(o)
  BY <1>0 DEF ResponseLost, ConfirmTimesOut, PreserveIntent, PreserveRecord, WriteRef, Acknowledge,
     Alien, Unacknowledged, Shared, Settling
<1> QED BY <1>1, <1>2, <1>3, <1>4 DEF Prompt

LEMMA FinalizeElsewhere ==
  ASSUME TurnInv, NEW o \in Operators, Finalize(o) PROVE Elsewhere(o)
BY Domains, Actors DEF TurnInv, Finalize, SaveCursor, TerminalObserved, Watches, ReplyInvalid,
   ReadTerminal, CloseTurn, ValidateTree, Commit, PersistCommitted, PatchTerminal, RemoveIntent,
   Elsewhere

LEMMA ReconcileAnswers ==
  ASSUME TurnInv, Proven(intent), AnswerInv, NEW o \in Operators, Reconcile(o) PROVE AnswerNext(o)
<1>0. TypeOK /\ o \in Proc
  BY AnswerNow
<1>1. CASE ReadIntent(o)
  <2>1. /\ pc'[o] \in {"resume", "recover"} /\ intent' = intent /\ held'[o] = intent
        /\ UNCHANGED <<record, status>>
    BY <1>0, <1>1, Domains DEF ReadIntent
  <2>2. ProvenNext(intent)
    BY <2>1 DEF Proven, ProvenNext
  <2> QED BY <2>1, <2>2 DEF AnswerNext
<1>2. CASE PromptLanded(o)
  <2>1. /\ pc[o] = "recover" /\ pc'[o] = "upsert" /\ UNCHANGED <<intent, held, record, status>>
        /\ RefConfirms(held[o]) \/ HistoryShows(held[o])
    BY <1>0, <1>2, Domains DEF PromptLanded, Recovering, Upsert
  <2>2. Waiting(held[o]) => status[held[o].message] \in Admitted
    BY <2>1, AnswerNow DEF RefConfirms, HistoryShows, Proven
  <2>3. ProvenNext(held[o])
    BY <2>1, AnswerNow DEF Proven, ProvenNext
  <2> QED BY <2>1, <2>2, <2>3, AnswerNow DEF AnswerNext
<1>3. CASE SessionAnswers(o) \/ PromptMissing(o) \/ StillRunning(o)
  <2>1. /\ pc[o] = "recover" /\ pc'[o] \in {"upsert", "resume"}
        /\ UNCHANGED <<intent, held, record, status>>
        /\ held[o].phase # PromptUncertain \/ pc'[o] = "resume" \/ then'[o] = "remove"
    BY <1>0, <1>3, Domains DEF SessionAnswers, PromptMissing, StillRunning, Recovering, Upsert, Resume
  <2>2. ProvenNext(held[o])
    BY <2>1, AnswerNow DEF Proven, ProvenNext
  <2> QED BY <2>1, <2>2, AnswerNow DEF AnswerNext, Waiting
<1>4. CASE AdoptCommit(o)
  <2> DEFINE i == InPhase(o, Committed)
             j == [i EXCEPT !.commit = Len(log)]
  <2>1. pc' = pc /\ pc[o] = "recover" /\ intent' = j /\ held'[o] = j
    BY <1>0, <1>4, Domains DEF AdoptCommit, Recovering
  <2>2. i \in IntentType /\ i.phase = 8
    BY <1>0, <2>1, AnswerNow, PhasedAsks
  <2> HIDE DEF i
  <2>3. j.phase = 8
    BY <2>2 DEF IntentType
  <2> HIDE DEF j
  <2>4. ~Waiting(j)
    BY <2>3 DEF Waiting
  <2> QED BY <2>1, <2>4 DEF AnswerNext, ProvenNext
<1>5. CASE /\ Reconcile(o) /\ ~ReadIntent(o) /\ ~PromptLanded(o) /\ ~SessionAnswers(o)
           /\ ~PromptMissing(o) /\ ~StillRunning(o) /\ ~AdoptCommit(o)
  <2>1. pc[o] = "upsert" => then[o] # "end"
    BY AnswerNow DEF MemoryInv
  <2>2. pc'[o] \in {"persist", "tombstone", "remove", "resume", "finalize"}
    BY <1>0, <1>5, <2>1, AnswerNow, Domains DEF Reconcile, AdoptSession, CleanStrandedTree,
       TombstoneStrand, ServerSilent, StaleRunning, PatchOrInsert, PersistRecovered,
       FinalizeRecovered, SettleCommitted, Resume
  <2>3. Elsewhere(o)
    BY <2>2 DEF Elsewhere
  <2> QED BY <2>3, NothingToAnswer
<1> QED BY <1>1, <1>2, <1>3, <1>4, <1>5

LEMMA CommandAnswers ==
  ASSUME TurnInv, MintedInv, AnswerInv, NEW o \in Operators, Command(o) PROVE AnswerNext(o)
<1>0. TypeOK /\ o \in Proc /\ o # Dispatcher
  BY AnswerNow
<1>1. CASE Message(o)
  <2>1. pc'[o] = "ready" /\ cmd' = cmd /\ cmd[o] = "message" /\ goal'[o] = 0
    BY <1>0, <1>1, Domains DEF Message
  <2> QED BY <2>1 DEF AnswerNext
<1>2. CASE Queue(o)
  <2>1. pc'[o] = "prompt" /\ intent' = intent /\ goal'[o] = minted + 1
    BY <1>0, <1>2, Domains DEF Queue
  <2>2. Waiting(intent) => intent.message \in Nat /\ intent.message <= minted /\ minted \in Nat
    BY <1>0, MintedNow, TurnIsNat DEF Waiting, Upto, IntentType
  <2>3. Waiting(intent) => intent.message # minted + 1
    BY <2>2
  <2> QED BY <2>1, <2>3 DEF AnswerNext
<1>3. CASE Command(o) /\ ~Message(o) /\ ~Queue(o)
  <2>1. pc'[o] \in {"idle", "queue", "abort", "reconcile", "open", "watch", "aborted"}
    BY <1>0, <1>3, Domains DEF Command, Begin, List, Follow, OpenJournal, AbortSession, PatchAborted
  <2>2. Elsewhere(o)
    BY <2>1 DEF Elsewhere
  <2> QED BY <2>2, NothingToAnswer
<1> QED BY <1>1, <1>2, <1>3

LEMMA OperatorAnswers ==
  ASSUME TurnInv, MintedInv, Proven(intent), AnswerInv, NEW o \in Operators, Runs(o)
  PROVE  AnswerNext(o)
<1>1. ~Start(o)
  BY StartActor, Actors DEF TurnInv
<1>2. CASE Quit(o)
  <2>1. pc'[o] = "idle"
    BY <1>2, AnswerNow, Domains DEF Quit
  <2>2. Elsewhere(o)
    BY <2>1 DEF Elsewhere
  <2> QED BY <2>2, NothingToAnswer
<1> QED BY <1>1, <1>2, PromptAnswers, FinalizeElsewhere, NothingToAnswer, ReconcileAnswers,
     CommandAnswers DEF Runs

(* What an operator writes is proven.                                      *)
LEMMA OperatorProves ==
  ASSUME TurnInv, MintedInv, Proven(intent), AnswerInv, NEW o \in Operators, Runs(o)
  PROVE  ProvenNext(intent')
<1>0. TypeOK /\ o \in Proc /\ o # Dispatcher /\ pc[o] \notin Alien /\ StatusKept
  BY AnswerNow, RunsStatus
<1>1. CASE ~Waiting(intent')
  BY <1>1 DEF ProvenNext
<1>2. CASE intent' = intent /\ ClaimKept
  BY <1>0, <1>2, ProvenStays
<1>3. CASE intent' = intent /\ Claims(o) /\ Waiting(intent)
  <2>1. intent.message \in Turn /\ intent.message # 0
    BY <1>3 DEF Proven, Turn
  <2>2. ~ReserveRef(o) /\ ~WriteRef(o) /\ ~PreserveRecord(o)
    BY <1>0 DEF ReserveRef, WriteRef, PreserveRecord, Alien, Unacknowledged, Shared, Settling
  <2>3. CASE pc[o] = "landed" /\ Writes(o, goal[o], "running")
    <3>1. CASE intent.message # goal[o]
      BY <1>0, <1>3, <2>3, <3>1, ProvenApart
    <3>2. CASE intent.message = goal[o]
      BY <1>0, <1>3, <2>1, <2>3, <3>2, AnswerNow DEF ProvenNext, StatusKept
    <3> QED BY <3>1, <3>2
  <2>4. CASE pc[o] = "patchqueue" /\ Writes(o, goal[o], record.state)
    <3>1. intent.message # goal[o]
      BY <1>3, <2>4, AnswerNow DEF Queuing
    <3> QED BY <1>0, <1>3, <2>4, <3>1, ProvenApart
  <2>5. CASE PatchOrInsert(o)
    <3>1. pc[o] = "upsert"
      BY <2>5 DEF PatchOrInsert
    <3>2. held[o] = intent /\ held[o].phase = PromptUncertain
      BY <1>3, <3>1, AnswerNow DEF Waiting
    <3>3. CASE Writes(o, held[o].message, Upserted(o))
      <4>1. CASE then[o] = "remove"
        BY <1>0, <1>3, <3>3, <4>1, ProvenApart DEF Upserted
      <4>2. CASE then[o] # "remove"
        <5>1. status[intent.message] \in Admitted
          BY <1>3, <3>1, <3>2, <4>2, AnswerNow
        <5> QED BY <1>0, <1>3, <2>1, <5>1 DEF ProvenNext, StatusKept
      <4> QED BY <4>1, <4>2
    <3>4. CASE Writes(o, 0, Upserted(o))
      BY <1>0, <1>3, <2>1, <3>4, ProvenApart
    <3> QED BY <1>0, <1>3, <2>1, <2>5, <3>2, <3>3, <3>4, UpsertWrites DEF TurnInv
  <2> QED BY <1>0, <1>3, <2>2, <2>3, <2>4, <2>5, ClaimsWrite
<1>4. CASE Asks(o)
  <2>1. PersistUncertain(o)
    BY <1>0, <1>4 DEF Asks, PersistReady, PreserveIntent, Alien, Unacknowledged, Shared, Settling
  <2> DEFINE t == minted + 1
             i == InPhase(o, PromptUncertain)
             j == [i EXCEPT !.message = t]
  <2>2. intent' = j /\ record' = record /\ held[o] \in IntentType /\ minted < MaxTurns
    BY <1>0, <2>1, AnswerNow DEF PersistUncertain, WithIntent, MemoryInv
  <2>3. t \in Turn /\ (record # NoRecord => record.message # t)
    BY <1>0, <2>2, MintedNow, TurnIsNat DEF Turn
  <2>4. i \in IntentType
    BY <1>0, <2>2, PhasedAsks
  <2> HIDE DEF i, t
  <2>5. j.message = t
    BY <2>4 DEF IntentType
  <2> QED BY <2>2, <2>3, <2>5 DEF ProvenNext
<1> QED BY <1>0, <1>1, <1>2, <1>3, <1>4, RunsAsk, RunsClaim

(* An idle operator can only begin a command.                              *)
LEMMA FromIdle ==
  ASSUME TurnInv, NEW o \in Operators, Runs(o), pc[o] = "idle"
  PROVE  UNCHANGED <<record, intent, status>>
<1>1. ~Start(o)
  BY StartActor, Actors DEF TurnInv
<1>2. ~Prompt(o)
  BY DEF Prompt, PersistUncertain, Send, Accepted, ResponseLost, MessageFails,
     Confirmed, ConfirmTimesOut, PreserveIntent, PreserveRecord, PersistRunning, WriteRef,
     Acknowledge, PatchMessage
<1>3. ~Finalize(o)
  BY DEF Finalize, SaveCursor, TerminalObserved, Watches, ReplyInvalid, ReadTerminal,
     CloseTurn, ValidateTree, Commit, PersistCommitted, PatchTerminal, RemoveIntent
<1>4. ~Reconcile(o)
  BY DEF Reconcile, ReadIntent, AdoptSession, CleanStrandedTree, TombstoneStrand,
     SessionAnswers, ServerSilent, PromptLanded, PromptMissing, StaleRunning, StillRunning,
     PatchOrInsert, PersistRecovered, AdoptCommit, FinalizeRecovered, SettleCommitted, Recovering,
     Upsert, Resume
<1>5. CASE Command(o)
  BY <1>5 DEF Command, Begin, List, Follow, OpenJournal, Message, Queue, AbortSession, PatchAborted
<1> QED BY <1>1, <1>2, <1>3, <1>4, <1>5 DEF Runs, Quit

LEMMA OverStays ==
  ASSUME TurnInv, DispatchOver, NEW p \in Proc, Runs(p) PROVE DispatchOver'
<1>1. CASE acked
  BY <1>1, AckedStays DEF DispatchOver
<1>2. CASE ~acked
  BY <1>2, FailedRuns DEF DispatchOver
<1> QED BY <1>1, <1>2

LEMMA OverUnrecorded == ASSUME TurnInv', DispatchOver' PROVE UnrecordedInv'
<1>1. pc'[Dispatcher] \in Acknowledged \/ (~acked' /\ pc'[Dispatcher] \in Unacknowledged)
  BY DEF TurnInv, DispatcherInv
<1>2. pc'[Dispatcher] \notin Unacknowledged
  BY <1>1 DEF DispatchOver, Acknowledged, Unacknowledged, Settling
<1> QED BY <1>2 DEF UnrecordedInv, Unrecorded, Unacknowledged

(* The steps of the dispatch after its acknowledgement.                    *)
LEMMA DispatchQuiet ==
  ASSUME TurnInv, DispatchOver, Runs(Dispatcher)
  PROVE  ClaimKept /\ (intent' = intent \/ ~Waiting(intent'))
<1> DEFINE D == Dispatcher
<1>1. TypeOK /\ DispatcherInv /\ D \in Proc
  BY Actors DEF TurnInv
<1>2. acked
  BY <1>1, FailedRuns, Actors DEF DispatchOver
<1>3. pc[D] \in Acknowledged
  BY <1>2, AtDispatch, <1>1
<1>4. ~Claims(D) /\ ~Asks(D)
  BY <1>3 DEF Claims, Asks, ReserveRef, PreserveRecord, WriteRef, PatchMessage, PatchOrInsert,
     PersistReady, PersistUncertain, PreserveIntent, Acknowledged, Settling
<1> QED BY <1>1, <1>4, RunsClaim, RunsAsk

LEMMA OverAnswers ==
  ASSUME Serial, TurnInv, TurnInv', LockInv, MintedInv, Proven(intent), AnswerInv, DispatchOver,
         NEW p \in Proc, Runs(p)
  PROVE  ProvenNext(intent') /\ \A o \in Operators : AnswerNext(o)
<1>1. /\ TypeOK /\ StatusKept
      /\ \A q \in Proc : q # p =>
           /\ pc'[q] = pc[q] /\ cmd'[q] = cmd[q] /\ held'[q] = held[q]
           /\ goal'[q] = goal[q] /\ then'[q] = then[q]
  BY RunsOwn, RunsStatus, Domains DEF TurnInv, OwnPlace, OwnMemory
<1>2. CASE p = Dispatcher
  <2>1. ClaimKept /\ (intent' = intent \/ ~Waiting(intent'))
    BY <1>2, DispatchQuiet
  <2>2. ProvenNext(intent')
    <3>1. CASE intent' = intent
      BY <1>1, <2>1, <3>1, ProvenStays
    <3>2. CASE ~Waiting(intent')
      BY <3>2 DEF ProvenNext
    <3> QED BY <2>1, <3>1, <3>2
  <2> QED BY <1>1, <1>2, <2>1, <2>2, AnswerStays, Actors
<1>3. CASE p \in Operators
  <2>1. ProvenNext(intent') /\ AnswerNext(p)
    BY <1>3, OperatorProves, OperatorAnswers
  <2>2. ASSUME NEW o \in Operators, o # p PROVE AnswerNext(o)
    <3>1. CASE pc[p] = "idle"
      <4>1. ClaimKept /\ intent' = intent
        BY <1>3, <3>1, FromIdle DEF ClaimKept
      <4> QED BY <1>1, <2>2, <4>1, AnswerStays, Actors
    <3>2. CASE pc[p] # "idle"
      <4>1. pc'[o] = "idle"
        BY <1>1, <1>3, <2>2, <3>2, Alone, Actors
      <4>2. Elsewhere(o)
        BY <4>1 DEF Elsewhere
      <4> QED BY <4>2, NothingToAnswer
    <3> QED BY <3>1, <3>2
  <2> QED BY <2>1, <2>2
<1> QED BY <1>2, <1>3, Actors

LEMMA ProcProves ==
  ASSUME Serial, ~Overlap, TurnInv, TurnInv', KeptInv, ProofInv, NEW p \in Proc, Runs(p)
  PROVE  ProofInv'
<1>1. LockInv /\ MintedInv /\ Proven(intent) /\ UnrecordedInv /\ AnswerInv
  BY DEF ProofInv
<1>2. LockInv' /\ MintedInv'
  BY <1>1, LockKept, MintedKept
<1>3. CASE ~DispatchOver
  <2>1. p = Dispatcher
    BY <1>3, OnlyDispatch
  <2>2. ProvenNext(intent') /\ Unrecords
    <3>1. CASE Quit(p)
      <4>1. pc'[Dispatcher] = "ended"
        BY <2>1, <3>1, Actors, Domains DEF Quit, TurnInv
      <4> QED BY <1>1, <1>3, <2>1, <4>1, DispatchProves DEF Unrecords, DispatchOver, Unrecorded, Unacknowledged
    <3> QED BY <1>1, <1>3, <2>1, <3>1, DispatchProves, OnlyProcess, StartUnrecords, PromptUnrecords
  <2>3. ASSUME NEW o \in Operators PROVE AnswerNext(o)
    <3>1. pc'[o] = "idle"
      BY <2>1, RunsOwn, BeforeAck, <1>3, Actors, Domains DEF OwnPlace, TurnInv
    <3>2. Elsewhere(o)
      BY <3>1 DEF Elsewhere
    <3> QED BY <3>2, NothingToAnswer
  <2>4. Proven(intent)'
    BY <2>2 DEF Proven, ProvenNext, Waiting
  <2>5. UnrecordedInv'
    BY <2>2 DEF Unrecords, UnrecordedInv, Waiting
  <2>6. AnswerInv'
    BY <2>3 DEF AnswerInv, AnswerNext, Proven, ProvenNext, Waiting, Queuing
  <2> QED BY <1>2, <2>4, <2>5, <2>6 DEF ProofInv
<1>4. CASE DispatchOver
  <2>1. ProvenNext(intent') /\ \A o \in Operators : AnswerNext(o)
    BY <1>1, <1>4, OverAnswers
  <2>2. UnrecordedInv'
    BY <1>4, OverStays, OverUnrecorded
  <2>3. Proven(intent)'
    BY <2>1 DEF Proven, ProvenNext, Waiting
  <2>4. AnswerInv'
    BY <2>1 DEF AnswerInv, AnswerNext, Proven, ProvenNext, Waiting, Queuing
  <2> QED BY <1>2, <2>2, <2>3, <2>4 DEF ProofInv
<1> QED BY <1>3, <1>4

LEMMA ServerProves ==
  ASSUME TurnInv, ProofInv, UNCHANGED <<record, intent, turnLock, minted, acked, cmd, pc, held, goal, then>>,
         StatusKept
  PROVE  ProofInv'
<1>1. LockInv /\ MintedInv /\ Proven(intent) /\ UnrecordedInv /\ AnswerInv
  BY DEF ProofInv
<1>2. LockInv' /\ MintedInv' /\ UnrecordedInv'
  BY <1>1 DEF LockInv, MintedInv, Minted, UnrecordedInv, DispatchOver, Waiting
<1>3. ClaimKept
  BY DEF ClaimKept
<1>4. Proven(intent)'
  <2>1. ProvenNext(intent)
    BY <1>1, <1>3, ProvenStays
  <2> QED BY <2>1 DEF Proven, ProvenNext, Waiting
<1>5. \A o \in Operators : AnswerNext(o)
  BY <1>1, <1>3, AnswerStays
<1>6. AnswerInv'
  BY <1>5 DEF AnswerInv, AnswerNext, Proven, ProvenNext, Waiting, Queuing
<1> QED BY <1>2, <1>4, <1>6 DEF ProofInv

LEMMA InitProves == Init => ProofInv
<1> SUFFICES ASSUME Init PROVE ProofInv
  OBVIOUS
<1>1. /\ record = NoRecord /\ intent = NoIntent /\ minted = 0 /\ pc[Dispatcher] = "start" /\ acked = FALSE
      /\ \A o \in Operators : pc[o] = "idle" /\ cmd[o] = "none"
      /\ \A p \in Proc : held[p] = NoIntent /\ goal[p] = 0
  BY Actors DEF Init
<1>2. LockInv /\ MintedInv /\ Proven(intent)
  BY <1>1 DEF LockInv, Locking, MintedInv, Minted, Proven, Waiting
<1>3. UnrecordedInv /\ AnswerInv
  BY <1>1 DEF UnrecordedInv, AnswerInv, Queuing, Unacknowledged, Unrecorded, Sending
<1> QED BY <1>2, <1>3 DEF ProofInv

LEMMA NextProves ==
  ASSUME Serial, ~Overlap
  PROVE  TurnInv /\ TurnInv' /\ KeptInv /\ ProofInv /\ [Next]_vars => ProofInv'
<1> SUFFICES ASSUME TurnInv, TurnInv', KeptInv, ProofInv, [Next]_vars PROVE ProofInv'
  OBVIOUS
<1>1. ASSUME NEW p \in Proc, Runs(p) PROVE ProofInv'
  BY <1>1, ProcProves
<1>2. ASSUME NEW t \in Turn, Admit(t) \/ Drop(t) \/ Reply(t) \/ Fail(t) \/ Edit(t) PROVE ProofInv'
  <2>1. UNCHANGED <<record, intent, turnLock, minted, acked, cmd, pc, held, goal, then>>
    BY <1>2 DEF Admit, Drop, Reply, Fail, Edit, Serve
  <2>2. StatusKept
    BY <1>2, ServerTypes DEF TurnInv, Admit, Drop, Reply, Fail, Edit, Serve, StatusKept, Status, Admitted
  <2> QED BY <2>1, <2>2, ServerProves
<1>3. CASE UNCHANGED vars
  <2>1. UNCHANGED <<record, intent, turnLock, minted, acked, cmd, pc, held, goal, then, status>>
    BY <1>3 DEF vars
  <2> QED BY <2>1, ServerProves DEF StatusKept
<1> QED BY <1>1, <1>2, <1>3 DEF Next, Runs

(* For commands that do not meet, and without an `ls` that meets the       *)
(* dispatch at work, the invariant holds in every reachable state.         *)
THEOREM ProofInvariant == ASSUME Serial, ~Overlap PROVE Spec => []ProofInv
<1>1. TurnInv /\ TurnInv' /\ KeptInv /\ ProofInv /\ [Next]_vars => ProofInv'
  BY NextProves
<1> QED BY <1>1, InitProves, TurnInvariant, KeptInvariant, PTL DEF Spec

(* A running record that names the message of an uncertain intent is the   *)
(* proof that recovery takes it for: the session has admitted that message,*)
(* however many turns were sent or queued and whatever was killed, as long *)
(* as the commands that patch the record do not meet.  The run             *)
(* dispatch_proof shows what an `ls` beside an `oca m` does to it.         *)
THEOREM LocalProofIsSound == ASSUME Serial, ~Overlap PROVE Spec => []LocalProofSound
<1>1. ProofInv => LocalProofSound
  BY DEF ProofInv, Proven, Waiting, LocalProofSound, RefConfirms
<1> QED BY <1>1, ProofInvariant, PTL

-----------------------------------------------------------------------------
(* What the invariants say of the program.                                 *)

(* The state of the commands, the files, git and the server is well-typed. *)
THEOREM TypeCorrect == Spec => []TypeOK
<1>1. TurnInv => TypeOK
  BY DEF TurnInv
<1> QED BY <1>1, TurnInvariant, PTL

(* A completion names a message that was sent and has ended with a valid   *)
(* reply: neither finalization, by whoever ends up doing it, nor the       *)
(* settling of a committed intent writes the name of another.  It may be   *)
(* an earlier message than the record's, and the ref may have been aborted *)
(* before it was written.                                                  *)
THEOREM CompletionNamesReply == Spec => []CompletionIsReply
<1>1. TurnInv => CompletionIsReply
  BY DEF TurnInv
<1> QED BY <1>1, TurnInvariant, PTL

(* A ref with a worktree is done only with the name of some commit: that   *)
(* it is the commit of the turn that was settled is not said here, and the *)
(* run dispatch_commit shows that it need not be.                          *)
THEOREM SettledNamesCommit == Spec => []SettledHasCommit
<1>1. TurnInv => SettledHasCommit
  BY DEF TurnInv
<1> QED BY <1>1, TurnInvariant, PTL

(* A dispatch prints its acknowledgement only when the session has shown   *)
(* its message, also with operators that list while it is at work.         *)
THEOREM AckedWasAdmitted == Spec => []AckedIsAdmitted
<1>1. TurnInv => AckedIsAdmitted
  BY DEF TurnInv
<1> QED BY <1>1, TurnInvariant, PTL

(* A ref that was acknowledged keeps its record, session and message, on   *)
(* the assumption that no `ls` met the dispatch at work: the run        *)
(* dispatch_list shows what happens when one does.                         *)
THEOREM AckedRefIsKept == ASSUME ~Overlap PROVE Spec => []AckedIsKept
<1>1. KeptInv => AckedIsKept
  BY DEF KeptInv
<1> QED BY <1>1, KeptInvariant, PTL
=============================================================================

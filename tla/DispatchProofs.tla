--------------------------- MODULE DispatchProofs ---------------------------
(***************************************************************************)
(* NoReplay for every number of operators and messages: no retry of a      *)
(* dispatch, no recovery and no operator's command ever sends a message    *)
(* that may already have left the machine.  The argument is SendInv: what  *)
(* a process is about to send was minted for it, is not what another is    *)
(* about to send, and has not been sent; and only the step that sends it   *)
(* leaves the places from which it can be sent.                            *)
(***************************************************************************)
EXTENDS Dispatch, TLAPS

Continuations == {"end", "resume", "persist", "remove"}

(* What of the types the argument needs.                                   *)
SendTypes ==
  /\ minted \in 0..MaxTurns
  /\ sends \in [Turn -> Nat]
  /\ DOMAIN pc = Proc
  /\ DOMAIN goal = Proc
  /\ then \in [Proc -> Continuations]

Inv == SendTypes /\ SendInv

USE DEF Step, Goto, Hold, Persist, PersistIfHeld, Return, files, git, server,
        local, output, Continuations

LEMMA TurnIsNat == Turn \subseteq Nat /\ MaxTurns \in Nat
BY BoundAssumption DEF Turn

(* A step of p that sends nothing and leaves p where it cannot send.       *)
Leaves(p) ==
  /\ UNCHANGED <<minted, sends>>
  /\ DOMAIN pc' = Proc
  /\ DOMAIN goal' = Proc
  /\ then' \in [Proc -> Continuations]
  /\ \A q \in Proc \ {p} : pc'[q] = pc[q] /\ goal'[q] = goal[q]
  /\ pc'[p] \notin Pending

(* A step of p towards the prompt, with the message it has or without one. *)
Advances(p) ==
  /\ UNCHANGED <<minted, sends, goal, then>>
  /\ DOMAIN pc' = Proc
  /\ \A q \in Proc \ {p} : pc'[q] = pc[q]
  /\ pc[p] \in Pending
  /\ pc'[p] # "prompt"

LEMMA LeavesStep == ASSUME Inv, NEW p \in Proc, Leaves(p) PROVE Inv'
<1>1. SendTypes'
  BY DEF Inv, SendTypes, Leaves
<1>2. "prompt" \in Pending
  BY DEF Pending
<1>3. SendInv'
  BY <1>2 DEF Inv, SendInv, FreshGoal, Leaves
<1>4. QED
  BY <1>1, <1>3 DEF Inv

LEMMA AdvancesStep == ASSUME Inv, NEW p \in Proc, Advances(p) PROVE Inv'
<1>1. SendTypes'
  BY DEF Inv, SendTypes, Advances
<1>2. SendInv'
  BY DEF Inv, SendInv, FreshGoal, Advances
<1>3. QED
  BY <1>1, <1>2 DEF Inv

(* The message is minted here, or was before a retry that sent nothing.    *)
LEMMA PersistUncertainStep ==
  ASSUME Inv, NEW p \in Proc, PersistUncertain(p)
  PROVE  Inv'
<1> DEFINE t == IF goal[p] = 0 THEN minted + 1 ELSE goal[p]
<1>1. /\ pc[p] = "ready" /\ pc' = [pc EXCEPT ![p] = "prompt"]
      /\ goal[p] = 0 => minted < MaxTurns
      /\ minted' = IF goal[p] = 0 THEN t ELSE minted
      /\ goal' = [goal EXCEPT ![p] = t]
      /\ UNCHANGED <<sends, then>>
  BY DEF PersistUncertain
<1>2. "ready" \in Pending
  BY DEF Pending
<1>3. minted \in Nat /\ MaxTurns \in Nat /\ minted <= MaxTurns
  BY TurnIsNat DEF Inv, SendTypes
<1>4. minted' \in 0..MaxTurns /\ minted <= minted'
  BY <1>1, <1>3
<1>5. SendTypes'
  BY <1>1, <1>4 DEF Inv, SendTypes
<1>6. goal[p] # 0 => FreshGoal(p)
  BY <1>1, <1>2 DEF Inv, SendInv
<1>7. t \in 1..minted' /\ t # 0 /\ t \in Turn
  BY <1>1, <1>3, <1>6 DEF FreshGoal, Turn
<1>8. sends[t] = 0
  BY <1>1, <1>3, <1>6, <1>7 DEF FreshGoal, Inv, SendInv
<1>9. goal'[p] = t /\ \A q \in Proc \ {p} : goal'[q] = goal[q] /\ pc'[q] = pc[q]
  BY <1>1 DEF Inv, SendTypes
<1>10. \A q \in Proc \ {p} : pc[q] \in Pending => goal[q] # t
  <2>1. CASE goal[p] = 0
    <3>1. t = minted + 1
      BY <2>1
    <3>2. QED
      BY <1>3, <3>1 DEF Inv, SendInv, FreshGoal
  <2>2. CASE goal[p] # 0
    BY <1>1, <1>2, <2>2 DEF Inv, SendInv
  <2>3. QED
    BY <2>1, <2>2
<1>11. \A q \in Proc : FreshGoal(q) /\ q # p => FreshGoal(q)'
  BY <1>1, <1>3, <1>4, <1>9 DEF FreshGoal
<1>12. FreshGoal(p)'
  BY <1>1, <1>7, <1>8, <1>9 DEF FreshGoal
<1>13. \A u \in Turn : sends'[u] <= 1 /\ (u > minted' => sends'[u] = 0)
  BY <1>1, <1>3, <1>4, TurnIsNat DEF Inv, SendInv
<1> HIDE DEF t
<1>14. \A q \in Proc : pc'[q] \in Pending => goal'[q] = 0 \/ FreshGoal(q)'
  BY <1>9, <1>11, <1>12 DEF Inv, SendInv
<1>15. \A q \in Proc : pc'[q] = "prompt" => goal'[q] # 0
  BY <1>7, <1>9 DEF Inv, SendInv
<1>16. \A q, r \in Proc :
         q # r /\ pc'[q] \in Pending /\ pc'[r] \in Pending /\ goal'[q] # 0 =>
           goal'[q] # goal'[r]
  BY <1>9, <1>10 DEF Inv, SendInv
<1>17. SendInv'
  BY <1>13, <1>14, <1>15, <1>16 DEF SendInv
<1>18. QED
  BY <1>5, <1>17 DEF Inv

(* The one step that sends, and the last that can.                         *)
LEMMA SendStep == ASSUME Inv, NEW p \in Proc, Send(p) PROVE Inv'
<1>1. /\ pc[p] = "prompt" /\ pc' = [pc EXCEPT ![p] = "sent"]
      /\ sends' = [sends EXCEPT ![goal[p]] = @ + 1]
      /\ UNCHANGED <<minted, goal, then>>
  BY DEF Send
<1>2. "prompt" \in Pending /\ "sent" \notin Pending
  BY DEF Pending
<1>3. FreshGoal(p)
  BY <1>1, <1>2 DEF Inv, SendInv
<1>4. goal[p] \in Turn /\ sends[goal[p]] = 0 /\ goal[p] <= minted
  BY <1>3, TurnIsNat DEF FreshGoal, Turn, Inv, SendTypes
<1>5. SendTypes'
  BY <1>1, <1>4 DEF Inv, SendTypes
<1>6. \A u \in Turn : sends'[u] = IF u = goal[p] THEN 1 ELSE sends[u]
  BY <1>1, <1>4 DEF Inv, SendTypes
<1>7. pc'[p] = "sent" /\ \A q \in Proc \ {p} : pc'[q] = pc[q]
  BY <1>1 DEF Inv, SendTypes
<1>8. \A u \in Turn : sends'[u] <= 1 /\ (u > minted => sends'[u] = 0)
  BY <1>4, <1>6, TurnIsNat DEF Inv, SendInv, SendTypes
<1>9. ASSUME NEW q \in Proc, pc'[q] \in Pending, goal[q] # 0
      PROVE  FreshGoal(q)'
  <2>1. q # p /\ pc[q] \in Pending
    BY <1>2, <1>7, <1>9
  <2>2. FreshGoal(q) /\ goal[q] # goal[p]
    BY <1>1, <1>2, <1>9, <2>1 DEF Inv, SendInv
  <2>3. goal[q] \in Turn
    BY <2>2, TurnIsNat DEF FreshGoal, Turn, Inv, SendTypes
  <2>4. QED
    BY <1>1, <1>6, <2>2, <2>3 DEF FreshGoal
<1>10. SendInv'
  BY <1>1, <1>2, <1>7, <1>8, <1>9 DEF SendInv, Inv
<1>11. QED
  BY <1>5, <1>10 DEF Inv

(* `oca m` begins a turn with no message.                                  *)
LEMMA MessageStep == ASSUME Inv, NEW p \in Proc, Message(p) PROVE Inv'
<1>1. /\ pc' = [pc EXCEPT ![p] = "ready"] /\ goal' = [goal EXCEPT ![p] = 0]
      /\ then' = [then EXCEPT ![p] = "end"]
      /\ UNCHANGED <<minted, sends>>
  BY DEF Message
<1>2. SendTypes'
  BY <1>1 DEF Inv, SendTypes
<1>3. /\ pc'[p] = "ready" /\ goal'[p] = 0
      /\ \A q \in Proc \ {p} : pc'[q] = pc[q] /\ goal'[q] = goal[q]
  BY <1>1 DEF Inv, SendTypes
<1>4. SendInv'
  BY <1>1, <1>3 DEF Inv, SendInv, FreshGoal
<1>5. QED
  BY <1>2, <1>4 DEF Inv

(* `oca q` mints its message and sends it next.                            *)
LEMMA QueueStep == ASSUME Inv, NEW p \in Proc, Queue(p) PROVE Inv'
<1>1. /\ pc' = [pc EXCEPT ![p] = "prompt"] /\ minted < MaxTurns
      /\ minted' = minted + 1 /\ goal' = [goal EXCEPT ![p] = minted']
      /\ UNCHANGED <<sends, then>>
  BY DEF Queue
<1>2. minted \in Nat /\ MaxTurns \in Nat /\ minted' \in 0..MaxTurns
  BY <1>1, TurnIsNat DEF Inv, SendTypes
<1>3. SendTypes'
  BY <1>1, <1>2 DEF Inv, SendTypes
<1>4. /\ pc'[p] = "prompt" /\ goal'[p] = minted + 1
      /\ \A q \in Proc \ {p} : pc'[q] = pc[q] /\ goal'[q] = goal[q]
  BY <1>1 DEF Inv, SendTypes
<1>5. \A u \in Turn : sends'[u] <= 1 /\ (u > minted' => sends'[u] = 0)
  BY <1>1, <1>2, TurnIsNat DEF Inv, SendInv
<1>6. minted + 1 \in Turn /\ sends[minted + 1] = 0
  BY <1>1, <1>2 DEF Turn, Inv, SendInv
<1>7. \A q \in Proc \ {p} : FreshGoal(q) => FreshGoal(q)' /\ goal[q] # minted + 1
  BY <1>1, <1>2, <1>4 DEF FreshGoal
<1>8. FreshGoal(p)'
  BY <1>1, <1>2, <1>4, <1>6 DEF FreshGoal
<1>9. \A q \in Proc : pc'[q] \in Pending => goal'[q] = 0 \/ FreshGoal(q)'
  BY <1>4, <1>7, <1>8 DEF Inv, SendInv
<1>10. \A q \in Proc : pc'[q] = "prompt" => goal'[q] # 0
  BY <1>2, <1>4 DEF Inv, SendInv
<1>11. \A q, r \in Proc :
         q # r /\ pc'[q] \in Pending /\ pc'[r] \in Pending /\ goal'[q] # 0 =>
           goal'[q] # goal'[r]
  BY <1>2, <1>4, <1>7 DEF Inv, SendInv
<1>12. QED
  BY <1>3, <1>5, <1>9, <1>10, <1>11 DEF Inv, SendInv

LEMMA StartStep == ASSUME Inv, NEW p \in Proc, Start(p) PROVE Inv'
<1>1. CASE PlanIntent(p)
  BY <1>1, AdvancesStep DEF PlanIntent, Advances, Pending, Inv, SendTypes
<1>2. CASE ReserveRef(p)
  BY <1>2, AdvancesStep DEF ReserveRef, Advances, Pending, Inv, SendTypes
<1>3. CASE CreateTree(p)
  BY <1>3, AdvancesStep DEF CreateTree, Advances, Pending, Inv, SendTypes
<1>4. CASE CreateTreeFails(p)
  BY <1>4, LeavesStep DEF CreateTreeFails, Leaves, Pending, Inv, SendTypes
<1>5. CASE StoreTree(p)
  BY <1>5, AdvancesStep DEF StoreTree, Advances, Pending, Inv, SendTypes
<1>6. CASE PersistReady(p)
  BY <1>6, AdvancesStep DEF PersistReady, Advances, Pending, Inv, SendTypes
<1>7. CASE CreateSession(p)
  BY <1>7, AdvancesStep DEF CreateSession, Advances, Pending, Inv, SendTypes
<1>8. CASE SubscribeUnreachable(p)
  BY <1>8, AdvancesStep DEF SubscribeUnreachable, Recreate, Advances, Pending, Inv, SendTypes
<1>9. CASE PromptUnreachable(p)
  BY <1>9, AdvancesStep DEF PromptUnreachable, Recreate, Advances, Pending, Inv, SendTypes
<1>10. CASE FailBeforePrompt(p)
  BY <1>10, LeavesStep DEF FailBeforePrompt, Leaves, Pending, Inv, SendTypes
<1>11. CASE CleanTree(p)
  BY <1>11, LeavesStep DEF CleanTree, Leaves, Pending, Inv, SendTypes
<1>12. CASE CleanIntent(p)
  BY <1>12, LeavesStep DEF CleanIntent, Leaves, Pending, Inv, SendTypes
<1>13. CASE DiscardUnacknowledged(p)
  BY <1>13, LeavesStep DEF DiscardUnacknowledged, Leaves, Pending, Inv, SendTypes
<1>14. QED
  BY <1>1, <1>2, <1>3, <1>4, <1>5, <1>6, <1>7, <1>8, <1>9, <1>10, <1>11, <1>12, <1>13 DEF Start

LEMMA PromptStep == ASSUME Inv, NEW p \in Proc, Prompt(p) PROVE Inv'
<1>1. CASE PersistUncertain(p)
  BY <1>1, PersistUncertainStep
<1>2. CASE Send(p)
  BY <1>2, SendStep
<1>3. CASE Accepted(p)
  BY <1>3, LeavesStep DEF Accepted, Leaves, Pending, Inv, SendTypes
<1>4. CASE ResponseLost(p)
  BY <1>4, LeavesStep DEF ResponseLost, Leaves, Pending, Inv, SendTypes
<1>5. CASE MessageFails(p)
  BY <1>5, LeavesStep DEF MessageFails, Leaves, Pending, Inv, SendTypes
<1>6. CASE Confirmed(p)
  BY <1>6, LeavesStep DEF Confirmed, Leaves, Pending, Inv, SendTypes
<1>7. CASE ConfirmTimesOut(p)
  BY <1>7, LeavesStep DEF ConfirmTimesOut, Leaves, Pending, Inv, SendTypes
<1>8. CASE PreserveIntent(p)
  BY <1>8, LeavesStep DEF PreserveIntent, Leaves, Pending, Inv, SendTypes
<1>9. CASE PreserveRecord(p)
  BY <1>9, LeavesStep DEF PreserveRecord, Leaves, Pending, Inv, SendTypes
<1>10. CASE PersistRunning(p)
  BY <1>10, LeavesStep DEF PersistRunning, Leaves, Pending, Inv, SendTypes
<1>11. CASE WriteRef(p)
  BY <1>11, LeavesStep DEF WriteRef, Leaves, Pending, Inv, SendTypes
<1>12. CASE Acknowledge(p)
  BY <1>12, LeavesStep DEF Acknowledge, Leaves, Pending, Inv, SendTypes
<1>13. CASE PatchMessage(p)
  BY <1>13, LeavesStep DEF PatchMessage, Leaves, Pending, Inv, SendTypes
<1>14. QED
  BY <1>1, <1>2, <1>3, <1>4, <1>5, <1>6, <1>7, <1>8, <1>9, <1>10, <1>11, <1>12, <1>13 DEF Prompt

LEMMA FinalizeStep == ASSUME Inv, NEW p \in Proc, Finalize(p) PROVE Inv'
<1>1. CASE SaveCursor(p)
  BY <1>1, LeavesStep DEF SaveCursor, Leaves, Pending, Inv, SendTypes
<1>2. CASE TerminalObserved(p)
  BY <1>2, LeavesStep DEF TerminalObserved, Watches, Leaves, Pending, Inv, SendTypes
<1>3. CASE ReplyInvalid(p)
  BY <1>3, LeavesStep DEF ReplyInvalid, Leaves, Pending, Inv, SendTypes
<1>4. CASE ReadTerminal(p)
  BY <1>4, LeavesStep DEF ReadTerminal, Leaves, Pending, Inv, SendTypes
<1>5. CASE CloseTurn(p)
  BY <1>5, LeavesStep DEF CloseTurn, Leaves, Pending, Inv, SendTypes
<1>6. CASE ValidateTree(p)
  BY <1>6, LeavesStep DEF ValidateTree, Leaves, Pending, Inv, SendTypes
<1>7. CASE Commit(p)
  BY <1>7, LeavesStep DEF Commit, Leaves, Pending, Inv, SendTypes
<1>8. CASE PersistCommitted(p)
  BY <1>8, LeavesStep DEF PersistCommitted, Leaves, Pending, Inv, SendTypes
<1>9. CASE PatchTerminal(p)
  BY <1>9, LeavesStep DEF PatchTerminal, Leaves, Pending, Inv, SendTypes
<1>10. CASE RemoveIntent(p)
  BY <1>10, LeavesStep DEF RemoveIntent, Leaves, Pending, Inv, SendTypes
<1>11. QED
  BY <1>1, <1>2, <1>3, <1>4, <1>5, <1>6, <1>7, <1>8, <1>9, <1>10 DEF Finalize

LEMMA ReconcileStep == ASSUME Inv, NEW p \in Proc, Reconcile(p) PROVE Inv'
<1>1. CASE ReadIntent(p)
  BY <1>1, LeavesStep DEF ReadIntent, Leaves, Pending, Inv, SendTypes
<1>2. CASE AdoptSession(p)
  BY <1>2, LeavesStep DEF AdoptSession, Recovering, Leaves, Pending, Inv, SendTypes
<1>3. CASE CleanStrandedTree(p)
  BY <1>3, LeavesStep DEF CleanStrandedTree, Recovering, Leaves, Pending, Inv, SendTypes
<1>4. CASE TombstoneStrand(p)
  BY <1>4, LeavesStep DEF TombstoneStrand, Leaves, Pending, Inv, SendTypes
<1>5. CASE SessionAnswers(p)
  BY <1>5, LeavesStep DEF SessionAnswers, Upsert, Recovering, Leaves, Pending, Inv, SendTypes
<1>6. CASE ServerSilent(p)
  BY <1>6, LeavesStep DEF ServerSilent, Resume, Recovering, Leaves, Pending, Inv, SendTypes
<1>7. CASE PromptLanded(p)
  BY <1>7, LeavesStep DEF PromptLanded, Upsert, Recovering, Leaves, Pending, Inv, SendTypes
<1>8. CASE PromptMissing(p)
  BY <1>8, LeavesStep DEF PromptMissing, Upsert, Resume, Recovering, Leaves, Pending, Inv, SendTypes
<1>9. CASE StaleRunning(p)
  BY <1>9, LeavesStep DEF StaleRunning, Recovering, Leaves, Pending, Inv, SendTypes
<1>10. CASE StillRunning(p)
  BY <1>10, LeavesStep DEF StillRunning, Upsert, Resume, Recovering, Leaves, Pending, Inv, SendTypes
<1>11. CASE PatchOrInsert(p)
  BY <1>11, LeavesStep DEF PatchOrInsert, Leaves, Pending, Inv, SendTypes
<1>12. CASE PersistRecovered(p)
  BY <1>12, LeavesStep DEF PersistRecovered, Leaves, Pending, Inv, SendTypes
<1>13. CASE AdoptCommit(p)
  BY <1>13, LeavesStep DEF AdoptCommit, Recovering, Leaves, Pending, Inv, SendTypes
<1>14. CASE FinalizeRecovered(p)
  BY <1>14, LeavesStep DEF FinalizeRecovered, Resume, Recovering, Leaves, Pending, Inv, SendTypes
<1>15. CASE SettleCommitted(p)
  BY <1>15, LeavesStep DEF SettleCommitted, Recovering, Leaves, Pending, Inv, SendTypes
<1>16. QED
  BY <1>1, <1>2, <1>3, <1>4, <1>5, <1>6, <1>7, <1>8, <1>9, <1>10, <1>11, <1>12, <1>13, <1>14, <1>15 DEF Reconcile

LEMMA CommandStep == ASSUME Inv, NEW p \in Proc, Command(p) PROVE Inv'
<1>1. ASSUME NEW c \in Allowed, Begin(p, c) PROVE Inv'
  BY <1>1, LeavesStep DEF Begin, Leaves, Pending, Inv, SendTypes
<1>2. CASE List(p)
  BY <1>2, LeavesStep DEF List, Leaves, Pending, Inv, SendTypes
<1>3. CASE Follow(p)
  BY <1>3, LeavesStep DEF Follow, Leaves, Pending, Inv, SendTypes
<1>4. CASE OpenJournal(p)
  BY <1>4, LeavesStep DEF OpenJournal, Leaves, Pending, Inv, SendTypes
<1>5. CASE Message(p)
  BY <1>5, MessageStep
<1>6. CASE Queue(p)
  BY <1>6, QueueStep
<1>7. CASE AbortSession(p)
  BY <1>7, LeavesStep DEF AbortSession, Leaves, Pending, Inv, SendTypes
<1>8. CASE PatchAborted(p)
  BY <1>8, LeavesStep DEF PatchAborted, Leaves, Pending, Inv, SendTypes
<1>9. QED
  BY <1>1, <1>2, <1>3, <1>4, <1>5, <1>6, <1>7, <1>8 DEF Command

(* The server changes nothing that the invariant is about.                 *)
LEMMA ServerStep ==
  ASSUME Inv, NEW t \in Turn, Admit(t) \/ Drop(t) \/ Reply(t) \/ Fail(t) \/ Edit(t)
  PROVE  Inv'
<1>1. UNCHANGED <<minted, sends, pc, goal, then>>
  BY DEF Admit, Drop, Reply, Fail, Edit, Serve
<1>2. QED
  BY <1>1 DEF Inv, SendTypes, SendInv, FreshGoal

LEMMA InitSend == Init => Inv
<1>1. Dispatcher \in Proc
  BY DEF Proc
<1>2. MaxTurns \in Nat
  BY BoundAssumption
<1>3. QED
  BY <1>1, <1>2 DEF Init, Inv, SendTypes, SendInv, FreshGoal, Turn

LEMMA NextSend == Inv /\ [Next]_vars => Inv'
<1> SUFFICES ASSUME Inv, [Next]_vars PROVE Inv'
  OBVIOUS
<1>1. ASSUME NEW p \in Proc, Quit(p) PROVE Inv'
  BY <1>1, LeavesStep DEF Quit, Leaves, Pending, Inv, SendTypes
<1>2. CASE UNCHANGED vars
  BY <1>2 DEF vars, Inv, SendTypes, SendInv, FreshGoal
<1>3. QED
  BY <1>1, <1>2, StartStep, PromptStep, FinalizeStep, ReconcileStep, CommandStep,
     ServerStep DEF Next

(* The invariant holds in every reachable state.                           *)
THEOREM SendInvariant == Spec => []SendInv
<1>1. Inv => SendInv
  BY DEF Inv
<1>2. QED
  BY <1>1, InitSend, NextSend, PTL DEF Spec

(* No message's bytes leave the machine twice, whatever is retried,        *)
(* killed, recovered or repeated by any number of operators: start_dispatch*)
(* retries only a prompt that was never sent, reconciliation sends nothing,*)
(* and `oca m` and `oca q` send only what they mint.                       *)
THEOREM NeverReplayed == Spec => []NoReplay
<1>1. SendInv => NoReplay
  BY DEF SendInv, NoReplay
<1>2. QED
  BY <1>1, SendInvariant, PTL

-----------------------------------------------------------------------------
(* The code by which start_dispatch decides on its one retry.              *)
F == INSTANCE Failures

(* Every failure of prompt_async gets one of the codes of oca-core. The one*)
(* that start_dispatch retries, server_unreachable, is a failed connection:*)
(* nothing was sent. The one it keeps the intent for, prompt_uncertain, is *)
(* a lost response, and does not exit with the code of an unreachable      *)
(* server. PromptUnreachable and ResponseLost of Dispatch rest on this.    *)
THEOREM RetryIsSafe ==
  ASSUME NEW failure \in F!OpenCodeFailure
  PROVE  LET code == F!PromptErrorCode(failure)
         IN  /\ code \in F!ErrorCode
             /\ code = "server_unreachable" => failure = F!TransportError(TRUE)
             /\ failure = F!TransportError(FALSE) =>
                  code = "prompt_uncertain" /\ F!ExitCode(code) = 1
<1>1. CASE failure \in [kind : {"transport"}, stage : {"before", "possibly"}]
  BY <1>1 DEF F!PromptErrorCode, F!OpenCodeErrorCode, F!ErrorCode, F!TransportError,
     F!ExitCode, F!UsageCodes, F!ServerCodes
<1>2. CASE failure \in [kind : {"protocol", "rate"}]
  BY <1>2 DEF F!PromptErrorCode, F!OpenCodeErrorCode, F!ErrorCode, F!TransportError
<1>3. CASE failure \in [kind : {"server"}, status : F!Status \ {200, 204, 429}]
  BY <1>3 DEF F!PromptErrorCode, F!OpenCodeErrorCode, F!ErrorCode, F!TransportError
<1>4. QED
  BY <1>1, <1>2, <1>3 DEF F!OpenCodeFailure
=============================================================================

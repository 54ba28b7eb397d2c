------------------------------ MODULE Dispatch ------------------------------
(***************************************************************************)
(* The life of one ref: crates/oca-cli/src/foreground.rs and               *)
(* worktree_dispatch.rs (dispatch and finalization), crash_recovery.rs     *)
(* (reconciliation), follow.rs, list.rs and control.rs (`oca f`, `ls`,     *)
(* `m`, `q`, `k`), over three things they share: the ref's record in       *)
(* refs.json, its intent file, and the OpenCode session.  Each write of a  *)
(* file, each request and each read that is used after other commands may  *)
(* have written is a step of its own, and any command may end between two  *)
(* steps: by a kill, or by an error it returns without                     *)
(* changing anything (Quit).                                               *)
(***************************************************************************)
EXTENDS Naturals, Sequences, FiniteSets

CONSTANTS Operators,   \* processes that run commands on the ref
          Dispatcher,  \* the process that runs the dispatch
          Allowed,     \* bound: the commands the operators run
          MaxTurns,    \* bound: messages minted in a behaviour
          Overlap      \* may `oca ls` meet a dispatch that is not acknowledged

Commands == {"list", "follow", "message", "queue", "abort"}

ASSUME ProcAssumption == Dispatcher \notin Operators /\ Allowed \subseteq Commands
ASSUME BoundAssumption == MaxTurns \in Nat \ {0} /\ Overlap \in BOOLEAN

VARIABLES
  worktree,  \* the dispatch was given `-w`
  record,    \* the ref's record, or NoRecord
  intent,    \* intents/<ref>.json, or NoIntent
  turnLock,  \* the process that holds session-locks/<ref>.lock, or Nobody
  tree,      \* the ref's worktree exists
  dirty,     \* turns whose changes are in the worktree and not committed
  staged,    \* those of them that are in git's index
  log,       \* the commits on oca/<ref>: the turns each contains
  status,    \* what the server did with each message
  sentTo,    \* the session each message was sent to
  minted,    \* messages minted so far
  sends,     \* times each message's bytes may have left the machine
  acked,     \* the dispatch printed its acknowledgement
  cmd, pc,   \* the command each process runs, and where it is
  held,      \* the intent a process holds in memory, or NoIntent
  goal,      \* the message a process follows or settles
  made,      \* the commit a process made, or 0
  then,      \* what follows a shared piece of a command
  confirmed  \* messages a dispatch or `oca m` saw arrive

files  == <<record, intent>>
git    == <<tree, dirty, staged, log>>
server == <<status, sentTo, sends>>
local  == <<held, goal, made, then>>
output == <<acked, confirmed>>
vars   == <<worktree, files, turnLock, git, server, minted, output, cmd, pc,
            local>>

Proc     == Operators \cup {Dispatcher}
Turn     == 1..MaxTurns
NoRecord == [session |-> 0, state |-> "none"]
NoIntent == [phase |-> 0]
Nobody   == "nobody"
Reserved == 0          \* RESERVED_SESSION_ID; sessions are numbered from 1

ASSUME NobodyAssumption == Nobody \notin Operators

(* IntentPhase, in its order; PublishedUncertain belongs to `oca push`.    *)
Planned == 1           WorktreeReady == 2     SessionCreated == 3
PromptUncertain == 4   Running == 5           Observed == 6
Validated == 7         Committed == 8

(* RefState; Done, Blocked and Partial are alike to every command here.    *)
States == {"idle", "running", "unknown", "done", "aborted"}
AcceptsNewTurn == {"idle", "done"}

Admitted == {"running", "replied", "invalid"}

RecordType ==
  [session: 0..2, message: 0..MaxTurns, state: States, tree: BOOLEAN,
   tombstoned: BOOLEAN, completion: 0..MaxTurns, commit: 0..MaxTurns]

IntentType ==
  [requested: BOOLEAN, phase: Planned..Committed, session: 0..2,
   message: 0..MaxTurns, reply: 0..MaxTurns, commit: 0..MaxTurns]

Places ==
  {"start", "reserved", "treed", "stored", "planned", "ready", "prompt", "sent",
   "confirm", "confirmed", "preserve", "preserved", "landed", "ack", "cleanup",
   "cleaned", "discard", "patchqueue", "waiting", "ended",
   "finalize", "close", "validate", "commit", "committed", "patch", "remove",
   "idle", "reconcile", "recover", "persist", "tombstone", "upsert", "resume",
   "open", "watch", "queue", "abort", "aborted"}

TypeOK ==
  /\ worktree \in BOOLEAN
  /\ record \in RecordType \cup {NoRecord}
  /\ intent \in IntentType \cup {NoIntent}
  /\ turnLock \in Operators \cup {Nobody}
  /\ tree \in BOOLEAN
  /\ dirty \subseteq Turn
  /\ staged \subseteq Turn
  /\ log \in Seq(SUBSET Turn)
  /\ status \in [Turn -> {"unsent", "inflight", "dropped"} \cup Admitted]
  /\ sentTo \in [Turn -> 0..2]
  /\ minted \in 0..MaxTurns
  /\ sends \in [Turn -> Nat]
  /\ acked \in BOOLEAN
  /\ cmd \in [Proc -> Commands \cup {"none", "dispatch"}]
  /\ pc \in [Proc -> Places]
  /\ held \in [Proc -> IntentType \cup {NoIntent}]
  /\ goal \in [Proc -> 0..MaxTurns]
  /\ made \in [Proc -> 0..MaxTurns]
  /\ then \in [Proc -> {"end", "resume", "persist", "remove"}]
  /\ confirmed \subseteq Turn

NewRecord(session, message, state) ==
  [session |-> session, message |-> message, state |-> state, tree |-> FALSE,
   tombstoned |-> FALSE, completion |-> 0, commit |-> 0]

NewIntent(requested, phase, session, message) ==
  [requested |-> requested, phase |-> phase, session |-> session,
   message |-> message, reply |-> 0, commit |-> 0]

Init ==
  /\ worktree \in BOOLEAN
  /\ record = NoRecord
  /\ intent = NoIntent
  /\ turnLock = Nobody
  /\ tree = FALSE
  /\ dirty = {}
  /\ staged = {}
  /\ log = <<>>
  /\ status = [t \in Turn |-> "unsent"]
  /\ sentTo = [t \in Turn |-> 0]
  /\ minted = 0
  /\ sends = [t \in Turn |-> 0]
  /\ acked = FALSE
  /\ cmd = [p \in Proc |-> IF p = Dispatcher THEN "dispatch" ELSE "none"]
  /\ pc = [p \in Proc |-> IF p = Dispatcher THEN "start" ELSE "idle"]
  /\ held = [p \in Proc |-> NoIntent]
  /\ goal = [p \in Proc |-> 0]
  /\ made = [p \in Proc |-> 0]
  /\ then = [p \in Proc |-> "end"]
  /\ confirmed = {}

-----------------------------------------------------------------------------
(* Steps.                                                                  *)

Goto(p, there) == pc' = [pc EXCEPT ![p] = there]
Step(p, here, there) == pc[p] = here /\ Goto(p, there)

Hold(p, i) == held' = [held EXCEPT ![p] = i]

(* persist_intent: a process writes the intent it holds, whatever the file *)
(* says by then.                                                           *)
Persist(p, i) == intent' = i /\ Hold(p, i)

InPhase(p, phase) == [held[p] EXCEPT !.phase = phase]

(* A command ends: its memory and its turn lock go with it.                *)
Return(p) ==
  /\ Goto(p, IF p = Dispatcher THEN "ended" ELSE "idle")
  /\ cmd' = [cmd EXCEPT ![p] = IF p = Dispatcher THEN "dispatch" ELSE "none"]
  /\ held' = [held EXCEPT ![p] = NoIntent]
  /\ goal' = [goal EXCEPT ![p] = 0]
  /\ made' = [made EXCEPT ![p] = 0]
  /\ then' = [then EXCEPT ![p] = "end"]
  /\ turnLock' = IF turnLock = p THEN Nobody ELSE turnLock

(* RefStore::patch fails without a record, RefStore::insert with one.      *)
PatchRecord(patched) == record # NoRecord /\ record' = patched
InsertRecord(new) == record = NoRecord /\ record' = new

(* resolve_active_ref *)
Active == record # NoRecord /\ ~record.tombstoned

(* A command is killed, or returns an error and changes nothing.           *)
Quit(p) ==
  /\ pc[p] \notin {"idle", "start", "ended"}
  /\ Return(p)
  /\ UNCHANGED <<worktree, files, git, server, minted, output>>

-----------------------------------------------------------------------------
(* The dispatch, up to its session.                                        *)

(* reserve_intent: the intent is the only trace of a dispatch without `-w` *)
(* until its record is written.                                            *)
PlanIntent(p) ==
  /\ p = Dispatcher
  /\ ~worktree
  /\ Step(p, "start", "planned")
  /\ Persist(p, NewIntent(TRUE, Planned, 0, 0))
  /\ UNCHANGED <<worktree, record, turnLock, git, server, minted, output, cmd,
                 goal, made, then>>

(* With `-w` the record comes first and its intent stays in memory.        *)
ReserveRef(p) ==
  /\ p = Dispatcher
  /\ worktree
  /\ Step(p, "start", "reserved")
  /\ InsertRecord(NewRecord(Reserved, 0, "running"))
  /\ Hold(p, NewIntent(TRUE, Planned, 0, 0))
  /\ UNCHANGED <<worktree, intent, turnLock, git, server, minted, output, cmd,
                 goal, made, then>>

CreateTree(p) ==
  /\ Step(p, "reserved", "treed")
  /\ tree' = TRUE
  /\ Hold(p, InPhase(p, WorktreeReady))
  /\ UNCHANGED <<worktree, files, turnLock, dirty, staged, log, server, minted,
                 output, cmd, goal, made, then>>

CreateTreeFails(p) ==
  /\ pc[p] = "reserved"
  /\ PatchRecord([record EXCEPT !.tombstoned = TRUE])
  /\ intent' = NoIntent
  /\ Return(p)
  /\ UNCHANGED <<worktree, git, server, minted, output>>

StoreTree(p) ==
  /\ Step(p, "treed", "stored")
  /\ PatchRecord([record EXCEPT !.tree = TRUE])
  /\ UNCHANGED <<worktree, intent, turnLock, git, server, minted, output, cmd,
                 local>>

PersistReady(p) ==
  /\ Step(p, "stored", "planned")
  /\ Persist(p, held[p])
  /\ UNCHANGED <<worktree, record, turnLock, git, server, minted, output, cmd,
                 goal, made, then>>

(* create_session, at most twice: the second time for a server that could  *)
(* not be reached, when no byte of the prompt had left.                    *)
CreateSession(p) ==
  /\ Step(p, "planned", "ready")
  /\ Persist(p, [InPhase(p, SessionCreated) EXCEPT !.session = @ + 1])
  /\ UNCHANGED <<worktree, record, turnLock, git, server, minted, output, cmd,
                 goal, made, then>>

(* Mutant of Recreate: no limit to the number of sessions.                 *)
RecreateAgain(p, here) ==
  /\ p = Dispatcher
  /\ Step(p, here, "planned")
  /\ UNCHANGED <<worktree, files, turnLock, git, server, minted, output, cmd,
                 local>>

Recreate(p, here) ==
  /\ p = Dispatcher
  /\ Step(p, here, "planned")
  /\ held[p].session = 1
  /\ UNCHANGED <<worktree, files, turnLock, git, server, minted, output, cmd,
                 local>>

SubscribeUnreachable(p) == Recreate(p, "ready")
PromptUnreachable(p) == Recreate(p, "prompt")

(* Every other failure before the prompt is out: the session cannot be     *)
(* created or subscribed to, the prompt is refused or unreachable again.   *)
FailBeforePrompt(p) ==
  /\ p = Dispatcher
  /\ \/ pc[p] \in {"planned", "ready"} /\ UNCHANGED status
     \/ pc[p] = "prompt" /\ held[p].session = 2 /\ UNCHANGED status
     \/ /\ pc[p] = "sent"
        /\ status[goal[p]] = "inflight"
        /\ status' = [status EXCEPT ![goal[p]] = "dropped"]
  /\ Goto(p, "cleanup")
  /\ UNCHANGED <<worktree, files, turnLock, git, sentTo, sends, minted, output,
                 cmd, local>>

(* cleanup_pre_prompt_failure: the worktree, the intent, then the record.  *)
CleanTree(p) ==
  /\ Step(p, "cleanup", "cleaned")
  /\ tree' = FALSE
  /\ UNCHANGED <<worktree, files, turnLock, dirty, staged, log, server, minted,
                 output, cmd, local>>

CleanIntent(p) ==
  /\ Step(p, "cleaned", "discard")
  /\ intent' = NoIntent
  /\ UNCHANGED <<worktree, record, turnLock, git, server, minted, output, cmd,
                 local>>

DiscardUnacknowledged(p) ==
  /\ pc[p] = "discard"
  /\ record' = IF record # NoRecord /\ record.message = 0 THEN NoRecord
               ELSE record
  /\ Return(p)
  /\ UNCHANGED <<worktree, intent, git, server, minted, output>>

-----------------------------------------------------------------------------
(* The prompt, sent by a dispatch, by `oca m` and by `oca q`.              *)

(* Mutant of PersistUncertain: the prompt goes out under the old intent.   *)
PromptUnwritten(p) ==
  /\ Step(p, "ready", "prompt")
  /\ goal[p] = 0 => minted < MaxTurns
  /\ LET t == IF goal[p] = 0 THEN minted + 1 ELSE goal[p] IN
     /\ minted' = IF goal[p] = 0 THEN t ELSE minted
     /\ goal' = [goal EXCEPT ![p] = t]
     /\ Hold(p, [InPhase(p, PromptUncertain) EXCEPT !.message = t])
  /\ UNCHANGED <<worktree, files, turnLock, git, server, output, cmd, made, then>>

(* The intent names the message before any byte of it leaves.              *)
PersistUncertain(p) ==
  /\ Step(p, "ready", "prompt")
  /\ goal[p] = 0 => minted < MaxTurns
  /\ LET t == IF goal[p] = 0 THEN minted + 1 ELSE goal[p] IN
     /\ minted' = IF goal[p] = 0 THEN t ELSE minted
     /\ goal' = [goal EXCEPT ![p] = t]
     /\ Persist(p, [InPhase(p, PromptUncertain) EXCEPT !.message = t])
  /\ UNCHANGED <<worktree, record, turnLock, git, server, output, cmd, made,
                 then>>

(* From here on the message may have left the machine. *)
Send(p) ==
  /\ Step(p, "prompt", "sent")
  /\ sends' = [sends EXCEPT ![goal[p]] = @ + 1]
  /\ sentTo' = [sentTo EXCEPT ![goal[p]] = held[p].session]
  /\ status' = [status EXCEPT ![goal[p]] = IF @ = "unsent" THEN "inflight" ELSE @]
  /\ UNCHANGED <<worktree, files, turnLock, git, minted, output, cmd, local>>

(* The server answers 204; the message may still never become visible.     *)
Accepted(p) ==
  /\ pc[p] = "sent"
  /\ status[goal[p]] # "dropped"
  /\ Goto(p, IF cmd[p] = "queue" THEN "patchqueue" ELSE "confirm")
  /\ UNCHANGED <<worktree, files, turnLock, git, server, minted, output, cmd,
                 local>>

(* Mutant of ResponseLost: a lost answer is treated as a server that could *)
(* not be reached, and the prompt is sent again.                           *)
RetryLost(p) ==
  /\ p = Dispatcher
  /\ Step(p, "sent", "planned")
  /\ held[p].session = 1
  /\ UNCHANGED <<worktree, files, turnLock, git, server, minted, output, cmd,
                 local>>

(* A dispatch whose answer is lost keeps everything for its operator; `m`  *)
(* and `q` return `prompt_uncertain` at once, which is a Quit.             *)
ResponseLost(p) ==
  /\ p = Dispatcher
  /\ Step(p, "sent", "preserve")
  /\ UNCHANGED <<worktree, files, turnLock, git, server, minted, output, cmd,
                 local>>

(* `oca m` withdraws the intent of a message that was refused or never     *)
(* left; `oca q` has none.                                                 *)
MessageFails(p) ==
  /\ cmd[p] = "message"
  /\ \/ pc[p] = "prompt" /\ UNCHANGED status
     \/ /\ pc[p] = "sent"
        /\ status[goal[p]] = "inflight"
        /\ status' = [status EXCEPT ![goal[p]] = "dropped"]
  /\ Goto(p, "remove")
  /\ UNCHANGED <<worktree, files, turnLock, git, sentTo, sends, minted, output,
                 cmd, local>>

Confirmed(p) ==
  /\ Step(p, "confirm", "confirmed")
  /\ status[goal[p]] \in Admitted
  /\ confirmed' = confirmed \cup {goal[p]}
  /\ UNCHANGED <<worktree, files, turnLock, git, server, minted, acked, cmd,
                 local>>

(* Mutant of ConfirmTimesOut: the 204 is taken for the confirmation.       *)
ConfirmAnyway(p) ==
  /\ p = Dispatcher
  /\ Step(p, "confirm", "confirmed")
  /\ UNCHANGED <<worktree, files, turnLock, git, server, minted, output, cmd,
                 local>>

(* After fifteen seconds without a sign of the message.  For `oca m`, Quit.*)
ConfirmTimesOut(p) ==
  /\ p = Dispatcher
  /\ Step(p, "confirm", "preserve")
  /\ UNCHANGED <<worktree, files, turnLock, git, server, minted, output, cmd,
                 local>>

(* preserve_uncertain_prompt: the intent, then a record in state unknown.  *)
PreserveIntent(p) ==
  /\ Step(p, "preserve", "preserved")
  /\ Persist(p, InPhase(p, PromptUncertain))
  /\ UNCHANGED <<worktree, record, turnLock, git, server, minted, output, cmd,
                 goal, made, then>>

WriteRecord(p, state) ==
  IF worktree
  THEN PatchRecord([record EXCEPT !.session = held[p].session,
                                  !.message = goal[p], !.state = state])
  ELSE InsertRecord(NewRecord(held[p].session, goal[p], state))

(* Mutant of PreserveRecord: the uncertain ref is written as running.      *)
PreserveRunning(p) ==
  /\ pc[p] = "preserved"
  /\ WriteRecord(p, "running")
  /\ Return(p)
  /\ UNCHANGED <<worktree, intent, git, server, minted, output>>

PreserveRecord(p) ==
  /\ pc[p] = "preserved"
  /\ WriteRecord(p, "unknown")
  /\ Return(p)
  /\ UNCHANGED <<worktree, intent, git, server, minted, output>>

(* Mutant of PersistRunning: the acknowledgement comes before the record.  *)
AckEarly(p) ==
  /\ Step(p, "confirmed", "ack")
  /\ Persist(p, InPhase(p, Running))
  /\ UNCHANGED <<worktree, record, turnLock, git, server, minted, output, cmd,
                 goal, made, then>>

(* mark_prompt_running, and the same step of `oca m`.                      *)
PersistRunning(p) ==
  /\ Step(p, "confirmed", "landed")
  /\ Persist(p, InPhase(p, Running))
  /\ UNCHANGED <<worktree, record, turnLock, git, server, minted, output, cmd,
                 goal, made, then>>

WriteRef(p) ==
  /\ p = Dispatcher
  /\ Step(p, "landed", "ack")
  /\ WriteRecord(p, "running")
  /\ UNCHANGED <<worktree, intent, turnLock, git, server, minted, output, cmd,
                 local>>

Acknowledge(p) ==
  /\ Step(p, "ack", "waiting")
  /\ acked' = TRUE
  /\ UNCHANGED <<worktree, files, turnLock, git, server, minted, confirmed, cmd,
                 local>>

(* The last step of `oca m`, and of `oca q`, whose record keeps its state. *)
PatchMessage(p) ==
  /\ \/ /\ cmd[p] = "message" /\ pc[p] = "landed"
        /\ PatchRecord([record EXCEPT !.message = goal[p], !.state = "running"])
     \/ /\ pc[p] = "patchqueue"
        /\ PatchRecord([record EXCEPT !.message = goal[p]])
  /\ Return(p)
  /\ UNCHANGED <<worktree, intent, git, server, minted, output>>

-----------------------------------------------------------------------------
(* The end of a turn: wait_terminal of a foreground dispatch, the watch of *)
(* `oca f`, and finalize_turn, which reconciliation also calls.            *)

(* The cursor of an event `oca f` sees goes into the intent it read before *)
(* it began to watch, with the phase set back to Running.                  *)
SaveCursor(p) ==
  /\ pc[p] = "watch"
  /\ held[p] # NoIntent
  /\ Persist(p, InPhase(p, Running))
  /\ UNCHANGED <<worktree, record, turnLock, git, server, minted, output, cmd,
                 pc, goal, made, then>>

Watches(p) == pc[p] \in {"waiting", "watch"}

(* Mutant of TerminalObserved: the reply is settled without being decoded. *)
AnyTerminal(p) ==
  /\ Watches(p)
  /\ status[goal[p]] \in {"replied", "invalid"}
  /\ Goto(p, "finalize")
  /\ then' = [then EXCEPT ![p] = "end"]
  /\ IF held[p] = NoIntent THEN UNCHANGED <<intent, held>>
     ELSE Persist(p, InPhase(p, Observed))
  /\ UNCHANGED <<worktree, record, turnLock, git, server, minted, output, cmd,
                 goal, made>>

TerminalObserved(p) ==
  /\ Watches(p)
  /\ status[goal[p]] = "replied"
  /\ Goto(p, "finalize")
  /\ then' = [then EXCEPT ![p] = "end"]
  /\ IF held[p] = NoIntent THEN UNCHANGED <<intent, held>>
     ELSE Persist(p, InPhase(p, Observed))
  /\ UNCHANGED <<worktree, record, turnLock, git, server, minted, output, cmd,
                 goal, made>>

(* A terminal message without a valid reply is recorded, and is an error.  *)
ReplyInvalid(p) ==
  /\ Watches(p)
  /\ status[goal[p]] = "invalid"
  /\ held[p] # NoIntent
  /\ intent' = InPhase(p, Observed)
  /\ Return(p)
  /\ UNCHANGED <<worktree, record, git, server, minted, output>>

(* Mutant of ReadTerminal: the branch without a worktree is always taken.  *)
ReadTerminalPlain(p) ==
  /\ record # NoRecord
  /\ Step(p, "finalize", "close")
  /\ Hold(p, IF intent = NoIntent THEN NoIntent
             ELSE [intent EXCEPT !.phase = IF @ < Observed THEN Observed ELSE @,
                                 !.reply = goal[p]])
  /\ UNCHANGED <<worktree, files, turnLock, git, server, minted, output, cmd,
                 goal, made, then>>

(* finalize_turn settles the reply against whatever intent it finds.       *)
ReadTerminal(p) ==
  /\ record # NoRecord
  /\ Step(p, "finalize", IF record.tree THEN "validate" ELSE "close")
  /\ Hold(p, IF intent = NoIntent THEN NoIntent
             ELSE [intent EXCEPT !.phase = IF @ < Observed THEN Observed ELSE @,
                                 !.reply = goal[p]])
  /\ UNCHANGED <<worktree, files, turnLock, git, server, minted, output, cmd,
                 goal, made, then>>

PersistIfHeld(p, i) ==
  IF held[p] = NoIntent THEN UNCHANGED <<intent, held>> ELSE Persist(p, i)

CloseTurn(p) ==
  /\ Step(p, "close", "patch")
  /\ PersistIfHeld(p, InPhase(p, Validated))
  /\ UNCHANGED <<worktree, record, turnLock, git, server, minted, output, cmd,
                 goal, made, then>>

(* An empty worktree, or one that is gone, fails the validation.           *)
ValidateTree(p) ==
  /\ tree
  /\ dirty # {}
  /\ Step(p, "validate", "commit")
  /\ staged' = dirty
  /\ PersistIfHeld(p, InPhase(p, Validated))
  /\ UNCHANGED <<worktree, record, turnLock, tree, dirty, log, server, minted,
                 output, cmd, goal, made, then>>

Commit(p) ==
  /\ tree
  /\ staged # {}
  /\ Step(p, "commit", "committed")
  /\ log' = Append(log, staged)
  /\ dirty' = dirty \ staged
  /\ staged' = {}
  /\ made' = [made EXCEPT ![p] = Len(log')]
  /\ UNCHANGED <<worktree, files, turnLock, tree, server, minted, output, cmd,
                 held, goal, then>>

PersistCommitted(p) ==
  /\ Step(p, "committed", "patch")
  /\ PersistIfHeld(p, [InPhase(p, Committed) EXCEPT !.commit = made[p]])
  /\ UNCHANGED <<worktree, record, turnLock, git, server, minted, output, cmd,
                 goal, made, then>>

PatchTerminal(p) ==
  /\ Step(p, "patch", "remove")
  /\ PatchRecord([record EXCEPT !.state = "done", !.completion = goal[p],
                   !.commit = IF made[p] = 0 THEN @ ELSE made[p]])
  /\ UNCHANGED <<worktree, intent, turnLock, git, server, minted, output, cmd,
                 local>>

RemoveIntent(p) ==
  /\ pc[p] = "remove"
  /\ intent' = NoIntent
  /\ IF then[p] = "end" THEN Return(p)
     ELSE /\ Goto(p, "resume")
          /\ UNCHANGED <<turnLock, cmd, local>>
  /\ UNCHANGED <<worktree, record, git, server, minted, output>>

-----------------------------------------------------------------------------
(* Reconciliation: what `oca ls`, `oca f` and `oca m` do first, from a     *)
(* copy of the intent that may be stale by the time they act on it.        *)

(* The dispatch has told its caller the ref, or will never do so.          *)
DispatchOver == acked \/ pc[Dispatcher] = "ended"

Locking == {"message", "queue", "abort"}

Begin(p, c) ==
  /\ p \in Operators
  /\ record # NoRecord \/ intent # NoIntent
  /\ DispatchOver \/ (Overlap /\ c = "list")
  /\ c \in Locking => turnLock = Nobody /\ Active
  /\ turnLock' = IF c \in Locking THEN p ELSE turnLock
  /\ cmd' = [cmd EXCEPT ![p] = c]
  /\ Step(p, "idle", IF c \in {"queue", "abort"} THEN c ELSE "reconcile")
  /\ UNCHANGED <<worktree, files, git, server, minted, output, local>>

ReadIntent(p) ==
  /\ Step(p, "reconcile", IF intent = NoIntent THEN "resume" ELSE "recover")
  /\ Hold(p, intent)
  /\ UNCHANGED <<worktree, files, turnLock, git, server, minted, output, cmd,
                 goal, made, then>>

Recovering(p, phases) == pc[p] = "recover" /\ held[p].phase \in phases

(* Planned, WorktreeReady: a ref with a session goes on from it, a strand  *)
(* without one is removed: its worktree, its record and its intent.        *)
AdoptSession(p) ==
  /\ Recovering(p, {Planned, WorktreeReady})
  /\ record # NoRecord /\ record.session # Reserved
  /\ Goto(p, "persist")
  /\ Hold(p, [InPhase(p, SessionCreated) EXCEPT !.session = record.session])
  /\ UNCHANGED <<worktree, files, turnLock, git, server, minted, output, cmd,
                 goal, made, then>>

CleanStrandedTree(p) ==
  /\ Recovering(p, {Planned, WorktreeReady})
  /\ record = NoRecord \/ record.session = Reserved
  /\ Goto(p, "tombstone")
  /\ tree' = IF held[p].requested /\ worktree THEN FALSE ELSE tree
  /\ UNCHANGED <<worktree, files, turnLock, dirty, staged, log, server, minted,
                 output, cmd, local>>

TombstoneStrand(p) ==
  /\ Step(p, "tombstone", "remove")
  /\ record' = IF record = NoRecord THEN record
               ELSE [record EXCEPT !.tombstoned = TRUE]
  /\ then' = [then EXCEPT ![p] = "resume"]
  /\ UNCHANGED <<worktree, intent, turnLock, git, server, minted, output, cmd,
                 held, goal, made>>

(* SessionCreated, PromptUncertain and Running lead to the record being    *)
(* patched or inserted, and then to `next`.                                *)
Upsert(p, next) ==
  /\ Goto(p, "upsert")
  /\ then' = [then EXCEPT ![p] = next]
  /\ UNCHANGED <<worktree, files, turnLock, git, server, minted, output, cmd,
                 held, goal, made>>

Resume(p) ==
  /\ Goto(p, "resume")
  /\ UNCHANGED <<worktree, files, turnLock, git, server, minted, output, cmd,
                 local>>

SessionAnswers(p) ==
  /\ Recovering(p, {SessionCreated})
  /\ Upsert(p, IF cmd[p] = "message" THEN "remove" ELSE "resume")

(* Without an answer `ls` goes on, and every other command fails.          *)
ServerSilent(p) ==
  /\ Recovering(p, {SessionCreated, PromptUncertain})
  /\ cmd[p] = "list"
  /\ Resume(p)

(* ref_confirms_prompt_admission: the local proof.                         *)
RefConfirms(i) ==
  /\ record # NoRecord
  /\ record.state = "running"
  /\ record.session = i.session
  /\ record.message = i.message

(* prompt_landed: the user's message in the history of the session.        *)
HistoryShows(i) ==
  /\ i.message # 0
  /\ status[i.message] \in Admitted
  /\ sentTo[i.message] = i.session

(* intent_session_directory: without a record the history of a worktree's  *)
(* session, or of `oca m`, cannot be asked for.                            *)
HasDirectory(i) == record # NoRecord \/ (i.requested /\ ~worktree)

PromptLanded(p) ==
  /\ Recovering(p, {PromptUncertain})
  /\ RefConfirms(held[p]) \/ (HasDirectory(held[p]) /\ HistoryShows(held[p]))
  /\ Upsert(p, "persist")

(* Not landed: `m` is the operator's order to send anew, `ls` shows the    *)
(* uncertainty, `f` returns it as an error.                                *)
PromptMissing(p) ==
  /\ Recovering(p, {PromptUncertain})
  /\ HasDirectory(held[p])
  /\ ~RefConfirms(held[p]) /\ ~HistoryShows(held[p])
  /\ \/ cmd[p] = "message" /\ Upsert(p, "remove")
     \/ cmd[p] = "list" /\ Resume(p)

(* Running: an intent whose ref has settled is stale.                      *)
StaleRunning(p) ==
  /\ Recovering(p, {Running})
  /\ record # NoRecord /\ record.state \notin {"running", "unknown"}
  /\ Goto(p, "remove")
  /\ then' = [then EXCEPT ![p] = "resume"]
  /\ UNCHANGED <<worktree, files, turnLock, git, server, minted, output, cmd,
                 held, goal, made>>

StillRunning(p) ==
  /\ Recovering(p, {Running})
  /\ record = NoRecord \/ record.state \in {"running", "unknown"}
  /\ IF held[p].message = 0 THEN Resume(p) ELSE Upsert(p, "resume")

(* patch_or_insert_ref.  A record inserted from an intent has no worktree. *)
PatchOrInsert(p) ==
  LET message == IF held[p].phase = SessionCreated THEN 0 ELSE held[p].message
      state   == IF then[p] = "remove" THEN "idle" ELSE "running"
  IN
  /\ Step(p, "upsert", then[p])
  /\ \/ PatchRecord([record EXCEPT !.session = held[p].session, !.state = state,
                                    !.message = IF message = 0 THEN @ ELSE message])
     \/ /\ held[p].requested
        /\ InsertRecord(NewRecord(held[p].session, message, state))
  /\ then' = [then EXCEPT ![p] = "resume"]
  /\ UNCHANGED <<worktree, intent, turnLock, git, server, minted, output, cmd,
                 held, goal, made>>

(* The phase reconciliation has reached: Running for a prompt that landed. *)
PersistRecovered(p) ==
  /\ Step(p, "persist", "resume")
  /\ Persist(p, IF held[p].phase = PromptUncertain THEN InPhase(p, Running)
                ELSE held[p])
  /\ UNCHANGED <<worktree, record, turnLock, git, server, minted, output, cmd,
                 goal, made, then>>

(* TerminalObserved, Validated: adopt_existing_commit looks only at the    *)
(* subject of the last commit, which is the same for every turn of a ref.  *)
Adoptable == record # NoRecord /\ record.tree /\ tree /\ log # <<>>

AdoptCommit(p) ==
  /\ Recovering(p, {Observed, Validated})
  /\ Adoptable
  /\ Persist(p, [InPhase(p, Committed) EXCEPT !.commit = Len(log)])
  /\ UNCHANGED <<worktree, record, turnLock, git, server, minted, output, cmd,
                 pc, goal, made, then>>

FinalizeRecovered(p) ==
  /\ Recovering(p, {Observed, Validated})
  /\ record # NoRecord /\ ~Adoptable
  /\ IF held[p].reply = 0 THEN Resume(p)
     ELSE /\ Goto(p, "finalize")
          /\ goal' = [goal EXCEPT ![p] = held[p].reply]
          /\ then' = [then EXCEPT ![p] = "resume"]
          /\ UNCHANGED <<worktree, files, turnLock, git, server, minted, output,
                         cmd, held, made>>

(* Committed: settle_committed, an error without a reply or a record.      *)
SettleCommitted(p) ==
  /\ Recovering(p, {Committed})
  /\ held[p].reply # 0
  /\ PatchRecord([record EXCEPT !.state = "done", !.commit = held[p].commit,
                                !.completion = held[p].reply])
  /\ Goto(p, "remove")
  /\ then' = [then EXCEPT ![p] = "resume"]
  /\ UNCHANGED <<worktree, intent, turnLock, git, server, minted, output, cmd,
                 held, goal, made>>

-----------------------------------------------------------------------------
(* The commands themselves.                                                *)

(* The server refuses a request for a session it never made.               *)
Known(session) == session # Reserved

(* `oca ls` prints what it finds. *)
List(p) ==
  /\ pc[p] = "resume" /\ cmd[p] = "list"
  /\ Return(p)
  /\ UNCHANGED <<worktree, files, git, server, minted, output>>

Follow(p) ==
  /\ cmd[p] = "follow"
  /\ Step(p, "resume", "open")
  /\ Active /\ record.message # 0
  /\ goal' = [goal EXCEPT ![p] = record.message]
  /\ UNCHANGED <<worktree, files, turnLock, git, server, minted, output, cmd,
                 held, made, then>>

OpenJournal(p) ==
  /\ Step(p, "open", "watch")
  /\ Hold(p, intent)
  /\ UNCHANGED <<worktree, files, turnLock, git, server, minted, output, cmd,
                 goal, made, then>>

(* Mutant of Message: the new turn keeps the message id of the last one.   *)
MessageAgain(p) ==
  /\ cmd[p] = "message"
  /\ Step(p, "resume", "ready")
  /\ Active /\ record.state \in AcceptsNewTurn
  /\ Hold(p, NewIntent(FALSE, PromptUncertain, record.session, 0))
  /\ goal' = [goal EXCEPT ![p] = record.message]
  /\ made' = [made EXCEPT ![p] = 0]
  /\ then' = [then EXCEPT ![p] = "end"]
  /\ UNCHANGED <<worktree, files, turnLock, git, server, minted, output, cmd>>

(* `oca m` takes a new turn only on a ref that is not busy.                *)
Message(p) ==
  /\ cmd[p] = "message"
  /\ Step(p, "resume", "ready")
  /\ Active /\ record.state \in AcceptsNewTurn
  /\ Hold(p, NewIntent(FALSE, PromptUncertain, record.session, 0))
  /\ goal' = [goal EXCEPT ![p] = 0]
  /\ made' = [made EXCEPT ![p] = 0]
  /\ then' = [then EXCEPT ![p] = "end"]
  /\ UNCHANGED <<worktree, files, turnLock, git, server, minted, output, cmd>>

(* `oca q` writes no intent: what it holds is only the session.            *)
Queue(p) ==
  /\ Step(p, "queue", "prompt")
  /\ Active /\ Known(record.session)
  /\ record.state \notin {"aborted", "unknown"}
  /\ minted < MaxTurns
  /\ minted' = minted + 1
  /\ goal' = [goal EXCEPT ![p] = minted']
  /\ Hold(p, NewIntent(FALSE, PromptUncertain, record.session, minted'))
  /\ UNCHANGED <<worktree, files, turnLock, git, server, output, cmd, made, then>>

AbortSession(p) ==
  /\ Step(p, "abort", "aborted")
  /\ Active /\ Known(record.session)
  /\ status' = [t \in Turn |->
       IF status[t] = "running" /\ sentTo[t] = record.session THEN "invalid"
       ELSE status[t]]
  /\ UNCHANGED <<worktree, files, turnLock, git, sentTo, sends, minted, output,
                 cmd, local>>

PatchAborted(p) ==
  /\ pc[p] = "aborted"
  /\ PatchRecord([record EXCEPT !.state = "aborted"])
  /\ Return(p)
  /\ UNCHANGED <<worktree, intent, git, server, minted, output>>

-----------------------------------------------------------------------------
(* The OpenCode session (external): a message in flight becomes visible or *)
(* is dropped, its turn edits the worktree, and ends with a reply or not.  *)

Serve(t, from, to) ==
  /\ status[t] = from
  /\ status' = [status EXCEPT ![t] = to]
  /\ UNCHANGED <<worktree, files, turnLock, git, sentTo, sends, minted, output,
                 cmd, pc, local>>

Admit(t)   == Serve(t, "inflight", "running")
Drop(t)    == Serve(t, "inflight", "dropped")
Reply(t)   == Serve(t, "running", "replied")
Fail(t)    == Serve(t, "running", "invalid")

Edit(t) ==
  /\ status[t] = "running"
  /\ tree
  /\ \A k \in 1..Len(log) : t \notin log[k]
  /\ dirty' = dirty \cup {t}
  /\ UNCHANGED <<worktree, files, turnLock, tree, staged, log, server, minted,
                 output, cmd, pc, local>>

-----------------------------------------------------------------------------

Start(p) ==
  \/ PlanIntent(p) \/ ReserveRef(p) \/ CreateTree(p) \/ CreateTreeFails(p)
  \/ StoreTree(p) \/ PersistReady(p) \/ CreateSession(p)
  \/ SubscribeUnreachable(p) \/ PromptUnreachable(p) \/ FailBeforePrompt(p)
  \/ CleanTree(p) \/ CleanIntent(p) \/ DiscardUnacknowledged(p)

Prompt(p) ==
  \/ PersistUncertain(p) \/ Send(p) \/ Accepted(p) \/ ResponseLost(p)
  \/ MessageFails(p) \/ Confirmed(p) \/ ConfirmTimesOut(p)
  \/ PreserveIntent(p) \/ PreserveRecord(p) \/ PersistRunning(p)
  \/ WriteRef(p) \/ Acknowledge(p) \/ PatchMessage(p)

Finalize(p) ==
  \/ SaveCursor(p) \/ TerminalObserved(p) \/ ReplyInvalid(p)
  \/ ReadTerminal(p) \/ CloseTurn(p) \/ ValidateTree(p) \/ Commit(p)
  \/ PersistCommitted(p) \/ PatchTerminal(p) \/ RemoveIntent(p)

Reconcile(p) ==
  \/ ReadIntent(p) \/ AdoptSession(p) \/ CleanStrandedTree(p)
  \/ TombstoneStrand(p) \/ SessionAnswers(p) \/ ServerSilent(p)
  \/ PromptLanded(p) \/ PromptMissing(p) \/ StaleRunning(p)
  \/ StillRunning(p) \/ PatchOrInsert(p) \/ PersistRecovered(p)
  \/ AdoptCommit(p) \/ FinalizeRecovered(p) \/ SettleCommitted(p)

Command(p) ==
  \/ \E c \in Allowed : Begin(p, c)
  \/ List(p) \/ Follow(p) \/ OpenJournal(p) \/ Message(p) \/ Queue(p)
  \/ AbortSession(p) \/ PatchAborted(p)

Next ==
  \/ \E p \in Proc :
       \/ Start(p) \/ Prompt(p) \/ Finalize(p) \/ Reconcile(p) \/ Command(p)
       \/ Quit(p)
  \/ \E t \in Turn : Admit(t) \/ Drop(t) \/ Reply(t) \/ Fail(t) \/ Edit(t)

Spec == Init /\ [][Next]_vars

-----------------------------------------------------------------------------
(* Properties.                                                             *)

(* No message is sent twice: not by a retry, and not by recovery ("fresh   *)
(* reconciliation must never resend the uncertain prompt").                *)
NoReplay == \A t \in Turn : sends[t] <= 1

(* A dispatch is acknowledged only when the session has shown its message. *)
AckedIsAdmitted == acked => status[1] \in Admitted

(* What reconciliation takes as local proof that a prompt was admitted is  *)
(* one: "a complete running ref is written only after prompt_async returns *)
(* success".                                                               *)
LocalProofSound ==
  intent # NoIntent /\ intent.phase = PromptUncertain /\ RefConfirms(intent)
    => status[intent.message] \in Admitted

(* A ref that was acknowledged keeps its record, its session and a message *)
(* to attribute, whatever dies, recovers or settles afterwards.            *)
AckedIsKept ==
  acked => Active /\ record.session # Reserved /\ record.message # 0

(* A worktree ref whose turn is finished names some commit, whoever        *)
(* finalized it or recovered it; whose commit, EachTurnCommitted asks.     *)
SettledHasCommit ==
  record # NoRecord /\ record.tree /\ record.state = "done" => record.commit # 0

(* A completion that is stored names a message that ended with a valid     *)
(* reply, whoever settles it from whatever intent.  The message may be an  *)
(* older one than the record's, and the ref aborted meanwhile.             *)
CompletionIsReply ==
  record # NoRecord /\ record.completion # 0 =>
    status[record.completion] = "replied"

(* A dispatch whose message the session works on, or has answered, can be  *)
(* found again: by its intent or by its record, whatever died meanwhile.   *)
AdmittedIsTraceable ==
  minted = 1 /\ status[1] \in {"running", "replied"} =>
    \/ intent # NoIntent /\ intent.message = 1
    \/ record # NoRecord /\ record.message = 1

(* Two messages are never worked on at once, unless `oca q` queued one.    *)
NoParallelTurns ==
  \A t, u \in confirmed :
    t # u => status[t] # "running" \/ status[u] # "running"

(* When a turn that edited the worktree is settled, its edits are in a     *)
(* commit, not left behind in the worktree with no intent to commit them.  *)
EachTurnCommitted ==
  record # NoRecord /\ record.tree /\ record.state = "done"
    /\ record.completion \in dirty => intent # NoIntent
-----------------------------------------------------------------------------
(* The inductive invariant behind NoReplay.                                *)

(* Where a process may still send a message it has not sent.               *)
Pending == {"start", "reserved", "treed", "stored", "planned", "ready", "prompt"}

(* What such a process is about to send is fresh, and its own: no retry,   *)
(* no recovery and no other command has sent it or is about to.            *)
FreshGoal(p) == goal[p] \in 1..minted /\ sends[goal[p]] = 0

SendInv ==
  /\ \A t \in Turn : sends[t] <= 1
  /\ \A t \in Turn : t > minted => sends[t] = 0
  /\ \A p \in Proc : pc[p] \in Pending => goal[p] = 0 \/ FreshGoal(p)
  /\ \A p \in Proc : pc[p] = "prompt" => goal[p] # 0
  /\ \A p, q \in Proc :
       p # q /\ pc[p] \in Pending /\ pc[q] \in Pending /\ goal[p] # 0 =>
         goal[p] # goal[q]
-----------------------------------------------------------------------------
(* The inductive invariant behind the properties of settled turns and of the *)
(* acknowledgement.                                                         *)

(* What a process has in memory at each place.                              *)
WithIntent ==
  {"reserved", "treed", "stored", "planned", "ready", "prompt", "sent", "confirm",
   "confirmed", "preserve", "preserved", "landed", "patchqueue", "recover", "upsert",
   "persist", "tombstone"}
Settling == {"finalize", "close", "validate", "commit", "committed", "patch"}
WithGoal ==
  Settling \cup {"prompt", "sent", "confirm", "confirmed", "preserve", "preserved",
                 "landed", "patchqueue", "ack", "waiting", "open", "watch"}

MemoryInv ==
  \A p \in Proc :
    /\ pc[p] \in WithIntent => held[p] \in IntentType
    /\ pc[p] \in WithGoal => goal[p] \in Turn
    /\ pc[p] \in {"reserved", "treed", "stored", "planned"} => held[p].session < 2
    /\ pc[p] = "upsert" => then[p] # "end"

(* A turn's changes are committed once: there are no more commits than turns. *)
Logged == UNION {log[k] : k \in 1..Len(log)}

LogInv ==
  /\ staged \subseteq dirty
  /\ dirty \cap Logged = {}
  /\ Len(log) <= Cardinality(Logged)

(* Wherever a reply is named, by whichever copy of the intent, it has come.  *)
Replied(i) == i # NoIntent /\ i.reply # 0 => status[i.reply] = "replied"

ReplyInv ==
  /\ Replied(intent)
  /\ \A p \in Proc : Replied(held[p])
  /\ \A p \in Proc : pc[p] \in Settling => status[goal[p]] = "replied"

(* The dispatcher runs the dispatch and nothing else, and nobody else does.  *)
Unacknowledged ==
  {"start", "reserved", "treed", "stored", "planned", "ready", "prompt", "sent",
   "confirm", "confirmed", "landed", "preserve", "preserved", "cleanup", "cleaned",
   "discard", "ack"}
Acknowledged == Settling \cup {"waiting", "remove", "ended"}
Shared ==
  Settling \cup {"ready", "prompt", "sent", "confirm", "confirmed", "landed", "remove"}
ListPlaces ==
  Settling \cup {"idle", "reconcile", "recover", "persist", "tombstone", "upsert",
                 "resume", "remove"}

DispatcherInv ==
  /\ cmd[Dispatcher] = "dispatch" /\ then[Dispatcher] = "end"
  /\ pc[Dispatcher] \in Acknowledged \/ (~acked /\ pc[Dispatcher] \in Unacknowledged)
  /\ \A o \in Operators :
       /\ cmd[o] # "dispatch"
       /\ pc[o] \notin ((Unacknowledged \cup Acknowledged) \ Shared)

(* Before the acknowledgement there is one message, that of the dispatch, and *)
(* the operators list.                                                      *)
FirstInv ==
  /\ ~DispatchOver =>
       /\ goal[Dispatcher] = minted /\ minted <= 1
       /\ \A o \in Operators : cmd[o] \in {"none", "list"} /\ pc[o] \in ListPlaces
  /\ pc[Dispatcher] \in {"confirmed", "landed", "ack"} =>
       status[goal[Dispatcher]] \in Admitted

(* While the worktree is being made, its record has no intent yet, so that    *)
(* nobody recovers or settles it.                                           *)
EarlyInv ==
  pc[Dispatcher] \in {"start", "reserved", "treed"} =>
    /\ intent = NoIntent
    /\ record # NoRecord => record.state = "running"
    /\ \A o \in Operators :
         pc[o] \in {"idle", "reconcile", "resume"} /\ held[o] = NoIntent

(* Whoever settles a turn without a commit does so on a ref without worktree. *)
Numbered(i) == i # NoIntent /\ i.phase = Committed => i.commit # 0

CommitInv ==
  /\ Numbered(intent)
  /\ \A p \in Proc :
       /\ Numbered(held[p])
       /\ pc[p] = "committed" => made[p] # 0
       /\ pc[p] = "close" \/ (pc[p] = "patch" /\ made[p] = 0) =>
            record = NoRecord \/ ~record.tree

TurnInv ==
  /\ TypeOK /\ MemoryInv /\ LogInv
  /\ ReplyInv /\ CompletionIsReply
  /\ DispatcherInv /\ FirstInv /\ AckedIsAdmitted
  /\ EarlyInv /\ CommitInv /\ SettledHasCommit

(* Without an `ls` that meets a live dispatch, an operator only ever holds     *)
(* intents from which an acknowledged ref is not taken for a strand.         *)
Beyond(i) == i # NoIntent => i.phase \notin {Planned, WorktreeReady} /\ i.session # Reserved

KeptInv ==
  /\ ~DispatchOver =>
       /\ \A o \in Operators : pc[o] = "idle" /\ held[o] = NoIntent
       /\ record # NoRecord => ~record.tombstoned
  /\ pc[Dispatcher] \in {"ready", "prompt", "sent", "confirm", "confirmed", "landed", "ack"} =>
       held[Dispatcher].session # Reserved
  /\ pc[Dispatcher] \in {"landed", "ack"} => Beyond(intent) /\ Beyond(held[Dispatcher])
  /\ pc[Dispatcher] = "ack" =>
       record # NoRecord /\ record.session # Reserved /\ record.message # 0
  /\ acked =>
       /\ Beyond(intent)
       /\ \A p \in Proc : Beyond(held[p]) /\ pc[p] # "tombstone"
  /\ AckedIsKept
-----------------------------------------------------------------------------
(* The inductive invariant behind AdmittedIsTraceable, for operators that only *)
(* list, follow and abort, and an `ls` that meets no live dispatch.          *)

Queries == {"list", "follow", "abort"}
Senders == {"ready", "prompt", "sent", "confirm", "confirmed", "landed", "patchqueue", "queue"}
QueryInv == \A o \in Operators : cmd[o] \in Queries \cup {"none"} /\ pc[o] \notin Senders

(* There is one message to name.                                            *)
OneNamed(i) == i # NoIntent => i.message \in {0, 1}
OneMessage ==
  /\ record # NoRecord => record.message \in {0, 1}
  /\ OneNamed(intent)
  /\ \A p \in Proc : OneNamed(held[p])

Lost == status[1] \in {"unsent", "dropped"}
Named == record # NoRecord /\ record.message = 1
Reserving == record # NoRecord /\ record.message = 0 => record.state = "running" /\ record.session = Reserved
Uncertain(i) == i # NoIntent /\ i.message = 1 /\ i.phase \in {PromptUncertain, Running}

(* While a prompt may be under way, the intent says so; a dispatch that gives *)
(* up its intent has no message that could arrive.                          *)
Sending == {"prompt", "sent", "confirm", "confirmed", "preserve", "preserved", "landed"}
SendingInv ==
  ~DispatchOver =>
    /\ pc[Dispatcher] \in Unacknowledged
    /\ Reserving
    /\ pc[Dispatcher] \in Sending => Uncertain(intent) /\ Uncertain(held[Dispatcher])
    /\ pc[Dispatcher] \in Pending => status[1] = "unsent"
    /\ pc[Dispatcher] \in {"cleanup", "cleaned", "discard"} => Lost

(* A message that is not lost and that no record names is on its way through  *)
(* recovery, and recovery has not gone beyond it.                           *)
Querying == {"idle", "reconcile", "recover", "upsert", "resume", "abort"}
SoughtInv ==
  DispatchOver /\ ~Lost /\ ~Named =>
    /\ Reserving
    /\ Uncertain(intent)
    /\ \A o \in Operators :
         pc[o] \in Querying /\ (held[o] = NoIntent \/ Uncertain(held[o]))

TraceInv == QueryInv /\ OneMessage /\ SendingInv /\ SoughtInv
-----------------------------------------------------------------------------
(* The inductive invariant behind LocalProofSound, for commands that do not   *)
(* meet: each of them takes the turn lock, or one operator runs them in turn. *)

Serial == Allowed \subseteq Locking \/ \A o, q \in Operators : o = q

LockInv ==
  \A o \in Operators :
    /\ pc[o] = "idle" \/ cmd[o] \in Allowed
    /\ cmd[o] \in Locking => turnLock = o

(* No message is named before it is minted.                                 *)
Minted(i) == i # NoIntent => i.message <= minted /\ i.reply <= minted

MintedInv ==
  /\ record # NoRecord => record.message <= minted
  /\ Minted(intent)
  /\ \A p \in Proc : Minted(held[p]) /\ goal[p] <= minted

(* Such an intent names a message, and a running record of it is no lie.    *)
Waiting(i) == i # NoIntent /\ i.phase = PromptUncertain
Proven(i) ==
  Waiting(i) =>
    /\ i.message \in Turn
    /\ record # NoRecord /\ record.state = "running" /\ record.message = i.message =>
         status[i.message] \in Admitted

(* Until the dispatch writes its record as running, with an intent that no    *)
(* longer asks for a proof, the record names no message.                    *)
Unrecorded == Unacknowledged \ {"ack"}
UnrecordedInv ==
  /\ ~DispatchOver => pc[Dispatcher] \in Unacknowledged
  /\ pc[Dispatcher] \in Unrecorded =>
       /\ record # NoRecord => record.message = 0
       /\ pc[Dispatcher] \in {"reserved", "treed", "stored"} => ~Waiting(held[Dispatcher])
       /\ pc[Dispatcher] \in Sending => held[Dispatcher].message \in Turn
  /\ pc[Dispatcher] \in {"landed", "ack"} => ~Waiting(intent)

(* What recovery acts on is what the file still asks; what it upserts as      *)
(* running is admitted, and what `oca q` patches is no intent's message.    *)
Queuing(o) == pc[o] = "patchqueue" \/ (cmd[o] = "queue" /\ pc[o] \in {"prompt", "sent"})
AnswerInv ==
  \A o \in Operators :
    /\ pc[o] \in {"recover", "upsert"} =>
         Proven(held[o]) /\ (Waiting(intent) => held[o] = intent)
    /\ pc[o] = "upsert" /\ Waiting(held[o]) /\ then[o] # "remove" =>
         status[held[o].message] \in Admitted
    /\ pc[o] = "ready" => cmd[o] = "message" /\ goal[o] = 0
    /\ pc[o] \in {"confirmed", "landed"} => status[goal[o]] \in Admitted
    /\ Queuing(o) /\ Waiting(intent) => intent.message # goal[o]

ProofInv == LockInv /\ MintedInv /\ Proven(intent) /\ UnrecordedInv /\ AnswerInv
=============================================================================

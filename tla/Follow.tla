-------------------------------- MODULE Follow --------------------------------
(***************************************************************************)
(* `oca f` and the headed helper following one turn: they subscribe to the   *)
(* server's events, read the session's history, and collect the steps of the *)
(* turn until its end.  Streams break, the server may or may not replay what *)
(* was missed, history may be unreadable, and `oca f` may be killed and run  *)
(* again from the cursor it stored.                                          *)
(***************************************************************************)
EXTENDS Turns, Naturals, Sequences, FiniteSetsExt

CONSTANTS Setups,    \* turns with their circumstances
          MaxFaults  \* bound: broken streams, failed calls, kills and new runs

(* An idle that is not the last event is an earlier turn's: nothing of the    *)
(* turn is before it.                                                       *)
ASSUME SetupAssumption ==
  \A s \in Setups :
    /\ Len(s.turn) \in Nat
    /\ \A i \in 1..(Len(s.turn) - 1) : s.turn[i].kind = "idle" =>
         \A j \in 1..i : s.turn[j].kind \in {"message", "part"} => s.turn[j].step = 0

(* Steps are numbered by their first messages, and a text that precedes its   *)
(* message is updated again after it.                                       *)
ASSUME StepAssumption ==
  \A s \in Setups : \A i \in 1..Len(s.turn) :
    /\ s.turn[i].kind \in {"message", "part"} => s.turn[i].step \in 0..3
    /\ s.turn[i].kind = "message" => \A step \in 1..(s.turn[i].step - 1) :
         \E j \in 1..(i - 1) : s.turn[j].kind = "message" /\ s.turn[j].step = step
    /\ s.turn[i].kind = "part" /\ s.turn[i].step # 0 => \E j, k \in 1..Len(s.turn) :
         /\ j < k
         /\ s.turn[j].kind = "message" /\ s.turn[j].step = s.turn[i].step
         /\ s.turn[k].kind = "part" /\ s.turn[k].step = s.turn[i].step

(* What the events carry.                                                   *)
ASSUME EventAssumption ==
  \A s \in Setups : \A i \in 1..Len(s.turn) :
    /\ s.turn[i].kind = "message" =>
         s.turn[i].done \in BOOLEAN /\ s.turn[i].error \in BOOLEAN /\ s.turn[i].text \in Texts
    /\ s.turn[i].kind = "part" => s.turn[i].text \in Texts

ASSUME FaultAssumption == MaxFaults \in Nat

VARIABLES
  setup,    \* one of the setups: fixed
  sent,     \* events that the server has emitted
  pc,       \* where the follow is
  nxt,      \* the next event of the stream, or the first one not yet reflected
  seen,     \* event_ids
  chain,    \* attributed: the steps of the turn
  pending,  \* pending_parts: texts of messages not attributed so far
  cursor,   \* last_event_id, 0 if none
  reread,   \* no_cursor_reconciled
  failing,  \* connection_failed
  outcome,  \* "refused" is a protocol mismatch or a rate limit
  log,      \* how often the journal has each event
  stored,   \* event_cursor of the intent
  faults,
  runs,     \* how often the command was started again
  first,    \* ghost: where the newest stream without a replay began, 0 if none did
  joined,   \* ghost: events emitted when the history was last read
  resumed,  \* ghost: this run has replaced its stream
  gap       \* ghost: this run has missed an event

tracker == <<seen, chain, pending>>
connection == <<nxt, cursor, reread, failing>>
durable == <<log, stored, runs>>
ghosts == <<first, joined, resumed, gap>>
followVars == <<setup, sent, pc, tracker, connection, outcome, durable, faults, ghosts>>

-----------------------------------------------------------------------------
(* A setup has the turn's events, the last one its idle; whether the server  *)
(* replays after Last-Event-ID, whether events have ids, whether the history *)
(* can be read; and whether the follow is `oca f`, and has a timeout.        *)
turn == setup.turn
LastEvent == Len(turn)

Attributed(e) == e.kind = "message" /\ e.step # 0

(* What the server knows of a step after its first n events: the newest      *)
(* update of the message, and of its text.                                   *)
Newest(n, kind, step) ==
  Max({0} \cup {i \in 1..n : turn[i].kind = kind /\ turn[i].step = step})

Step(n, step) ==
  LET info == turn[Newest(n, "message", step)]
      part == Newest(n, "part", step)
  IN  [step |-> step, done |-> info.done, reply |-> info.text, error |-> info.error,
       text |-> IF part = 0 THEN "absent" ELSE turn[part].text]

History(n) ==
  LET steps == {turn[i].step : i \in {j \in 1..n : Attributed(turn[j])}}
  IN  [s \in 1..Max({0} \cup steps) |-> Step(n, s)]

-----------------------------------------------------------------------------
(* The worker's reply: a structured value before the text, the newest step   *)
(* that has one, an invalid text no less than a valid one.                   *)

WorkerReply(m) ==
  IF m.reply # "absent" THEN (IF m.reply = "invalid" THEN "absent" ELSE m.reply)
  ELSE m.text

TerminalFromChain(steps) ==
  LET replies == {i \in DOMAIN steps : WorkerReply(steps[i]) # "absent"}
  IN  IF replies = {} THEN "invalid" ELSE WorkerReply(steps[Max(replies)])

MarkerFromChain(steps) ==
  IF TerminalFromChain(steps) # "invalid" THEN TerminalFromChain(steps)
  ELSE IF steps[Len(steps)].error THEN "failed" ELSE "unclear"

Completed(steps) == steps # <<>> /\ steps[Len(steps)].done

(* What the command makes of the chain it ends with.                         *)
Verdict(steps) ==
  IF ~setup.classified THEN MarkerFromChain(steps)
  ELSE IF TerminalFromChain(steps) = "invalid" THEN "protocol_mismatch"
  ELSE TerminalFromChain(steps)

-----------------------------------------------------------------------------
(* TurnTracker.  A chain may lack steps, so a step is found by its id.       *)

Has(steps, id) == \E i \in DOMAIN steps : steps[i].step = id
Replaced(steps, id, m) ==
  [i \in DOMAIN steps |-> IF steps[i].step = id THEN m ELSE steps[i]]
Find(steps, id) == steps[CHOOSE i \in DOMAIN steps : steps[i].step = id]

(* Mutant of ObserveMessage: an update does not carry the parts over.        *)
ObserveMessageBare(e) ==
  LET m == [step |-> e.step, done |-> e.done, reply |-> e.text, error |-> e.error,
            text |-> pending[e.step]]
  IN  /\ chain' = IF Has(chain, e.step) THEN Replaced(chain, e.step, m) ELSE Append(chain, m)
      /\ pending' = [pending EXCEPT ![e.step] = "absent"]

(* Mutant of ObserveMessage: an update of a known message is a new step.     *)
ObserveMessageAgain(e) ==
  /\ chain' = Append(chain, [step |-> e.step, done |-> e.done, reply |-> e.text,
                             error |-> e.error, text |-> pending[e.step]])
  /\ pending' = [pending EXCEPT ![e.step] = "absent"]

ObserveMessage(e) ==
  LET text == IF pending[e.step] = "absent" /\ Has(chain, e.step)
              THEN Find(chain, e.step).text ELSE pending[e.step]
      m == [step |-> e.step, done |-> e.done, reply |-> e.text, error |-> e.error,
            text |-> text]
  IN  /\ chain' = IF Has(chain, e.step) THEN Replaced(chain, e.step, m) ELSE Append(chain, m)
      /\ pending' = [pending EXCEPT ![e.step] = "absent"]

ObservePart(e) ==
  IF Has(chain, e.step)
  THEN /\ chain' = Replaced(chain, e.step, [Find(chain, e.step) EXCEPT !.text = e.text])
       /\ UNCHANGED pending
  ELSE /\ pending' = [pending EXCEPT ![e.step] = e.text]
       /\ UNCHANGED chain

NoParts == [step \in 0..3 |-> "absent"]

-----------------------------------------------------------------------------

Active == pc \notin {"over", "killed"}

(* A step of a chain; no step is in it twice.                               *)
Attribution ==
  [step : 1..3, done : BOOLEAN, reply : Texts, error : BOOLEAN, text : Texts]

FollowTypeOK ==
  /\ setup \in Setups
  /\ sent \in 0..LastEvent
  /\ pc \in {"start", "join", "listen", "append", "persist", "broken",
             "retry", "over", "killed"}
  /\ nxt \in 1..(LastEvent + 1) /\ seen \subseteq 1..sent
  /\ chain \in Seq(Attribution)
  /\ \A i, j \in DOMAIN chain : chain[i].step = chain[j].step => i = j
  /\ pending \in [0..3 -> Texts]
  /\ cursor \in 0..sent /\ stored \in 0..sent
  /\ reread \in BOOLEAN /\ failing \in BOOLEAN
  /\ outcome \in {"none", "terminal", "timeout", "server_unreachable",
                  "refused", "events_corrupt"}
  /\ log \in [1..LastEvent -> 0..(MaxFaults + 1)]
  /\ faults \in 0..MaxFaults /\ runs \in 0..MaxFaults
  /\ first \in 0..(LastEvent + 1) /\ joined \in 0..LastEvent
  /\ resumed \in BOOLEAN /\ gap \in BOOLEAN

FollowInit ==
  /\ setup \in Setups
  /\ sent = 0
  /\ pc = "start"
  /\ nxt = 1 /\ cursor = 0 /\ reread = FALSE /\ failing = FALSE
  /\ seen = {} /\ chain = <<>> /\ pending = NoParts
  /\ outcome = "none"
  /\ log = [i \in 1..LastEvent |-> 0] /\ stored = 0
  /\ faults = 0 /\ runs = 0
  /\ first = 0 /\ joined = 0 /\ resumed = FALSE /\ gap = FALSE

Pass(from, to) == pc = from /\ pc' = to

EndFollow(from, how) == Pass(from, "over") /\ outcome' = how

Fault == faults < MaxFaults /\ faults' = faults + 1

(* Where a new stream begins: behind the cursor, perhaps with the event of   *)
(* the cursor again, if the server replays; otherwise with what comes next.  *)
Replayed == setup.replays /\ cursor # 0
Positions ==
  IF Replayed THEN {cursor, cursor + 1} ELSE {sent + 1}

-----------------------------------------------------------------------------
(* Joining: the stream first, then the history.                              *)

Subscribe ==
  /\ Pass("start", "join")
  /\ nxt' \in Positions
  /\ first' = IF Replayed THEN first ELSE nxt'
  /\ UNCHANGED <<setup, sent, tracker, cursor, reread, failing, outcome, durable,
                 faults, joined, resumed, gap>>

(* Mutant of ReadHistory: an unreadable history is asked for again.          *)
ReadHistoryAgain ==
  /\ chain' = IF setup.readable THEN History(sent) ELSE <<>>
  /\ IF setup.classified /\ Completed(chain')
     THEN EndFollow("join", "terminal")
     ELSE Pass("join", IF setup.readable THEN "listen" ELSE "start") /\ UNCHANGED outcome
  /\ joined' = sent
  /\ gap' = (~setup.readable /\ nxt > 1)
  /\ UNCHANGED <<setup, sent, seen, pending, connection, durable, faults, first,
                 resumed>>

(* Only `oca f` may end with what the history says.  A history that the      *)
(* server cannot render counts as empty.                                     *)
ReadHistory ==
  /\ chain' = IF setup.readable THEN History(sent) ELSE <<>>
  /\ IF setup.classified /\ Completed(chain')
     THEN EndFollow("join", "terminal")
     ELSE Pass("join", "listen") /\ UNCHANGED outcome
  /\ joined' = sent
  /\ gap' = (~setup.readable /\ nxt > 1)
  /\ UNCHANGED <<setup, sent, seen, pending, connection, durable, faults, first,
                 resumed>>

JoinFails ==
  /\ Fault
  /\ pc \in {"start", "join"}
  /\ \E how \in {"refused", "server_unreachable"} : EndFollow(pc, how)
  /\ UNCHANGED <<setup, sent, tracker, connection, durable, ghosts>>

-----------------------------------------------------------------------------
(* One event: the cursor first, then the session, the id, the journal and    *)
(* the intent, then the tracker, with which no other step can interfere.     *)
(* Thoughts are not journaled, and tell the tracker nothing.                 *)

(* Mutant of Deliver: an event is not recognised by its id.                  *)
DeliverAgain ==
  /\ nxt <= sent
  /\ nxt' = nxt + 1
  /\ failing' = FALSE
  /\ cursor' = IF setup.ids THEN nxt ELSE cursor
  /\ Pass("listen", IF turn[nxt].kind = "foreign" THEN "listen" ELSE "append")
  /\ UNCHANGED <<setup, sent, tracker, reread, outcome, durable, faults, ghosts>>

Deliver ==
  /\ nxt <= sent
  /\ nxt' = nxt + 1
  /\ failing' = FALSE
  /\ cursor' = IF setup.ids THEN nxt ELSE cursor
  /\ IF turn[nxt].kind = "foreign" \/ nxt \in seen
     THEN Pass("listen", "listen") /\ UNCHANGED seen
     ELSE /\ Pass("listen", IF turn[nxt].kind = "reasoning" THEN "listen" ELSE "append")
          /\ seen' = IF setup.ids THEN seen \cup {nxt} ELSE seen
  /\ UNCHANGED <<setup, sent, chain, pending, reread, outcome, durable, faults, ghosts>>

event == turn[nxt - 1]

(* The idle ends the turn, if its newest step is complete.                   *)
Observe(from) ==
  /\ CASE Attributed(event) -> ObserveMessage(event)
       [] event.kind = "part" -> ObservePart(event)
       [] OTHER -> UNCHANGED <<chain, pending>>
  /\ IF event.kind = "idle" /\ Completed(chain)
     THEN EndFollow(from, "terminal")
     ELSE Pass(from, "listen") /\ UNCHANGED outcome

Persists == setup.classified /\ setup.ids

AppendEvent ==
  /\ pc = "append"
  /\ log' = [log EXCEPT ![nxt - 1] = @ + 1]
  /\ IF Persists
     THEN Pass("append", "persist") /\ UNCHANGED <<chain, pending, outcome>>
     ELSE Observe("append")
  /\ UNCHANGED <<setup, sent, seen, connection, stored, runs, faults, ghosts>>

(* `oca f` stores the cursor of an event that it has journaled.              *)
Persist ==
  /\ pc = "persist"
  /\ stored' = nxt - 1
  /\ Observe("persist")
  /\ UNCHANGED <<setup, sent, seen, connection, log, runs, faults, ghosts>>

RecordFails ==
  /\ Fault
  /\ pc \in {"append", "persist"}
  /\ EndFollow(pc, "events_corrupt")
  /\ UNCHANGED <<setup, sent, tracker, connection, durable, ghosts>>

-----------------------------------------------------------------------------
(* The stream ends, cleanly or not, and is replaced.                         *)

StreamEnds ==
  /\ Fault
  /\ Pass("listen", IF cursor = 0 /\ ~reread THEN "broken" ELSE "retry")
  /\ failing' \in {failing, TRUE}
  /\ UNCHANGED <<setup, sent, tracker, nxt, cursor, reread, outcome, durable, ghosts>>

(* A frame that is cut off by a clean end, or is not what it should be.      *)
StreamGarbled ==
  /\ Fault
  /\ EndFollow("listen", "refused")
  /\ UNCHANGED <<setup, sent, tracker, connection, durable, ghosts>>

(* Without a cursor the history is read again, once.                         *)
Reread ==
  /\ reread' = TRUE
  /\ IF setup.readable
     THEN /\ failing' = FALSE
          /\ chain' = History(sent) /\ pending' = NoParts
          /\ nxt' = sent + 1 /\ joined' = sent
     ELSE UNCHANGED <<failing, chain, pending, nxt, joined>>
  /\ IF setup.readable /\ setup.classified /\ Completed(chain')
     THEN EndFollow("broken", "terminal")
     ELSE Pass("broken", "retry") /\ UNCHANGED outcome
  /\ UNCHANGED <<setup, sent, seen, cursor, durable, faults, first, resumed, gap>>

RereadFails ==
  /\ Fault
  /\ reread' = TRUE
  /\ \/ Pass("broken", "retry") /\ failing' = TRUE /\ UNCHANGED outcome
     \/ EndFollow("broken", "refused") /\ UNCHANGED failing
  /\ UNCHANGED <<setup, sent, tracker, nxt, cursor, durable, ghosts>>

(* After enough attempts, and only for a follow that has a timeout.          *)
GiveUp ==
  /\ setup.explicit /\ failing
  /\ EndFollow("retry", "server_unreachable")
  /\ UNCHANGED <<setup, sent, tracker, connection, durable, faults, ghosts>>

Resubscribe ==
  /\ Pass("retry", "listen")
  /\ nxt' \in Positions
  /\ failing' = FALSE
  /\ resumed' = TRUE
  /\ gap' = (gap \/ nxt' > nxt)
  /\ first' = IF Replayed THEN first ELSE nxt'
  /\ UNCHANGED <<setup, sent, tracker, cursor, reread, outcome, durable, faults,
                 joined>>

ResubscribeFails ==
  /\ Fault
  /\ \/ Pass("retry", "retry") /\ failing' = TRUE /\ UNCHANGED outcome
     \/ EndFollow("retry", "refused") /\ UNCHANGED failing
  /\ UNCHANGED <<setup, sent, tracker, nxt, cursor, reread, durable, ghosts>>

-----------------------------------------------------------------------------

Expire ==
  /\ setup.explicit
  /\ Active
  /\ EndFollow(pc, IF failing THEN "server_unreachable" ELSE "timeout")
  /\ UNCHANGED <<setup, sent, tracker, connection, durable, faults, ghosts>>

KillFollow ==
  /\ Fault
  /\ Active
  /\ pc' = "killed"
  /\ UNCHANGED <<setup, sent, tracker, connection, outcome, durable, ghosts>>

(* `oca f` again, after it was killed or failed.                             *)
Again ==
  /\ setup.classified
  /\ pc = "killed" \/ (pc = "over" /\ outcome # "terminal")
  /\ Fault
  /\ pc' = "start"
  /\ runs' = runs + 1
  /\ cursor' = stored
  /\ reread' = FALSE /\ failing' = FALSE
  /\ seen' = {} /\ chain' = <<>> /\ pending' = NoParts
  /\ outcome' = "none"
  /\ joined' = 0 /\ resumed' = FALSE /\ gap' = FALSE
  /\ UNCHANGED <<setup, sent, nxt, log, stored, first>>

(* Looked at while a follow goes on or may be run again.                     *)
Emit ==
  /\ Active \/ (setup.classified /\ faults < MaxFaults)
  /\ sent < LastEvent
  /\ sent' = sent + 1
  /\ UNCHANGED <<setup, pc, tracker, connection, outcome, durable, faults, ghosts>>

Progress ==
  \/ Subscribe \/ ReadHistory \/ Deliver \/ AppendEvent \/ Persist
  \/ Reread \/ Resubscribe

FollowNext ==
  \/ Progress \/ JoinFails \/ RecordFails \/ StreamEnds \/ StreamGarbled \/ RereadFails
  \/ GiveUp \/ ResubscribeFails \/ Expire \/ KillFollow \/ Again \/ Emit

(* The turn goes on, the follow is scheduled and the clock runs.             *)
FollowFairness == WF_followVars(Progress) /\ WF_followVars(Emit) /\ WF_followVars(Expire)

FollowSpec == FollowInit /\ [][FollowNext]_followVars /\ FollowFairness

-----------------------------------------------------------------------------

(* What a follow reports is what the session's history says.  After the      *)
(* turn's own idle it is what the history says at the end, for replayed,      *)
(* repeated and outdated events alike, unless the stream left one out.  But   *)
(* it may end before that idle: `oca f` by a history that it read between two *)
(* tool steps, and any follow by the idle of an earlier turn, when the        *)
(* history it had joined ended with a complete step.  Then it reports exactly *)
(* what the history said when it was last read, which later steps may change. *)
VerdictIsHistory ==
  outcome = "terminal" =>
    /\ nxt <= LastEvent => chain = History(joined)
    /\ nxt > LastEvent /\ ~gap => Verdict(chain) = Verdict(History(LastEvent))

(* The journal is neither short nor double: the cursor never gets ahead of it, *)
(* so that a follow that is killed and resumed from the cursor leaves no event *)
(* out, if the server replays; and one run journals an event once, however    *)
(* often the server repeats it.                                              *)
JournalComplete ==
  setup.replays /\ first > 0 =>
    \A i \in first..stored : turn[i].kind \notin {"foreign", "reasoning"} => log[i] > 0

JournalExact ==
  /\ JournalComplete
  /\ setup.ids => \A i \in 1..LastEvent : log[i] <= 1 + runs

(* Why it holds: what the tracker, the stream and the cursor have behind them *)
(* is in the journal, except for the event that is being recorded.           *)
Flying(i) == pc = "append" /\ i = nxt - 1
InJournal(i) == turn[i].kind \notin {"foreign", "reasoning"} => log[i] > 0

JournalingInv ==
  /\ setup \in Setups /\ sent \in 0..LastEvent
  /\ nxt \in 1..(LastEvent + 1) /\ first \in 0..(LastEvent + 1)
  /\ cursor \in 0..LastEvent /\ stored \in 0..LastEvent /\ seen \subseteq 1..LastEvent
  /\ runs \in Nat /\ log \in [1..LastEvent -> Nat]
  /\ cursor = 0 => stored = 0
  /\ ~setup.ids => cursor = 0
  /\ pc \in {"append", "persist"} => nxt > 1
  /\ pc = "persist" => setup.ids
  /\ pc \in {"append", "persist"} /\ setup.ids =>
       nxt - 1 \in seen /\ cursor = nxt - 1
  /\ setup.ids => \A i \in 1..LastEvent :
       log[i] <= IF i \in seen /\ ~Flying(i) THEN 1 + runs ELSE runs
  /\ Active => \A i \in seen : ~Flying(i) => InJournal(i)
  /\ setup.replays /\ first > 0 =>
       /\ pc \in {"start", "join", "listen", "broken", "retry"} =>
            \A i \in first..cursor : InJournal(i)
       /\ pc \in {"join", "listen", "append", "persist"} =>
            \A i \in first..(nxt - 1) : ~Flying(i) => InJournal(i)
  /\ JournalExact

(* What the tracker has attributed to the turn was emitted, and is behind the *)
(* history or the cursor, or without a cursor behind the stream.             *)
TrackingInv ==
  /\ nxt <= sent + 1 /\ cursor <= sent /\ stored <= sent /\ joined \in 0..sent
  /\ pc \in {"join", "listen", "append", "persist"} => cursor <= nxt
  /\ pc = "broken" => cursor = 0
  /\ chain # <<>> =>
       \E j \in 1..LastEvent : Attributed(turn[j]) /\
         (j <= joined \/ j <= cursor \/ (cursor = 0 /\ j < nxt))
  /\ outcome = "terminal" => pc = "over"
  /\ outcome = "terminal" /\ ~setup.classified => nxt > LastEvent \/ nxt - 1 <= joined

(* What the stream has brought, but for the event that is being recorded.    *)
Behind ==
  {j \in 1..LastEvent :
     (j < nxt \/ j \in seen) /\ ~(pc \in {"append", "persist"} /\ j = nxt - 1)}

(* A step of which some events are known: what they tell of its message is    *)
(* the newest if they have all its updates, and so is what they tell of its   *)
(* text.  History may have told more than the stream so far, and a text less: *)
(* history does not have it before its message.                              *)
Updates(kind, step) == {i \in 1..LastEvent : turn[i].kind = kind /\ turn[i].step = step}

Told(m, step, events) ==
  LET newest == Step(LastEvent, step)
  IN  /\ Updates("message", step) # {}
      /\ m = [step |-> step, done |-> m.done, reply |-> m.reply, error |-> m.error,
              text |-> m.text]
      /\ Updates("message", step) \subseteq events =>
           m.done = newest.done /\ m.reply = newest.reply /\ m.error = newest.error
      /\ Updates("part", step) \subseteq events => m.text = newest.text

(* All the steps of some events, in their order.                            *)
Tells(steps, events) ==
  /\ Len(steps) \in Nat /\ steps = [step \in 1..Len(steps) |-> steps[step]]
  /\ \A step \in 1..Len(steps) : Told(steps[step], step, events)
  /\ \A j \in events : Attributed(turn[j]) => turn[j].step <= Len(steps)

(* A text waits only for a message that the chain does not have.             *)
Waits(texts, steps) ==
  /\ DOMAIN texts = 0..3
  /\ \A step \in 1..3 :
       texts[step] # "absent" => step > Len(steps) /\ Updates("part", step) # {}

(* The chain tells what is behind, unless the run missed an event.           *)
Tracks == pc \in {"listen", "append", "persist", "broken", "retry"} \/ outcome = "terminal"

TellingInv ==
  /\ seen \subseteq 1..cursor
  /\ pc \in {"start", "join"} => seen = {} /\ pending = NoParts
  /\ Tracks /\ ~gap =>
       Tells(chain, Behind) /\ Waits(pending, chain)

(* As long as no event of the turn's own steps came by stream or cursor, the  *)
(* chain is the history as it was last read: before an earlier turn's idle    *)
(* there is none.                                                             *)
Untouched ==
  \A j \in 1..LastEvent : j < nxt \/ j <= cursor =>
    ~(turn[j].kind \in {"message", "part"} /\ turn[j].step # 0)

LastRead == IF setup.readable THEN History(joined) ELSE <<>>

HistoryInv ==
  /\ pc \in {"listen", "append", "persist", "broken", "retry"} /\ Untouched =>
       chain = LastRead
  /\ Replayed /\ pc \in {"join", "listen", "append", "persist", "broken", "retry"} =>
       nxt <= cursor + 1
  /\ outcome = "terminal" /\ nxt <= LastEvent => chain = History(joined)

(* The stream will not bring the idle any more: it was emitted while there    *)
(* was no stream, and no history told of it.                                  *)
Missed ==
  /\ pc = "listen" /\ nxt > LastEvent /\ ~setup.explicit
  /\ resumed \/ ~setup.classified \/ ~setup.readable

(* What the acceptance notes say of a server without replay: the history is   *)
(* the fallback that brings a follow to its end.                              *)
EveryFollowEnds == Active ~> ~Active
=============================================================================

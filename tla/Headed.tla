-------------------------------- MODULE Headed --------------------------------
(***************************************************************************)
(* The headed helper around its follow: it opens a herdr tab or a tmux       *)
(* window for the worker, follows the turn to its end without a timeout,     *)
(* marks the display with the end and closes it, while `oca k` may close the *)
(* tab that the ref's record names.  `oca f` has no display.                 *)
(***************************************************************************)
EXTENDS Follow

ASSUME DisplayAssumption ==
  \A s \in Setups :
    s.display \in {"none", "herdr", "tmux"} /\ (s.classified => s.display = "none")

VARIABLES
  stage,   \* of the helper
  screen,  \* the tab or window
  saved,   \* the record's herdr_tab
  killer,  \* `oca k`: its place
  known,   \* the herdr_tab of the record that `oca k` has read
  closer,  \* ghost: who closed the screen
  lost     \* ghost: a call to open, mark or close failed or had no answer

screenVars == <<stage, screen, saved, killer, known, closer, lost>>
headedVars == <<followVars, screenVars>>

Display == setup.display       \* "none", "herdr" or "tmux"
CloseOnDone == setup.close

HeadedTypeOK ==
  /\ FollowTypeOK
  /\ stage \in {"open", "agent", "options", "patch", "journal", "undo", "follow", "mark",
                "close", "clean", "ended"}
  /\ screen \in {"none", "open", "marked", "closed"}
  /\ saved \in BOOLEAN /\ known \in BOOLEAN
  /\ killer \in {"none", "read", "done"}
  /\ closer \in {"nobody", "helper", "k"}
  /\ lost \in BOOLEAN

HeadedInit ==
  /\ FollowInit
  /\ stage = IF Display = "none" THEN "follow" ELSE "open"
  /\ screen = "none" /\ saved = FALSE
  /\ killer = IF Display = "herdr" THEN "none" ELSE "done"
  /\ known = FALSE
  /\ closer = "nobody" /\ lost = FALSE

-----------------------------------------------------------------------------

Stage(from, to) == Active /\ stage = from /\ stage' = to

(* A call of herdr or tmux: answered, refused, or without an answer in time  *)
(* although it may have had its effect.                                      *)
Answered == UNCHANGED <<faults, lost>>
Unanswered == Fault /\ lost' = TRUE

(* workspace and tab, or new-window.                                        *)
OpenScreen ==
  /\ \/ /\ Answered
        /\ Stage("open", IF Display = "herdr" THEN "agent" ELSE "options")
        /\ screen' = "open"
     \/ Unanswered /\ Stage("open", "ended") /\ screen' \in {"none", "open"}
  /\ UNCHANGED <<saved, killer, known, closer>>

(* The worker's TUI in the tab, or the options of the window.                *)
StartAgent ==
  /\ \/ /\ Answered
        /\ \/ Stage("agent", "patch")
           \/ Stage("options", "journal")
     \/ /\ Fault /\ UNCHANGED lost
        /\ \/ Stage("agent", "undo")
           \/ Stage("options", "undo")
  /\ UNCHANGED <<screen, saved, killer, known, closer>>

PatchTab ==
  /\ \/ Answered /\ Stage("patch", "journal") /\ saved' = TRUE
     \/ Fault /\ Stage("patch", "undo") /\ UNCHANGED <<saved, lost>>
  /\ UNCHANGED <<screen, killer, known, closer>>

(* The journal may have another writer, or a torn end.  herdr's tab is       *)
(* recorded by now and stays.                                                *)
CreateJournal ==
  /\ \/ Answered /\ Stage("journal", "follow")
     \/ /\ Fault
        /\ Stage("journal", IF Display = "tmux" THEN "undo" ELSE "ended")
        /\ UNCHANGED lost
  /\ UNCHANGED <<screen, saved, killer, known, closer>>

CloseScreen(who) ==
  \/ /\ Answered
     /\ closer' = IF screen = "closed" THEN closer ELSE who
     /\ screen' = "closed"
  \/ Unanswered /\ UNCHANGED <<screen, closer>>

(* Mutant of UndoScreen: a display that could not be set up is left.         *)
UndoScreenNot ==
  /\ Stage("undo", "ended")
  /\ UNCHANGED <<faults, screen, saved, killer, known, closer, lost>>

UndoScreen ==
  /\ Stage("undo", "ended")
  /\ CloseScreen("helper")
  /\ UNCHANGED <<saved, killer, known>>

(* Mutant of FollowEnds: an error of the follow closes the tab, too.         *)
FollowEndsClosing ==
  /\ stage = "follow" /\ Display # "none"
  /\ pc = "over"
  /\ stage' = IF outcome = "terminal" THEN "mark"
              ELSE IF outcome # "server_unreachable" THEN "clean" ELSE "ended"
  /\ UNCHANGED <<faults, screen, saved, killer, known, closer, lost>>

(* After an error tmux's window is closed; herdr's tab stays.                *)
FollowEnds ==
  /\ stage = "follow" /\ Display # "none"
  /\ pc = "over"
  /\ stage' = IF outcome = "terminal" THEN "mark"
              ELSE IF outcome # "server_unreachable" /\ Display = "tmux" THEN "clean"
              ELSE "ended"
  /\ UNCHANGED <<faults, screen, saved, killer, known, closer, lost>>

ShouldClose == CloseOnDone /\ MarkerFromChain(chain) = "done"

(* The marker may fail; the display is closed nevertheless.                  *)
MarkScreen ==
  /\ stage = "mark"
  /\ stage' = IF ShouldClose THEN "close" ELSE "ended"
  /\ \/ Answered /\ screen' = IF screen = "open" THEN "marked" ELSE screen
     \/ Unanswered /\ UNCHANGED screen
  /\ UNCHANGED <<saved, killer, known, closer>>

CloseAtEnd ==
  /\ stage \in {"close", "clean"}
  /\ stage' = "ended"
  /\ CloseScreen("helper")
  /\ UNCHANGED <<saved, killer, known>>

-----------------------------------------------------------------------------
(* oca k: the record, the abort, then the herdr tab of the record it has read. *)

AbortReads ==
  /\ killer = "none" /\ killer' = "read"
  /\ known' = saved
  /\ UNCHANGED <<faults, stage, screen, saved, closer, lost>>

AbortCloses ==
  /\ killer = "read" /\ killer' = "done"
  /\ IF known THEN CloseScreen("k") ELSE UNCHANGED <<faults, screen, closer, lost>>
  /\ UNCHANGED <<stage, saved, known>>

-----------------------------------------------------------------------------

following == <<setup, sent, pc, tracker, connection, outcome, durable, ghosts>>

ScreenStep ==
  \/ OpenScreen \/ StartAgent \/ PatchTab \/ CreateJournal \/ UndoScreen \/ FollowEnds
  \/ MarkScreen \/ CloseAtEnd

Killer == AbortReads \/ AbortCloses

HeadedNext ==
  \/ stage = "follow" /\ FollowNext /\ UNCHANGED screenVars
  \/ stage # "follow" /\ (Emit \/ KillFollow) /\ UNCHANGED screenVars
  \/ (ScreenStep \/ Killer) /\ UNCHANGED following

(* Nothing stops while the turn, the follow, its timeout or the display can   *)
(* go on.  Faults are bounded and nothing else repeats, so that this says as  *)
(* much as fairness of each of them.                                         *)
GoesOn ==
  \/ (Emit \/ (stage = "follow" /\ (Progress \/ Expire))) /\ UNCHANGED screenVars
  \/ ScreenStep /\ UNCHANGED following

HeadedFairness == WF_headedVars(GoesOn)

HeadedSpec == HeadedInit /\ [][HeadedNext]_headedVars /\ HeadedFairness

-----------------------------------------------------------------------------

(* The helper closes a recorded tab only when the turn is over, with a `done` *)
(* reply, whatever the stream, the server and herdr do: never between two     *)
(* tool steps of a live worker, and never because following failed.  What may *)
(* deceive it is an earlier turn's idle that reaches it after the history did.*)
ClosedWhenDone ==
  closer = "helper" /\ saved => outcome = "terminal" /\ MarkerFromChain(chain) = "done"

LiveTabKept ==
  /\ ClosedWhenDone
  /\ closer = "helper" /\ saved => nxt > LastEvent \/ nxt - 1 <= joined

(* A display that is still open when its helper has ended can be found by     *)
(* `oca k`, says how the turn ended, or was left by a follow that lost the    *)
(* server: it is not forgotten.  Excepted is only a helper that was refused,  *)
(* or got no answer, when it opened, marked or closed its display; a start of *)
(* the agent that fails is not excepted.                                     *)
NoForgottenScreen ==
  stage = "ended" /\ screen = "open" /\ ~lost => saved \/ outcome = "server_unreachable"

(* `oca f` and the helper end, at the latest with the timeout, unless the     *)
(* idle went by unseen: while streams break and the server is away they do    *)
(* not give up for good.                                                      *)
Following == Active /\ stage # "ended"
EndsUnlessMissed == []<>(~Following \/ Missed)

(* Why the display behaves: what each stage knows of it.                     *)
DisplayInv ==
  /\ setup \in Setups
  /\ saved => Display = "herdr"
  /\ stage \in {"open", "agent", "options", "patch", "undo"} => ~saved
  /\ Display = "herdr" /\ stage \in {"journal", "follow", "mark", "close", "clean"} => saved
  /\ stage \in {"options", "clean"} => Display = "tmux"
  /\ stage \in {"agent", "patch"} => Display = "herdr"
  /\ stage \in {"open", "journal"} => Display # "none"
  /\ stage \in {"mark", "close"} => outcome = "terminal"
  /\ stage = "close" => ShouldClose
  /\ closer = "helper" => stage = "ended"
  /\ ClosedWhenDone /\ NoForgottenScreen
=============================================================================

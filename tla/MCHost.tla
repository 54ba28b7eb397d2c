-------------------------------- MODULE MCHost --------------------------------
(***************************************************************************)
(* What one oca process meets besides the dispatch, each part explored        *)
(* alone: the repository lock with the worktrees, a worktree's validation and *)
(* publication, the headed follow, the event journal, the spawner tag and the  *)
(* command line. They share no state; `part` says which one runs, the others  *)
(* rest.                                                                    *)
(***************************************************************************)
EXTENDS Worktrees, Publication, Headed, Journal, Spawner, Invocation

CONSTANTS a, b, gone,           \* commands on the repository, the last one dead
          p1, p2, p3,           \* processes at the journal
          broken                \* a config.toml that does not load

VARIABLE part

hostVars == <<part, treeVars, pubVars, headedVars, journalVars, spawnerVars, lineVars>>

(* A turn to follow, by `oca f` or by the helper of a display.               *)
Case(events, replays, readable, explicit, display) ==
  [turn |-> events, replays |-> replays, ids |-> TRUE, readable |-> readable,
   classified |-> display = "none", explicit |-> explicit, display |-> display,
   close |-> TRUE]

MCSetups ==
  {Case(TwoSteps, TRUE, TRUE, FALSE, "none"),
   [Case(Short, FALSE, TRUE, TRUE, "none") EXCEPT !.ids = FALSE],
   Case(AfterIdle, FALSE, TRUE, FALSE, "herdr"),
   Case(Failing, FALSE, FALSE, FALSE, "tmux"),
   Case(Structured, FALSE, FALSE, FALSE, "none"),
   Case(Short, TRUE, FALSE, TRUE, "none")}

(* What may be typed, and what config.toml may add to the compiled models.   *)
MCVerb == {"m", "q", "f", "k", "ls", "events", "push", "pr", "__attach",
           "luna", "luna:h", "deepseek", "text"}
MCArgument == {"--", "--json", "-e", "-r", "-w", "-t", "--since", "--all", "-h",
               "7", "0", "x", "w4f2a1"}
MCOrder == <<"w4f2a1", "x", "text", "terra", "sol", "push", "pr", "q", "m", "luna:h", "luna",
             "ls", "k", "h", "flash", "f", "events", "deepseek", "__attach", "Flash", "7", "0",
             "-w", "-t", "-r", "-h", "-e", "--since", "--json", "--all", "--">>
MCKey == {MCOrder[i] : i \in DOMAIN MCOrder}
MCRank == [k \in MCKey |-> CHOOSE i \in DOMAIN MCOrder : MCOrder[i] = k]
MCNormal == [k \in MCKey |-> IF k = "Flash" THEN "flash" ELSE k]
MCSplit == "luna:h" :> <<"luna", "h">>
MCFiles == {<<>>, broken, "Flash" :> [ladder |-> <<"high">>]}

-----------------------------------------------------------------------------
(* Parts that rest: one of their first states, and for the follow, which is   *)
(* scheduled fairly, one in which it has nothing to do.                      *)

TreesRest ==
  /\ TreesInit /\ dead = Proc /\ ~locked /\ ~branch
  /\ job = [p \in Proc |-> "create"]

PublicationRests ==
  /\ PublicationInit /\ settings = Allowing
  /\ kind = [p \in Command |-> "push"]
  /\ work = head /\ recorded = 0 /\ remote = 0 /\ intent = "none"

JournalRests ==
  /\ JournalInit /\ role = [p \in Actor |-> "read"] /\ path = 0

FollowRests ==
  /\ setup = Case(Failing, FALSE, FALSE, FALSE, "tmux")
  /\ sent = 0 /\ pc = "killed" /\ nxt = 1 /\ seen = {} /\ chain = <<>>
  /\ pending = NoParts /\ cursor = 0 /\ reread = FALSE /\ failing = FALSE
  /\ outcome = "none" /\ log = <<0, 0, 0>> /\ stored = 0 /\ faults = MaxFaults /\ runs = 0
  /\ first = 0 /\ joined = 0 /\ resumed = FALSE /\ gap = FALSE
  /\ stage = "ended" /\ screen = "none" /\ saved = FALSE /\ killer = "done"
  /\ known = FALSE /\ closer = "nobody" /\ lost = FALSE

SpawnerRests == SpawnerInit /\ spawner = "absent" /\ inherits = [p \in Asker |-> TRUE]

LineRests == LineInit /\ file = broken

(* Interchangeable processes: one order of what they do is enough.           *)
TreesStart ==
  TreesInit /\ dead = {gone} /\ job[gone] = "create" /\ (job[a] = "cleanup" => job[b] = "cleanup")

(* A push is the first half of a `pr`, and one pair of commands is enough for *)
(* settings that refuse, with a clean worktree; else a first change is made.  *)
(* Two finalizers are looked at on a ref that was not published.             *)
PublicationStarts ==
  /\ PublicationInit /\ remote <= recorded
  /\ <<kind[a], kind[b]>> \in {<<"finalize", "push">>, <<"finalize", "pr">>, <<"push", "pr">>,
                              <<"pr", "pr">>, <<"finalize", "finalize">>}
  /\ IF settings = Allowing THEN work # head
     ELSE work = head /\ recorded = 1 /\ kind[a] = "push"
  /\ kind[a] = kind[b] /\ kind[a] = "finalize" =>
       recorded = 1 /\ remote = 0 /\ intent = "running"

JournalStarts ==
  /\ JournalInit
  /\ <<role[p1], role[p2], role[p3]>> \in
       {<<"write", "write", "prune">>, <<"write", "read", "prune">>,
        <<"write", "prune", "prune">>, <<"write", "write", "read">>}

HostInit ==
  /\ part \in {"trees", "publication", "journal", "follow", "spawner", "line"}
  /\ IF part = "trees" THEN TreesStart ELSE TreesRest
  /\ IF part = "publication" THEN PublicationStarts ELSE PublicationRests
  /\ IF part = "journal" THEN JournalStarts ELSE JournalRests
  /\ IF part = "follow" THEN HeadedInit ELSE FollowRests
  /\ IF part = "spawner" THEN SpawnerInit ELSE SpawnerRests
  /\ IF part = "line" THEN LineInit ELSE LineRests

HostNext ==
  /\ UNCHANGED part
  /\ \/ /\ part = "trees" /\ TreesNext
        /\ UNCHANGED <<pubVars, journalVars, headedVars, spawnerVars, lineVars>>
     \/ /\ part = "publication" /\ PublicationNext
        /\ UNCHANGED <<treeVars, journalVars, headedVars, spawnerVars, lineVars>>
     \/ /\ part = "journal" /\ JournalNext
        /\ UNCHANGED <<treeVars, pubVars, headedVars, spawnerVars, lineVars>>
     \/ /\ part = "follow" /\ HeadedNext
        /\ UNCHANGED <<treeVars, pubVars, journalVars, spawnerVars, lineVars>>
     \/ /\ part = "spawner" /\ SpawnerNext
        /\ UNCHANGED <<treeVars, pubVars, journalVars, headedVars, lineVars>>
     \/ /\ part = "line" /\ LineNext
        /\ UNCHANGED <<treeVars, pubVars, journalVars, headedVars, spawnerVars>>

(* TreesFairness and HeadedFairness, each of its own part.                   *)
HostFairness ==
  /\ \A p \in Proc \ {gone} :
       /\ WF_treeVars(part = "trees" /\ Work(p))
       /\ WF_treeVars(part = "trees" /\ Clock(p))
  /\ WF_headedVars(part = "follow" /\ GoesOn)

HostSpec == HostInit /\ [][HostNext]_hostVars /\ HostFairness

(* The types of the part that runs, and the invariants that its proofs rest on; *)
(* the worktrees' are in TreesInv.                                           *)
HostInv ==
  /\ part = "publication" => PublicationInv
  /\ part = "journal" => JournalTypeOK /\ JournalInv /\ PagesInv
  /\ part = "follow" => HeadedTypeOK /\ DisplayInv /\ JournalingInv /\ TrackingInv /\ TellingInv
                         /\ HistoryInv
  /\ part = "spawner" => SpawnerInv
  /\ part = "line" => LineTypeOK
=============================================================================

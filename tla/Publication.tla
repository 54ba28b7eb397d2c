----------------------------- MODULE Publication -----------------------------
(***************************************************************************)
(* The end of a worktree turn and what follows it: the validation of the     *)
(* worktree, the commit, and `oca push` and `oca pr` of the branch.  None of *)
(* them takes the repository lock; the worker may still write files, the     *)
(* commands of one ref may overlap, share its intent file, and be killed.    *)
(***************************************************************************)
EXTENDS Naturals

CONSTANTS Command,      \* processes: each finalizes a turn, pushes, or opens a pull request
          Product,      \* files of the worktree
          MaxEdits   \* bound: files the worker writes while somebody is at work

ASSUME EditAssumption == MaxEdits \in Nat

VARIABLES
  work, index, head,  \* contents: in the worktree, staged, and committed
  tip,        \* number of the branch's newest commit
  recorded,   \* the commit that the ref's record names, 0 if none
  intent,     \* the ref's intent file
  remote,     \* the commit of the branch on the remote, 0 if absent
  pulls,      \* the commits that open pull requests name
  settings,   \* the configuration and the remote's properties
  kind, place, ended,   \* of each process: its command, its place, its end
  scanned, again,   \* of each process: the paths of its first and second scan
  mine,       \* of each process: its copy of the intent's phase
  named,      \* of each process: the commit of its turn, or of the record it read
  edits,      \* ghost: writes of the worker
  racing,     \* ghost: of each finalizer: writes between its first scan and its commit
  rushing,    \* ghost: of these, the writes since its second scan
  shared,     \* ghost: finalizers during whose checks another one staged
  touched,    \* ghost: publishers that reached the remote and have not settled
  crossed     \* ghost: publishers whose intent another process replaced

contents == <<work, index, head>>
locals == <<kind, place, ended, scanned, again, mine, named, racing,
            rushing, shared>>
pubVars == <<contents, tip, recorded, intent, remote, pulls, settings, locals, edits,
             touched, crossed>>

Content == {"base", "text", "empty"}
Phase == {"none", "running", "terminal", "validated", "committed", "uncertain"}

CommandPlaces ==
  {"read", "scan", "sizes", "stage", "rescan", "resizes", "diff", "commit", "store",
   "patch", "check", "gate", "clean", "trace", "exists", "push", "list", "open",
   "settle", "ended", "killed"}

PublicationTypeOK ==
  /\ work \in [Product -> Content] /\ index \in [Product -> Content] /\ head \in [Product -> Content]
  /\ tip \in Nat /\ recorded \in 0..tip /\ remote \in 0..tip /\ pulls \subseteq 1..tip
  /\ intent \in Phase
  /\ kind \in [Command -> {"finalize", "push", "pr"}]
  /\ place \in [Command -> CommandPlaces]
  /\ ended \in [Command -> {"none", "ok", "worktree_empty", "zero_byte_output",
       "worktree_dirty", "publish_failed", "publish_disabled",
       "publish_branch_forbidden", "publish_remote_missing"}]
  /\ scanned \in [Command -> SUBSET Product] /\ again \in [Command -> SUBSET Product]
  /\ mine \in [Command -> Phase]
  /\ named \in [Command -> 0..tip]
  /\ racing \in [Command -> 0..MaxEdits] /\ rushing \in [Command -> 0..MaxEdits]
  /\ edits \in 0..MaxEdits /\ shared \subseteq Command
  /\ touched \subseteq Command /\ crossed \subseteq Command

-----------------------------------------------------------------------------
(* The publication grant.                                                   *)

Unset == "unset"

(* An override holds for the repositories below its path: the deepest one    *)
(* that has the repository wins, also where it leaves the verb unset.        *)
Granted(verb, s) ==
  LET deepest == CHOOSE o \in s.overrides : \A other \in s.overrides : other.depth <= o.depth
  IN  IF s.overrides # {} /\ deepest[verb] # Unset THEN deepest[verb] = "on"
      ELSE s[verb]

IsProtected(branch, default) == branch \in {"main", "master", "HEAD"} \/ branch = default

(* Mutant of Refusal: the remote's default branch is not protected.          *)
RefusalEarly(verb, s) ==
  IF ~Granted("push", s) \/ (verb = "pr" /\ ~Granted("pr", s)) THEN "publish_disabled"
  ELSE IF ~s.matches \/ IsProtected(s.branch, "none") THEN "publish_branch_forbidden"
  ELSE IF ~s.remote THEN "publish_remote_missing"
  ELSE "none"

(* The first step of the grant that refuses, in the order of the code.      *)
Refusal(verb, s) ==
  IF ~Granted("push", s) \/ (verb = "pr" /\ ~Granted("pr", s)) THEN "publish_disabled"
  ELSE IF ~s.matches \/ IsProtected(s.branch, "none") THEN "publish_branch_forbidden"
  ELSE IF ~s.remote THEN "publish_remote_missing"
  ELSE IF IsProtected(s.branch, s.default) THEN "publish_branch_forbidden"
  ELSE "none"

Allowing == [push |-> TRUE, pr |-> TRUE, overrides |-> {}, matches |-> TRUE,
             branch |-> "oca", remote |-> TRUE, default |-> "main"]

Settings ==
  {Allowing,
   [Allowing EXCEPT !.push = FALSE],
   [Allowing EXCEPT !.push = FALSE, !.overrides = {[depth |-> 1, push |-> "on", pr |-> Unset]}],
   [Allowing EXCEPT !.overrides = {[depth |-> 1, push |-> "on", pr |-> "on"],
                                   [depth |-> 2, push |-> Unset, pr |-> "off"]}],
   [Allowing EXCEPT !.matches = FALSE],
   [Allowing EXCEPT !.branch = "main", !.default = "none"],
   [Allowing EXCEPT !.remote = FALSE],
   [Allowing EXCEPT !.default = "oca"]}

-----------------------------------------------------------------------------
(* One turn was committed before; the worker has worked since.  A dispatch   *)
(* that waits and any `oca f` of the ref may all finalize, on one index.     *)
(* The settings that refuse are looked at without a finalizer.               *)

PublicationInit ==
  /\ kind \in [Command -> {"finalize", "push", "pr"}]
  /\ settings \in Settings
  /\ settings # Allowing => \A p \in Command : kind[p] # "finalize"
  /\ head = [f \in Product |-> "base"]
  /\ index = head
  /\ work \in [Product -> {"base", "text"}]
  /\ tip = 1
  /\ recorded \in {0, 1}
  /\ intent \in {"none", "running"}
  /\ remote \in {0, 1}
  /\ pulls = {}
  /\ place = [p \in Command |-> IF kind[p] = "finalize" THEN "read" ELSE "check"]
  /\ ended = [p \in Command |-> "none"]
  /\ scanned = [p \in Command |-> {}] /\ again = scanned
  /\ mine = [p \in Command |-> "none"]
  /\ named = [p \in Command |-> 0]
  /\ racing = [p \in Command |-> 0] /\ rushing = racing /\ shared = {}
  /\ edits = 0
  /\ touched = {} /\ crossed = {}

Move(p, from, to) == place[p] = from /\ place' = [place EXCEPT ![p] = to]

Conclude(p, from, outcome) ==
  /\ Move(p, from, "ended")
  /\ ended' = [ended EXCEPT ![p] = outcome]

(* A step of a check: on to the next place, or the end with an error.       *)
Check(p, from, ok, to, error) ==
  \/ ok /\ Move(p, from, to) /\ UNCHANGED ended
  \/ ~ok /\ Conclude(p, from, error)

(* Writing or removing the intent file takes it from every publisher.       *)
TakesIntent(p) ==
  crossed' = crossed \cup {q \in Command \ {p} : intent = "uncertain"}

Changed == {f \in Product : work[f] # head[f] \/ index[f] # head[f]}
Empty(paths) == \E f \in paths : work[f] = "empty"

-----------------------------------------------------------------------------
(* finalize_turn of a worktree ref.                                         *)

ReadTurn(p) ==
  /\ Move(p, "read", "scan")
  /\ mine' = [mine EXCEPT ![p] = IF intent = "running" THEN "terminal" ELSE intent]
  /\ UNCHANGED <<contents, tip, recorded, intent, remote, pulls, settings, kind, ended,
                 scanned, again, named, racing, rushing, shared, edits, touched, crossed>>

validating == <<contents, tip, recorded, intent, remote, pulls, settings, kind, mine,
                named, shared, edits, touched, crossed>>

(* Between its first scan and its commit.                                   *)
Validating == {"sizes", "stage", "rescan", "resizes", "diff", "commit"}

FirstScan(p) ==
  /\ Check(p, "scan", Changed # {}, "sizes", "worktree_empty")
  /\ scanned' = [scanned EXCEPT ![p] = Changed]
  /\ UNCHANGED <<validating, again, racing, rushing>>

Sizes(p) ==
  /\ Check(p, "sizes", ~Empty(scanned[p]), "stage", "zero_byte_output")
  /\ UNCHANGED <<validating, scanned, again, racing, rushing>>

StageFiles(p) ==
  /\ Move(p, "stage", "rescan")
  /\ index' = [f \in Product |-> IF f \in scanned[p] THEN work[f] ELSE index[f]]
  /\ shared' = shared \cup {q \in Command \ {p} : place[q] \in Validating}
  /\ UNCHANGED <<work, head, tip, recorded, intent, remote, pulls, settings, kind, ended,
                 scanned, again, mine, named, racing, rushing, edits, touched, crossed>>

(* Mutant of Rescan: the second scan is skipped.                             *)
RescanSkipped(p) ==
  /\ Move(p, "rescan", "commit")
  /\ UNCHANGED <<validating, ended, scanned, again, racing, rushing>>

Rescan(p) ==
  /\ Move(p, "rescan", "resizes")
  /\ again' = [again EXCEPT ![p] = Changed]
  /\ rushing' = [rushing EXCEPT ![p] = 0]
  /\ UNCHANGED <<validating, ended, scanned, racing>>

Resizes(p) ==
  /\ Check(p, "resizes", ~Empty(again[p]), "diff", "zero_byte_output")
  /\ UNCHANGED <<validating, scanned, again, racing, rushing>>

Stable(p) == again[p] = scanned[p] /\ work = index

(* git diff --quiet, then git diff --cached --quiet.                        *)
Diff(p) ==
  /\ \/ Stable(p) /\ index # head /\ Move(p, "diff", "commit") /\ UNCHANGED ended
     \/ Stable(p) /\ index = head /\ Conclude(p, "diff", "worktree_empty")
     \/ ~Stable(p) /\ Conclude(p, "diff", "worktree_dirty")
  /\ IF Stable(p) /\ index # head /\ mine[p] # "none"
     THEN /\ intent' = "validated"
          /\ TakesIntent(p)
     ELSE UNCHANGED <<intent, crossed>>
  /\ UNCHANGED <<contents, tip, recorded, remote, pulls, settings, kind, scanned, again,
                 mine, named, racing, rushing, shared, edits, touched>>

Commit(p) ==
  /\ IF index # head
     THEN /\ Move(p, "commit", "store")
          /\ head' = index
          /\ tip' = tip + 1
          /\ named' = [named EXCEPT ![p] = tip + 1]
          /\ UNCHANGED ended
     ELSE Conclude(p, "commit", "worktree_dirty") /\ UNCHANGED <<head, tip, named>>
  /\ UNCHANGED <<work, index, recorded, intent, remote, pulls, settings, kind, scanned,
                 again, mine, racing, rushing, shared, edits, touched, crossed>>

StoreCommit(p) ==
  /\ Move(p, "store", "patch")
  /\ IF mine[p] # "none" THEN intent' = "committed" /\ TakesIntent(p)
     ELSE UNCHANGED <<intent, crossed>>
  /\ UNCHANGED <<contents, tip, recorded, remote, pulls, settings, kind, ended, scanned,
                 again, mine, named, racing, rushing, shared, edits, touched>>

PatchRecord(p) ==
  /\ Move(p, "patch", "settle")
  /\ recorded' = named[p]
  /\ UNCHANGED <<contents, tip, intent, remote, pulls, settings, kind, ended, scanned, again,
                 mine, named, racing, rushing, shared, edits, touched, crossed>>

-----------------------------------------------------------------------------
(* oca push and oca pr.                                                     *)

publishing == <<contents, tip, recorded, settings, kind, scanned, again, mine, racing,
                rushing, shared, edits>>

(* The record is read, and an uncertain earlier publication stops the        *)
(* command.                                                                  *)
Resolve(p) ==
  /\ Check(p, "check", intent # "uncertain", "gate", "publish_failed")
  /\ named' = [named EXCEPT ![p] = recorded]
  /\ UNCHANGED <<publishing, intent, remote, pulls, touched, crossed>>

Gate(p) ==
  /\ Check(p, "gate", Refusal(kind[p], settings) = "none", "clean",
           Refusal(kind[p], settings))
  /\ UNCHANGED <<publishing, intent, remote, pulls, named, touched, crossed>>

RequireClean(p) ==
  /\ Check(p, "clean", work = head /\ index = head, "trace", "worktree_dirty")
  /\ UNCHANGED <<publishing, intent, remote, pulls, named, touched, crossed>>

(* Mutant of Trace: the intent is not written.                               *)
TraceNothing(p) ==
  /\ Move(p, "trace", IF kind[p] = "push" THEN "push" ELSE "exists")
  /\ UNCHANGED <<publishing, ended, intent, remote, pulls, named, touched, crossed>>

Trace(p) ==
  /\ Move(p, "trace", IF kind[p] = "push" THEN "push" ELSE "exists")
  /\ intent' = "uncertain"
  /\ TakesIntent(p)
  /\ UNCHANGED <<publishing, ended, remote, pulls, named, touched>>

(* Mutant of BranchExists: the branch is taken to be there.                  *)
BranchAssumed(p) ==
  /\ Move(p, "exists", "list")
  /\ UNCHANGED <<publishing, ended, intent, remote, pulls, named, touched, crossed>>

BranchExists(p) ==
  /\ Move(p, "exists", IF remote # 0 THEN "list" ELSE "push")
  /\ UNCHANGED <<publishing, ended, intent, remote, pulls, named, touched, crossed>>

(* git push, never forced, takes whatever the branch has by then.            *)
Push(p) ==
  /\ Move(p, "push", IF kind[p] = "push" THEN "settle" ELSE "list")
  /\ remote' = tip
  /\ touched' = touched \cup {p}
  /\ UNCHANGED <<publishing, ended, intent, pulls, named, crossed>>

ListPulls(p) ==
  /\ Move(p, "list", IF pulls # {} THEN "settle" ELSE "open")
  /\ UNCHANGED <<publishing, ended, intent, remote, pulls, named, touched, crossed>>

(* The provider opens one pull request for a branch.                         *)
OpenPull(p) ==
  /\ named[p] # 0 /\ pulls = {}
  /\ Move(p, "open", "settle")
  /\ pulls' = {named[p]}
  /\ touched' = touched \cup {p}
  /\ UNCHANGED <<publishing, ended, intent, remote, named, crossed>>

(* git or the provider fails, whether or not its effect took place.          *)
PublishFails(p) ==
  /\ place[p] \in {"gate", "clean", "exists", "push", "list", "open"}
  /\ Conclude(p, place[p], "publish_failed")
  /\ \/ UNCHANGED <<remote, pulls, touched>>
     \/ /\ place[p] = "push"
        /\ remote' = tip
        /\ touched' = touched \cup {p}
        /\ UNCHANGED pulls
     \/ /\ place[p] = "open" /\ named[p] # 0 /\ pulls = {}
        /\ pulls' = {named[p]}
        /\ touched' = touched \cup {p}
        /\ UNCHANGED remote
  /\ UNCHANGED <<publishing, intent, named, crossed>>

(* Both a finalizer and a publisher remove the ref's intent, whose it is.    *)
Settle(p) ==
  /\ Conclude(p, "settle", "ok")
  /\ intent' = "none"
  /\ TakesIntent(p)
  /\ touched' = touched \ {p}
  /\ UNCHANGED <<publishing, remote, pulls, named>>

-----------------------------------------------------------------------------

(* The worker writes a file; looked at while a turn is being finalized.      *)
Edit(f, content) ==
  /\ edits < MaxEdits
  /\ work[f] # content
  /\ \E p \in Command : kind[p] = "finalize" /\ place[p] \notin {"ended", "killed"}
  /\ work' = [work EXCEPT ![f] = content]
  /\ edits' = edits + 1
  /\ racing' = [p \in Command |-> racing[p] + IF place[p] \in Validating THEN 1 ELSE 0]
  /\ rushing' = [p \in Command |-> rushing[p] + IF place[p] \in Validating THEN 1 ELSE 0]
  /\ UNCHANGED <<index, head, tip, recorded, intent, remote, pulls, settings, kind, place,
                 ended, scanned, again, mine, named, shared, touched, crossed>>

KillCommand(p) ==
  /\ place[p] \notin {"ended", "killed"}
  /\ place' = [place EXCEPT ![p] = "killed"]
  /\ UNCHANGED <<contents, tip, recorded, intent, remote, pulls, settings, kind, ended,
                 scanned, again, mine, named, racing, rushing, shared, edits, touched, crossed>>

Finalize(p) ==
  \/ ReadTurn(p) \/ FirstScan(p) \/ Sizes(p) \/ StageFiles(p) \/ Rescan(p) \/ Resizes(p)
  \/ Diff(p) \/ Commit(p) \/ StoreCommit(p) \/ PatchRecord(p)

Publish(p) ==
  \/ Resolve(p) \/ Gate(p) \/ RequireClean(p) \/ Trace(p) \/ BranchExists(p)
  \/ Push(p) \/ ListPulls(p) \/ OpenPull(p) \/ PublishFails(p)

PublicationNext ==
  \/ \E p \in Command : Finalize(p) \/ Publish(p) \/ Settle(p) \/ KillCommand(p)
  \/ \E f \in Product, content \in Content : Edit(f, content)

PublicationSpec == PublicationInit /\ [][PublicationNext]_pubVars

-----------------------------------------------------------------------------

(* A commit that may hold an empty file, although the size of every file was *)
(* checked twice: the size is that of the file and the commit takes the      *)
(* index.  The worker has then written after the second check began and, if  *)
(* no other finalizer has staged the files meanwhile, three times since the  *)
(* first.                                                                    *)
Outrun(p) ==
  /\ kind[p] = "finalize" /\ named[p] # 0
  /\ rushing[p] >= 1
  /\ p \in shared \/ racing[p] >= 3

(* No empty file is committed but by a finalizer that was outrun like that:  *)
(* also with several finalizers on one index, killed at any point.           *)
NoEmptyCommit == \A f \in Product : head[f] = "empty" => \E p \in Command : Outrun(p)

(* A publication that was killed or failed half-way is never forgotten: its   *)
(* intent says so until somebody has looked at the remote, unless another     *)
(* command of the ref has written or removed the file meanwhile.              *)
UncertainIsTraced ==
  \A p \in touched : intent = "uncertain" \/ p \in crossed

(* No pull request without its branch on the remote, be `oca pr` killed,      *)
(* repeated or overlapped by another `oca pr` or `oca push`.                  *)
PullHasBranch == pulls # {} => remote # 0

(* Whichever way a command is interleaved with others, a protected branch is  *)
(* never pushed and gets no pull request, nor does one outside the configured *)
(* patterns: also by the push that is part of `oca pr`.                       *)
ProtectedKept ==
  [][remote' # remote \/ pulls' # pulls =>
       /\ settings.matches
       /\ settings.branch \notin {"main", "master", "HEAD", settings.default}]_pubVars

-----------------------------------------------------------------------------
(* Why they hold: the parts of the inductive invariant.                      *)

Before == {"read", "scan", "sizes", "stage"}
Finalizing ==
  Before \cup {"rescan", "resizes", "diff", "commit", "store", "patch"}

(* What the worker must have written after the second scan for an empty file *)
(* to be in the worktree behind it, or to be in the index behind the check.  *)
Late(p, f) ==
  /\ place[p] = "resizes" /\ f \notin again[p] /\ work[f] = "empty" => rushing[p] >= 1
  /\ place[p] \in {"diff", "commit"} /\ work[f] = "empty" => rushing[p] >= 1
  /\ place[p] = "commit" /\ index[f] = "empty" => rushing[p] >= 1

(* How often it must have written an empty file that a finalizer alone is on *)
(* its way to commit: to empty it after the first look at its size, to fill  *)
(* it for the second, and to empty it again before it is compared with the   *)
(* index.                                                                    *)
Sneaks(p, f) ==
  /\ place[p] = "stage" /\ f \in scanned[p] /\ work[f] = "empty" => racing[p] >= 1
  /\ place[p] \in {"sizes", "stage", "rescan", "resizes", "diff"} /\ index[f] = "empty" =>
       f \in scanned[p]
  /\ place[p] \in {"rescan", "resizes", "diff"} /\ index[f] = "empty" =>
       racing[p] >= (IF work[f] = "empty" THEN 1 ELSE 2)
  /\ place[p] = "diff" /\ index[f] = "empty" /\ f \in again[p] =>
       racing[p] >= (IF work[f] = "empty" THEN 3 ELSE 2)
  /\ place[p] = "commit" /\ index[f] = "empty" => racing[p] >= 3

CountInv ==
  \A p \in Command :
    /\ racing[p] <= edits /\ rushing[p] <= edits
    /\ place[p] \in Finalizing => kind[p] = "finalize"
    /\ place[p] = "check" => kind[p] # "finalize"
    /\ place[p] \in {"read", "scan"} \cup Validating => named[p] = 0

Unspoilt ==
  /\ \A f \in Product : head[f] # "empty"
  /\ \A p \in Command, f \in Product : Late(p, f) /\ (p \in shared \/ Sneaks(p, f))

EmptyInv == Unspoilt \/ \E p \in Command : Outrun(p)

(* A publisher has its intent in the file, or another process took it away.   *)
TraceInv ==
  \A p \in Command :
    /\ p \in touched => place[p] \in {"list", "open", "settle", "ended", "killed"}
    /\ p \in touched \/ place[p] \in {"exists", "push", "list", "open"} =>
         intent = "uncertain" \/ p \in crossed

(* Beyond its gate a publisher has the grant, beyond the push the branch.     *)
GateInv ==
  \A p \in Command :
    /\ place[p] \in {"clean", "trace", "exists", "push", "list", "open"} =>
         Refusal(kind[p], settings) = "none"
    /\ place[p] \in {"list", "open"} => remote # 0

PublicationInv ==
  PublicationTypeOK /\ tip >= 1 /\ CountInv /\ EmptyInv /\ TraceInv /\ GateInv /\ PullHasBranch
=============================================================================

------------------------------ MODULE Worktrees ------------------------------
(***************************************************************************)
(* What happens under the repository lock to the worktree and the branch of *)
(* one ref: `oca -w` creates both, the recovery of a stranded dispatch       *)
(* removes both.  The work is done by git, a process of its own: when the    *)
(* `oca` that started it is killed, it runs on.                              *)
(***************************************************************************)
EXTENDS RepoLock

VARIABLES
  job,      \* what each process came to do: "create" or "cleanup"
  step,     \* where it is in that job while it holds the lock
  git,      \* what its git is about to do
  result,   \* how its job ended
  tree,     \* .oca/wt/<ref> exists
  branch,   \* oca/<ref> exists
  last,     \* ghost: the last job that succeeded, if none has begun since
  haunted   \* ghost: a git worked after the death of its `oca`

jobVars == <<job, step, git, result, tree, branch, last, haunted>>
treeVars == <<lockVars, jobVars>>

GitSteps == {"idle", "failed", "branch", "tree", "untree", "unbranch"}

TreesTypeOK ==
  /\ job \in [Proc -> {"create", "cleanup"}]
  /\ step \in [Proc -> {"begin", "adding", "removing", "deleting", "over"}]
  /\ git \in [Proc -> GitSteps]
  /\ result \in [Proc -> {"none", "ok", "worktree_conflict", "worktree_dirty"}]
  /\ tree \in BOOLEAN /\ branch \in BOOLEAN
  /\ last \in {"none", "create", "cleanup"}
  /\ haunted \in BOOLEAN

(* An earlier dispatch was killed before, within or after `git worktree     *)
(* add`.                                                                    *)
TreesInit ==
  /\ LockInit
  /\ job \in [Proc -> {"create", "cleanup"}]
  /\ step = [p \in Proc |-> "begin"]
  /\ git = [p \in Proc |-> "idle"]
  /\ result = [p \in Proc |-> "none"]
  /\ branch \in BOOLEAN /\ tree \in BOOLEAN /\ (tree => branch)
  /\ last = "none"
  /\ haunted = FALSE

-----------------------------------------------------------------------------

Doing(p, now, next) ==
  at[p] = "held" /\ step[p] = now /\ step' = [step EXCEPT ![p] = next]

End(p, outcome) ==
  /\ result' = [result EXCEPT ![p] = outcome]
  /\ last' = IF outcome = "ok" THEN job[p] ELSE last

Git(p, what) == git' = [git EXCEPT ![p] = what]

(* WorktreeManager::create.                                                 *)
Create(p) ==
  /\ job[p] = "create"
  /\ IF tree \/ branch
     THEN /\ Doing(p, "begin", "over")
          /\ End(p, "worktree_conflict")
          /\ UNCHANGED git
     ELSE /\ Doing(p, "begin", "adding")
          /\ Git(p, "branch")
          /\ last' = "none"
          /\ UNCHANGED result
  /\ UNCHANGED <<lockVars, job, tree, branch, haunted>>

Created(p) ==
  /\ Doing(p, "adding", "over")
  /\ git[p] \in {"idle", "failed"}
  /\ End(p, IF git[p] = "idle" THEN "ok" ELSE "worktree_dirty")
  /\ UNCHANGED <<lockVars, job, git, tree, branch, haunted>>

(* cleanup_orphaned_worktree.                                               *)
CleanUp(p) ==
  /\ job[p] = "cleanup"
  /\ Doing(p, "begin", "removing")
  /\ git' = IF tree THEN [git EXCEPT ![p] = "untree"] ELSE git
  /\ last' = "none"
  /\ UNCHANGED <<lockVars, job, result, tree, branch, haunted>>

(* Mutant of TreeRemoved: the branch of a removed worktree is left.          *)
TreeRemovedOnly(p) ==
  /\ git[p] \in {"idle", "failed"}
  /\ Doing(p, "removing", "over")
  /\ End(p, IF git[p] = "idle" THEN "ok" ELSE "worktree_dirty")
  /\ UNCHANGED <<lockVars, job, git, tree, branch, haunted>>

TreeRemoved(p) ==
  /\ git[p] \in {"idle", "failed"}
  /\ IF git[p] = "idle" /\ branch
     THEN /\ Doing(p, "removing", "deleting")
          /\ Git(p, "unbranch")
          /\ UNCHANGED <<result, last>>
     ELSE /\ Doing(p, "removing", "over")
          /\ End(p, IF git[p] = "idle" THEN "ok" ELSE "worktree_dirty")
          /\ UNCHANGED git
  /\ UNCHANGED <<lockVars, job, tree, branch, haunted>>

BranchDeleted(p) ==
  /\ Doing(p, "deleting", "over")
  /\ git[p] \in {"idle", "failed"}
  /\ End(p, IF git[p] = "idle" THEN "ok" ELSE "worktree_dirty")
  /\ UNCHANGED <<lockVars, job, git, tree, branch, haunted>>

-----------------------------------------------------------------------------
(* git worktree add makes the branch, then the worktree; a branch that is    *)
(* checked out cannot be deleted.                                            *)

Running(p) == git[p] \notin {"idle", "failed"}

GitWorks(p) ==
  /\ \/ /\ git[p] = "branch" /\ ~branch
        /\ branch' = TRUE
        /\ Git(p, "tree")
        /\ UNCHANGED tree
     \/ /\ git[p] = "tree" /\ ~tree /\ branch
        /\ tree' = TRUE
        /\ Git(p, "idle")
        /\ UNCHANGED branch
     \/ /\ git[p] = "untree" /\ tree
        /\ tree' = FALSE
        /\ Git(p, "idle")
        /\ UNCHANGED branch
     \/ /\ git[p] = "unbranch" /\ branch /\ ~tree
        /\ branch' = FALSE
        /\ Git(p, "idle")
        /\ UNCHANGED tree
  /\ haunted' = (haunted \/ at[p] = "killed")
  /\ UNCHANGED <<lockVars, job, step, result, last>>

GitFails(p) ==
  /\ Running(p)
  /\ Git(p, "failed")
  /\ UNCHANGED <<lockVars, job, step, result, tree, branch, last, haunted>>

-----------------------------------------------------------------------------

JobStep(p) ==
  \/ Create(p) \/ Created(p)
  \/ CleanUp(p) \/ TreeRemoved(p) \/ BranchDeleted(p)
  \/ step[p] = "over" /\ Release(p) /\ UNCHANGED jobVars

GitStep(p) == GitWorks(p) \/ GitFails(p)

Clock(p) == DeadlinePasses(p) /\ UNCHANGED jobVars

TreesNext ==
  \E p \in Proc :
    \/ (Acquire(p) \/ Locking(p) \/ Kill(p) \/ ReuseId(p)) /\ UNCHANGED jobVars
    \/ JobStep(p) \/ GitStep(p) \/ Clock(p)

(* The scheduler runs every process, of which only one of `oca` and its git   *)
(* has something to do at a time; git does not hang, and time passes.        *)
Work(p) ==
  \/ (Acquire(p) \/ Locking(p)) /\ UNCHANGED jobVars
  \/ JobStep(p) \/ GitStep(p)

TreesFairness == \A p \in Proc : WF_treeVars(Work(p)) /\ WF_treeVars(Clock(p))

TreesSpec == TreesInit /\ [][TreesNext]_treeVars /\ TreesFairness

-----------------------------------------------------------------------------

(* What a command reported stays true until another one begins: after a      *)
(* successful `oca -w` both worktree and branch are there, after a cleanup    *)
(* neither, although commands on the ref race and die.  The exception is a    *)
(* git that outlives its `oca`: the lock of a dead process is reclaimed       *)
(* without it.                                                                *)
LastJobHolds ==
  ~haunted =>
    /\ last = "create" => tree /\ branch
    /\ last = "cleanup" => ~tree /\ ~branch

(* What the worktree and the branch are while a job is under way, as long as  *)
(* no git outlived its `oca`: what LastJobHolds rests on.                     *)
UnderWay(p) ==
  /\ step[p] = "adding" =>
       /\ git[p] \in {"branch", "tree", "idle", "failed"}
       /\ git[p] = "branch" => ~tree /\ ~branch
       /\ git[p] = "tree" => ~tree /\ branch
       /\ git[p] = "idle" => tree /\ branch
  /\ step[p] = "removing" =>
       /\ git[p] \in {"untree", "idle", "failed"}
       /\ git[p] = "idle" => ~tree
  /\ step[p] = "deleting" =>
       /\ git[p] \in {"unbranch", "idle", "failed"}
       /\ ~tree
       /\ git[p] = "idle" => ~branch

JobInv ==
  /\ \A p \in Proc :
       /\ at[p] \notin {"held", "killed"} => ~Running(p)
       /\ at[p] \notin {"held", "unlink", "rmdir", "released", "killed"} =>
            step[p] = "begin" /\ git[p] = "idle"
       /\ step[p] \in {"begin", "over"} => ~Running(p)
       /\ step[p] \in {"removing", "deleting"} => job[p] = "cleanup"
       /\ step[p] = "adding" => job[p] = "create"
       /\ ~haunted /\ at[p] = "held" => UnderWay(p)
       /\ ~haunted /\ at[p] = "held" /\ step[p] \in {"adding", "removing", "deleting"} =>
            last = "none"
  /\ LastJobHolds

(* The types of this module, and the invariants of the lock and of its jobs. *)
TreesInv == TreesTypeOK /\ LockInv /\ JobInv

(* Every attempt ends, be it at the deadline: also when a process died        *)
(* between the directory and its owner record, and left a lock that nobody    *)
(* may reclaim.                                                               *)
EveryAttemptEnds ==
  []<>(\A p \in Proc : at[p] \in {"released", "timeout", "killed"})
=============================================================================

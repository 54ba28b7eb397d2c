--------------------------- MODULE WorktreesProofs ---------------------------
(***************************************************************************)
(* The repository lock excludes, for any number of processes, wherever they *)
(* are killed and whoever gets their ids; the jobs under it keep to its      *)
(* protocol, and what a job reported holds until the next one begins.        *)
(***************************************************************************)
EXTENDS Worktrees, TLAPS

(* The lock alone.                                                           *)

LEMMA InitLockInv == LockInit => LockInv
  BY ProcAssumption DEF LockInit, LockInv, TypeOK, MutualExclusion, NoLiveLockRemoved,
     Knowledge, Owning, Reclaiming, Places

LEMMA NextLockInv == LockInv /\ [LockNext]_lockVars => LockInv'
<1> SUFFICES ASSUME LockInv, [LockNext]_lockVars PROVE LockInv'
  OBVIOUS
<1> USE ProcAssumption DEF LockInv, TypeOK, MutualExclusion, NoLiveLockRemoved,
     Knowledge, Owning, Reclaiming, Places, Goto
<1>1. CASE UNCHANGED lockVars
  BY <1>1 DEF lockVars
<1>2. ASSUME NEW p \in Proc, Acquire(p) PROVE LockInv'
  BY <1>2 DEF Acquire
  \* The directory is new, so nobody owned or reclaimed it.
<1>3. ASSUME NEW p \in Proc, CreateDir(p) PROVE LockInv'
  <2>1. CASE locked
    BY <1>3, <2>1 DEF CreateDir
  <2>2. CASE ~locked
    <3>1. \A q \in Proc : at[q] \notin Owning \cup Reclaiming
      BY <2>2
    <3>2. owner = Nobody
      BY <2>2
    <3>3. QED
      BY <1>3, <2>2, <3>1, <3>2 DEF CreateDir
  <2>3. QED
    BY <2>1, <2>2
<1>4. ASSUME NEW p \in Proc, OpenOwner(p) PROVE LockInv'
  BY <1>4 DEF OpenOwner
<1>5. ASSUME NEW p \in Proc, WriteOwner(p) PROVE LockInv'
  BY <1>5 DEF WriteOwner
<1>6. ASSUME NEW p \in Proc, WriteOwnerFails(p) PROVE LockInv'
  BY <1>6 DEF WriteOwnerFails
<1>7. ASSUME NEW p \in Proc, Look(p) PROVE LockInv'
  BY <1>7 DEF Look
<1>8. ASSUME NEW p \in Proc, AcquireMutex(p) PROVE LockInv'
  BY <1>8 DEF AcquireMutex
<1>9. ASSUME NEW p \in Proc, MutexTimesOut(p) PROVE LockInv'
  BY <1>9 DEF MutexTimesOut
  \* A known dead owner is not one of those who own the lock.
<1>10. ASSUME NEW p \in Proc, Recheck(p) PROVE LockInv'
  <2>1. CASE KnownDead
    <3>1. owner \in Proc /\ at[owner] = "killed"
      BY <2>1 DEF KnownDead
    <3>2. \A q \in Proc : at[q] \notin Owning
      BY <3>1
    <3>3. locked
      BY <3>1
    <3>4. QED
      BY <1>10, <2>1, <3>2, <3>3 DEF Recheck
  <2>2. CASE ~KnownDead
    BY <1>10, <2>2 DEF Recheck
  <2>3. QED
    BY <2>1, <2>2
<1>11. ASSUME NEW p \in Proc, Clear(p) PROVE LockInv'
  BY <1>11 DEF Clear
  \* The mutex keeps other reclaimers out, the reclaimer all owners.
<1>12. ASSUME NEW p \in Proc, Remove(p) PROVE LockInv'
  <2>1. \A q \in Proc : q # p => at[q] \notin Owning \cup Reclaiming
    BY <1>12 DEF Remove
  <2>2. QED
    BY <1>12, <2>1 DEF Remove
<1>13. ASSUME NEW p \in Proc, Release(p) PROVE LockInv'
  BY <1>13 DEF Release
<1>14. ASSUME NEW p \in Proc, Unlink(p) PROVE LockInv'
  BY <1>14 DEF Unlink
<1>15. ASSUME NEW p \in Proc, Rmdir(p) PROVE LockInv'
  <2>1. \A q \in Proc : q # p => at[q] \notin Owning \cup Reclaiming
    BY <1>15 DEF Rmdir
  <2>2. QED
    BY <1>15, <2>1 DEF Rmdir
<1>16. ASSUME NEW p \in Proc, DeadlinePasses(p) PROVE LockInv'
  BY <1>16 DEF DeadlinePasses
<1>17. ASSUME NEW p \in Proc, Kill(p) PROVE LockInv'
  BY <1>17 DEF Kill
<1>18. ASSUME NEW p \in Proc, ReuseId(p) PROVE LockInv'
  BY <1>18 DEF ReuseId
<1>19. QED
  BY <1>1, <1>2, <1>3, <1>4, <1>5, <1>6, <1>7, <1>8, <1>9, <1>10, <1>11, <1>12, <1>13,
     <1>14, <1>15, <1>16, <1>17, <1>18 DEF LockNext, Locking

(* The lock excludes and is not taken from the living (RepositoryLock::       *)
(* acquire, reclaim_lock, and its Drop).                                      *)
THEOREM LockExcludes == LockSpec => [](MutualExclusion /\ NoLiveLockRemoved)
<1>1. LockInv => MutualExclusion /\ NoLiveLockRemoved
  BY DEF LockInv
<1>2. QED
  BY <1>1, InitLockInv, NextLockInv, PTL DEF LockSpec

-----------------------------------------------------------------------------
(* The jobs under it.                                                        *)

(* Every step of a job is a step of the lock, or none.                      *)
LEMMA TreesStepIsLockStep == [TreesNext]_treeVars => [LockNext]_lockVars
  BY DEF TreesNext, treeVars, LockNext, JobStep, GitStep, Clock, Create, Created, CleanUp,
     TreeRemoved, BranchDeleted, GitWorks, GitFails

(* The worktree manager implements the lock protocol.                       *)
THEOREM TreesImplementLock == TreesSpec => LockSpec
<1>1. TreesInit => LockInit
  BY DEF TreesInit
<1>2. QED
  BY <1>1, TreesStepIsLockStep, PTL DEF TreesSpec, LockSpec

(* Creations and cleanups, with their gits, never overlap.                   *)
THEOREM JobsExclude == TreesSpec => [](MutualExclusion /\ NoLiveLockRemoved)
  BY TreesImplementLock, LockExcludes, PTL

-----------------------------------------------------------------------------

LEMMA InitJobs == TreesInit => TreesTypeOK /\ JobInv
  BY DEF TreesInit, LockInit, TreesTypeOK, JobInv, GitSteps, Running, UnderWay, LastJobHolds

(* The lock's own steps leave the jobs alone, and nobody comes to hold the   *)
(* lock but a process whose job has not begun.                               *)
LEMMA LockStepKeepsJobs ==
  ASSUME TreesTypeOK, LockInv, JobInv, UNCHANGED jobVars,
         NEW p \in Proc, Acquire(p) \/ Locking(p) \/ Kill(p) \/ ReuseId(p) \/ DeadlinePasses(p)
  PROVE  TreesTypeOK' /\ JobInv'
<1> USE DEF jobVars, TreesTypeOK, JobInv, Running, UnderWay, LastJobHolds, GitSteps,
     LockInv, TypeOK, Goto
<1>1. CASE Acquire(p)
  BY <1>1 DEF Acquire
<1>2. CASE Locking(p)
  BY <1>2 DEF Locking, CreateDir, OpenOwner, WriteOwner, WriteOwnerFails, Look,
     AcquireMutex, MutexTimesOut, Recheck, Clear, Remove, Unlink, Rmdir
<1>3. CASE Kill(p) \/ ReuseId(p) \/ DeadlinePasses(p)
  BY <1>3 DEF Kill, ReuseId, DeadlinePasses, Waiting
<1>4. QED
  BY <1>1, <1>2, <1>3

(* While one process works on the worktree, the others are not half-way.     *)
LEMMA JobStepKeepsJobs ==
  ASSUME TreesTypeOK, LockInv, JobInv, NEW p \in Proc, JobStep(p)
  PROVE  TreesTypeOK' /\ JobInv'
<1> USE DEF TreesTypeOK, JobInv, Running, UnderWay, LastJobHolds, GitSteps,
     Doing, End, Git
<1>1. CASE step[p] = "over" /\ Release(p) /\ UNCHANGED jobVars
  <2>1. at' = [at EXCEPT ![p] = "unlink"] /\ at[p] = "held" /\ at \in [Proc -> Places]
    BY <1>1 DEF Release, Goto, LockInv, TypeOK
  <2>2. QED
    BY <1>1, <2>1 DEF jobVars
<1>2. ASSUME at[p] = "held", at' = at
      PROVE  \A q \in Proc : q # p => at'[q] # "held"
  BY <1>2 DEF LockInv, MutualExclusion, Owning
<1>3. CASE Create(p)
  BY <1>2, <1>3 DEF Create, lockVars
<1>4. CASE Created(p)
  BY <1>2, <1>4 DEF Created, lockVars
<1>5. CASE CleanUp(p)
  BY <1>2, <1>5 DEF CleanUp, lockVars
<1>6. CASE TreeRemoved(p)
  BY <1>2, <1>6 DEF TreeRemoved, lockVars
<1>7. CASE BranchDeleted(p)
  BY <1>2, <1>7 DEF BranchDeleted, lockVars
<1>8. QED
  BY <1>1, <1>3, <1>4, <1>5, <1>6, <1>7 DEF JobStep

(* A git of a living `oca` works under the lock; one of a dead `oca` is      *)
(* excused by haunted.                                                       *)
LEMMA GitStepKeepsJobs ==
  ASSUME TreesTypeOK, LockInv, JobInv, NEW p \in Proc, GitStep(p)
  PROVE  TreesTypeOK' /\ JobInv'
<1> USE DEF TreesTypeOK, JobInv, Running, UnderWay, LastJobHolds, GitSteps, Git
<1>1. at' = at /\ Running(p)
  BY DEF GitStep, GitWorks, GitFails, lockVars
<1>2. at[p] \in {"held", "killed"}
  BY <1>1
<1>3. at[p] = "held" => \A q \in Proc : q # p => at[q] # "held"
  BY DEF LockInv, MutualExclusion, Owning
<1>4. CASE GitFails(p)
  BY <1>1, <1>2, <1>4 DEF GitFails
<1>5. CASE GitWorks(p)
  <2>1. CASE at[p] = "killed"
    BY <1>1, <1>5, <2>1, ZenonT(30) DEF GitWorks
  <2>2. CASE at[p] = "held"
    <3>1. haunted' = haunted /\ UNCHANGED <<job, step, result, last>>
      BY <1>5, <2>2 DEF GitWorks
    <3>2. step[p] \in {"adding", "removing", "deleting"}
      BY <1>1
    <3>3. ~haunted => last = "none" /\ UnderWay(p)
      BY <2>2, <3>2
    <3>4. /\ git' = [git EXCEPT ![p] = git'[p]]
          /\ git'[p] \in {"tree", "idle"}
          /\ tree' \in BOOLEAN /\ branch' \in BOOLEAN
      BY <1>5 DEF GitWorks
    <3>5. ASSUME ~haunted PROVE UnderWay(p)'
      <4>1. CASE git[p] = "branch"
        BY <1>5, <3>1, <3>2, <3>3, <3>4, <3>5, <4>1 DEF GitWorks
      <4>2. CASE git[p] = "tree"
        BY <1>5, <3>1, <3>2, <3>3, <3>4, <3>5, <4>2 DEF GitWorks
      <4>3. CASE git[p] = "untree"
        BY <1>5, <3>1, <3>2, <3>3, <3>4, <3>5, <4>3 DEF GitWorks
      <4>4. CASE git[p] = "unbranch"
        BY <1>5, <3>1, <3>2, <3>3, <3>4, <3>5, <4>4 DEF GitWorks
      <4>5. QED
        BY <1>1, <4>1, <4>2, <4>3, <4>4
    <3>6. TreesTypeOK'
      BY <3>1, <3>4
    <3>7. QED
      BY <1>1, <1>3, <2>2, <3>1, <3>2, <3>3, <3>4, <3>5, <3>6
  <2>3. QED
    BY <1>2, <2>1, <2>2
<1>6. QED
  BY <1>4, <1>5 DEF GitStep

LEMMA NextJobs ==
  TreesTypeOK /\ JobInv /\ LockInv /\ [TreesNext]_treeVars => TreesTypeOK' /\ JobInv'
<1> SUFFICES ASSUME TreesTypeOK, JobInv, LockInv, [TreesNext]_treeVars
             PROVE  TreesTypeOK' /\ JobInv'
  OBVIOUS
<1>1. CASE UNCHANGED treeVars
  BY <1>1 DEF treeVars, lockVars, jobVars, TreesTypeOK, JobInv, Running, UnderWay, LastJobHolds
<1>2. CASE TreesNext
  BY <1>2, LockStepKeepsJobs, JobStepKeepsJobs, GitStepKeepsJobs DEF TreesNext, Clock
<1>3. QED
  BY <1>1, <1>2

(* The lock and the jobs together: whoever dies where, a job is only under    *)
(* way in the lock's holder, with the worktree and the branch as far as its   *)
(* git has come.                                                             *)
THEOREM TreesInvariant == TreesSpec => []TreesInv
<1>1. TreesSpec => []LockInv
  BY TreesImplementLock, InitLockInv, NextLockInv, PTL DEF LockSpec
<1>2. TreesSpec => [](TreesTypeOK /\ JobInv)
  BY <1>1, InitJobs, NextJobs, PTL DEF TreesSpec
<1>3. TreesInv <=> LockInv /\ (TreesTypeOK /\ JobInv)
  BY DEF TreesInv
<1>4. QED
  BY <1>1, <1>2, <1>3, PTL

(* What a command reported of worktree and branch stays true until the next  *)
(* one begins, unless a git outlived its `oca` (WorktreeManager::create and   *)
(* cleanup_orphaned_worktree under the lock).                                *)
THEOREM ReportedJobHolds == TreesSpec => []LastJobHolds
<1>1. TreesInv => LastJobHolds
  BY DEF TreesInv, JobInv
<1>2. QED
  BY <1>1, TreesInvariant, PTL
=============================================================================

------------------------------- MODULE RepoLock -------------------------------
(***************************************************************************)
(* The repository lock of oca-git: the directory .oca/worktree.lock with the *)
(* file `owner` in it, and the flock of .oca/worktree.reclaim.lock that      *)
(* serializes the removal of a dead owner's lock.  Creating a directory is   *)
(* atomic; writing the owner and removing both are separate steps, and a     *)
(* process may be killed between any two of them.                            *)
(***************************************************************************)
EXTENDS Naturals

CONSTANT Proc    \* processes, each with a process id of its own

Nobody == "nobody"     \* no owner file, or a free mutex
Partial == "partial"   \* an owner file without its number

ASSUME ProcAssumption == {Nobody, Partial} \cap Proc = {}

VARIABLES
  locked,   \* .oca/worktree.lock exists
  owner,    \* what worktree.lock/owner says
  mutex,    \* who has the flock of worktree.reclaim.lock
  dead,     \* process ids that no process has
  late,     \* processes whose deadline has passed
  at        \* where each process is in acquire, reclaim_lock and drop

lockVars == <<locked, owner, mutex, dead, late, at>>

Places ==
  {"out", "create", "open", "write", "held", "unlink", "rmdir", "released",
   "look", "queue", "recheck", "clear", "remove", "timeout", "killed"}

(* Waiting for the lock, at a point where acquire looks at the clock.       *)
Waiting == {"create", "look", "queue", "recheck"}

TypeOK ==
  /\ locked \in BOOLEAN
  /\ owner \in Proc \cup {Nobody, Partial}
  /\ mutex \in Proc \cup {Nobody}
  /\ dead \subseteq Proc
  /\ late \subseteq Proc
  /\ at \in [Proc -> Places]

(* Earlier commands may have died and left the lock, signed or not.         *)
LockInit ==
  /\ dead \in SUBSET Proc
  /\ at = [p \in Proc |-> IF p \in dead THEN "killed" ELSE "out"]
  /\ \/ locked = FALSE /\ owner = Nobody
     \/ locked = TRUE /\ owner \in dead \cup {Nobody, Partial}
  /\ mutex = Nobody
  /\ late = {}

Goto(p, from, to) == at[p] = from /\ at' = [at EXCEPT ![p] = to]

-----------------------------------------------------------------------------
(* RepositoryLock::acquire                                                  *)

Acquire(p) ==
  /\ Goto(p, "out", "create")
  /\ UNCHANGED <<locked, owner, mutex, dead, late>>

CreateDir(p) ==
  /\ Goto(p, "create", IF locked THEN "look" ELSE "open")
  /\ locked' = TRUE
  /\ UNCHANGED <<owner, mutex, dead, late>>

(* fs::write creates the owner file, then fills it.                         *)
OpenOwner(p) ==
  /\ Goto(p, "open", "write")
  /\ owner' = Partial
  /\ UNCHANGED <<locked, mutex, dead, late>>

WriteOwner(p) ==
  /\ Goto(p, "write", "held")
  /\ owner' = p
  /\ UNCHANGED <<locked, mutex, dead, late>>

(* Without its record, the lock is given up again and acquire fails.         *)
WriteOwnerFails(p) ==
  /\ at[p] \in {"open", "write"}
  /\ at' = [at EXCEPT ![p] = "unlink"]
  /\ UNCHANGED <<locked, owner, mutex, dead, late>>

(* Mutant of KnownDead: a lock whose creator has not got to sign it counts. *)
KnownDeadUnsigned == owner \notin Proc \/ owner \in dead

(* Only a complete record of an id that no process has is known dead.       *)
KnownDead == owner \in dead

(* Mutant of Look: the deadline is not consulted.                            *)
LookForever(p) ==
  /\ Goto(p, "look", IF KnownDead THEN "queue" ELSE "create")
  /\ UNCHANGED <<locked, owner, mutex, dead, late>>

(* With a live owner, or none that is known, the process sleeps and tries   *)
(* again, until the deadline.                                               *)
Look(p) ==
  /\ Goto(p, "look", IF KnownDead THEN "queue"
                     ELSE IF p \in late THEN "timeout" ELSE "create")
  /\ UNCHANGED <<locked, owner, mutex, dead, late>>

-----------------------------------------------------------------------------
(* reclaim_lock                                                             *)

AcquireMutex(p) ==
  /\ Goto(p, "queue", "recheck")
  /\ mutex = Nobody
  /\ mutex' = p
  /\ UNCHANGED <<locked, owner, dead, late>>

MutexTimesOut(p) ==
  /\ Goto(p, "queue", "timeout")
  /\ mutex # Nobody
  /\ p \in late
  /\ UNCHANGED <<locked, owner, mutex, dead, late>>

(* Mutant of Recheck: what was seen before the mutex still holds.           *)
RecheckNothing(p) ==
  /\ Goto(p, "recheck", "clear")
  /\ UNCHANGED <<locked, owner, mutex, dead, late>>

(* The owner is read again under the mutex.                                 *)
Recheck(p) ==
  \/ /\ KnownDead
     /\ Goto(p, "recheck", "clear")
     /\ UNCHANGED <<locked, owner, mutex, dead, late>>
  \/ /\ ~KnownDead
     /\ Goto(p, "recheck", IF p \in late THEN "timeout" ELSE "create")
     /\ mutex' = Nobody
     /\ UNCHANGED <<locked, owner, dead, late>>

(* remove_dir_all removes the owner file first, then the directory.         *)
Clear(p) ==
  /\ Goto(p, "clear", "remove")
  /\ owner' = Nobody
  /\ UNCHANGED <<locked, mutex, dead, late>>

Remove(p) ==
  /\ Goto(p, "remove", "create")
  /\ locked' = FALSE
  /\ mutex' = Nobody
  /\ UNCHANGED <<owner, dead, late>>

-----------------------------------------------------------------------------
(* Drop of RepositoryLock                                                   *)

Release(p) ==
  /\ Goto(p, "held", "unlink")
  /\ UNCHANGED <<locked, owner, mutex, dead, late>>

Unlink(p) ==
  /\ Goto(p, "unlink", "rmdir")
  /\ owner' = Nobody
  /\ UNCHANGED <<locked, mutex, dead, late>>

Rmdir(p) ==
  /\ Goto(p, "rmdir", "released")
  /\ locked' = FALSE
  /\ UNCHANGED <<owner, mutex, dead, late>>

-----------------------------------------------------------------------------
(* The surroundings: time, death, and another process that gets a dead      *)
(* one's id, which makes the owner look alive.                              *)

DeadlinePasses(p) ==
  /\ at[p] \in Waiting
  /\ late' = late \cup {p}
  /\ UNCHANGED <<locked, owner, mutex, dead, at>>

Kill(p) ==
  /\ at[p] # "killed"
  /\ at' = [at EXCEPT ![p] = "killed"]
  /\ dead' = dead \cup {p}
  /\ mutex' = IF mutex = p THEN Nobody ELSE mutex
  /\ UNCHANGED <<locked, owner, late>>

ReuseId(p) ==
  /\ p \in dead
  /\ dead' = dead \ {p}
  /\ UNCHANGED <<locked, owner, mutex, late, at>>

-----------------------------------------------------------------------------

Locking(p) ==
  \/ CreateDir(p) \/ OpenOwner(p) \/ WriteOwner(p) \/ WriteOwnerFails(p) \/ Look(p)
  \/ AcquireMutex(p) \/ MutexTimesOut(p) \/ Recheck(p) \/ Clear(p) \/ Remove(p)
  \/ Unlink(p) \/ Rmdir(p)

LockNext ==
  \E p \in Proc :
    \/ Acquire(p) \/ Locking(p) \/ Release(p)
    \/ DeadlinePasses(p) \/ Kill(p) \/ ReuseId(p)

LockSpec == LockInit /\ [][LockNext]_lockVars

-----------------------------------------------------------------------------

Owning == {"open", "write", "held", "unlink", "rmdir"}
Reclaiming == {"clear", "remove"}

(* The repository is never in the hands of two processes, whoever is killed  *)
(* and whoever reclaims: `oca -w` and the cleanup after a crash run git on    *)
(* worktrees and branches one at a time.                                      *)
MutualExclusion ==
  \A p, q \in Proc : at[p] \in Owning /\ at[q] \in Owning => p = q

(* Nobody removes a lock that somebody has: a reclaimer at work means that    *)
(* the lock has no living owner.                                              *)
NoLiveLockRemoved ==
  \A p, q \in Proc : at[p] \in Reclaiming => at[q] \notin Owning

(* What a process knows of the lock at each place, which both rest on.      *)
Knowledge ==
  /\ ~locked => owner = Nobody
  /\ \A p \in Proc :
       /\ at[p] \in Owning \cup Reclaiming => locked
       /\ at[p] \in {"recheck"} \cup Reclaiming => mutex = p
       /\ at[p] \in {"open", "rmdir", "remove"} => owner = Nobody
       /\ at[p] = "write" => owner = Partial
       /\ at[p] = "held" => owner = p
       /\ at[p] = "unlink" => owner \in {p, Nobody, Partial}
       /\ p \in dead => at[p] = "killed"

(* The inductive invariant.                                                 *)
LockInv == TypeOK /\ MutualExclusion /\ NoLiveLockRemoved /\ Knowledge
=============================================================================

------------------------------ MODULE RefStore ------------------------------
(***************************************************************************)
(* crates/oca-state/src/refs.rs: the read-modify-write store behind        *)
(* ~/.oca/refs.json.  Every operation takes the advisory lock refs.lock,   *)
(* retries a directory sync an earlier process left pending, reads the     *)
(* records, and replaces the file: mark, write, sync, rename, then either  *)
(* acknowledge and sync the directory or sync it at once.  A process may   *)
(* die between any two steps, any of the fallible calls may fail, and the  *)
(* machine may lose power.                                                 *)
(*                                                                         *)
(* The non-empty lock file is the only memory of a pending sync, and the   *)
(* intent files are the only memory of an id that was handed out but has   *)
(* no record yet.                                                          *)
(***************************************************************************)
EXTENDS Naturals, FiniteSets

CONSTANTS Proc,    \* oca processes
          Id,      \* ref ids
          NoProc, NoId, NoRec,
          Torn     \* contents of a refs.json whose data never reached the disk

VARIABLES
  lock,     \* the process that holds the flock on refs.lock, or NoProc
  marker,   \* refs.lock has a non-zero length: a directory sync is pending
  file,     \* the records of refs.json as every reader sees them
  onDisk,   \* the contents a loss of power may leave in refs.json
  pc,       \* where each process is in its current operation
  buf,      \* the records a process is about to write
  synced,   \* whether the temporary file's contents were synced
  deferred, \* whether the sync of the directory waits for an acknowledgement
  target,   \* the id a process is about to be given, or NoId
  claim,    \* the id a process was given and still dispatches, or NoId
  intent,   \* the owner of intents/<id>.json, or NoProc
  copy,     \* an intent a process has read, as old as it may be by now
  released  \* claimed ids whose only protection somebody else removed

(* The store implements one map that changes by whole updates: `file` is   *)
(* the map, and what a loss of power may fall back to is the older of the  *)
(* contents on disk.                                                       *)
Older == IF onDisk = {file} THEN file ELSE CHOOSE c \in onDisk : c # file

Map == INSTANCE RefMap WITH refs <- file, stable <- Older

ASSUME NullAssumption == /\ NoProc \notin Proc
                         /\ NoId \notin Id
                         /\ NoRec \notin Map!RecordOf
                         /\ Torn \notin Map!RefMaps

storeVars == <<lock, marker, file, onDisk>>
localVars == <<buf, synced, deferred, target>>
idVars    == <<claim, intent, copy, released>>
vars      == <<storeVars, pc, localVars, idVars>>

Idle      == "idle"
Entry     == "entry"       \* holds the lock, has not looked at the marker
Reading   == "reading"     \* holds the lock and has read the records
Reserving == "reserving"   \* holds the lock inside reserve_intent
Claiming  == "claiming"    \* reserve_intent has picked its candidate
Changed   == "changed"     \* the records were changed in memory
Marked    == "marked"
Written   == "written"
Flushed   == "flushed"
Renamed   == "renamed"     \* the replacement is visible
Acked     == "acked"

Pcs == {Idle, Entry, Reading, Reserving, Claiming, Changed, Marked, Written,
        Flushed, Renamed, Acked}

(* What a process that works from an intent knows of the id's record.      *)
Unread  == "unread"
Absent  == "absent"
Present == "present"

Copies == [id: Id \cup {NoId}, owner: Proc \cup {NoProc},
           saw: {Unread, Absent, Present}]

NoCopy == [id |-> NoId, owner |-> NoProc, saw |-> Unread]

TypeOK ==
  /\ lock \in Proc \cup {NoProc}
  /\ marker \in BOOLEAN
  /\ file \in Map!RefMaps
  /\ onDisk \in SUBSET (Map!RefMaps \cup {Torn})
  /\ pc \in [Proc -> Pcs]
  /\ buf \in [Proc -> Map!RefMaps]
  /\ synced \in [Proc -> BOOLEAN]
  /\ deferred \in [Proc -> BOOLEAN]
  /\ target \in [Proc -> Id \cup {NoId}]
  /\ claim \in [Proc -> Id \cup {NoId}]
  /\ intent \in [Id -> Proc \cup {NoProc}]
  /\ copy \in [Proc -> Copies]
  /\ released \in SUBSET Id

NoRecords == [i \in Id |-> NoRec]

Init ==
  /\ lock = NoProc
  /\ marker = FALSE
  /\ file = NoRecords
  /\ onDisk = {file}
  /\ pc = [p \in Proc |-> Idle]
  /\ buf = [p \in Proc |-> NoRecords]
  /\ synced = [p \in Proc |-> FALSE]
  /\ deferred = [p \in Proc |-> FALSE]
  /\ target = [p \in Proc |-> NoId]
  /\ claim = [p \in Proc |-> NoId]
  /\ intent = [i \in Id |-> NoProc]
  /\ copy = [p \in Proc |-> NoCopy]
  /\ released = {}

Goto(p, here, there) == pc[p] = here /\ pc' = [pc EXCEPT ![p] = there]

(* Mutant of Used: ids that only an intent protects count as free.         *)
UsedByRecord(i) == file[i] # NoRec

Used(i) == file[i] # NoRec \/ intent[i] # NoProc
Claimed(i) == \E p \in Proc : claim[p] = i

(* A command works on at most one ref: one it was given, one whose intent  *)
(* it has read, or one whose dispatch it has just given up.                *)
Unengaged(p) == claim[p] = NoId /\ copy[p].id = NoId
Reconciling(p) == copy[p].id # NoId /\ copy[p].owner # NoProc
Abandoning(p) == copy[p].id # NoId /\ copy[p].owner = NoProc
WorksOn(p, i) == {claim[p], copy[p].id} \subseteq {NoId, i}

(* What an operation held in memory goes when it returns or dies. *)
Forget(p) ==
  /\ pc' = [pc EXCEPT ![p] = Idle]
  /\ buf' = [buf EXCEPT ![p] = NoRecords]
  /\ synced' = [synced EXCEPT ![p] = FALSE]
  /\ deferred' = [deferred EXCEPT ![p] = FALSE]
  /\ target' = [target EXCEPT ![p] = NoId]

Release(p) == lock' = NoProc /\ Forget(p)

(* A claim that was taken from a dispatch is remembered for as long as the *)
(* id is claimed at all.                                                   *)
Unclaim(p) ==
  /\ claim' = [claim EXCEPT ![p] = NoId]
  /\ released' = {i \in released : \E q \in Proc \ {p} : claim[q] = i}

(* A failing step ends the command, and with it what it read.              *)
DropCopy(p) == copy' = [copy EXCEPT ![p] = NoCopy]
Saw(p, what) == copy' = [copy EXCEPT ![p].saw = what]
LookUp(p) == IF copy[p].id = NoId THEN UNCHANGED copy
             ELSE Saw(p, IF file[copy[p].id] = NoRec THEN Absent ELSE Present)

-----------------------------------------------------------------------------
(* Entering the store. *)

LockRecords(p) ==
  /\ lock = NoProc
  /\ Goto(p, Idle, Entry)
  /\ lock' = p
  /\ UNCHANGED <<marker, file, onDisk, localVars, idVars>>

(* reserve_intent takes the lock without looking at the marker. *)
LockForIntent(p) ==
  /\ lock = NoProc
  /\ Unengaged(p)
  /\ Goto(p, Idle, Reserving)
  /\ lock' = p
  /\ UNCHANGED <<marker, file, onDisk, localVars, idVars>>

(* Mutant of ReadRecords: the marker is cleared without the sync.          *)
ReadWithoutSync(p) ==
  /\ Goto(p, Entry, Reading)
  /\ marker' = FALSE
  /\ LookUp(p)
  /\ UNCHANGED <<lock, file, onDisk, localVars, claim, intent, released>>

(* The entrant finishes the directory sync it finds pending before it      *)
(* reads the records.                                                      *)
ReadRecords(p) ==
  /\ Goto(p, Entry, Reading)
  /\ onDisk' = IF marker THEN {file} ELSE onDisk
  /\ marker' = FALSE
  /\ LookUp(p)
  /\ UNCHANGED <<lock, file, localVars, claim, intent, released>>

(* That retry may fail, or the marker may outlive the sync: the entrant    *)
(* gets a durability error and leaves the marker to the next one.          *)
RetryFails(p) ==
  /\ pc[p] = Entry
  /\ marker
  /\ onDisk' \in {onDisk, {file}}
  /\ Release(p)
  /\ DropCopy(p)
  /\ UNCHANGED <<marker, file, claim, intent, released>>

-----------------------------------------------------------------------------
(* The operations: each changes the records it has read, and the last      *)
(* argument of Change says whether it returns a PendingRefAllocation,      *)
(* whose directory sync waits for the caller's acknowledgement.            *)

Change(p, id, records, ack) ==
  /\ Goto(p, Reading, Changed)
  /\ target' = [target EXCEPT ![p] = id]
  /\ buf' = [buf EXCEPT ![p] = records]
  /\ deferred' = [deferred EXCEPT ![p] = ack]
  /\ UNCHANGED <<storeVars, synced, intent>>

Record(p, acked) == [owner |-> p, message |-> acked, tombstoned |-> FALSE]

Allocate(p) ==
  \E i \in Id :
    /\ Unengaged(p)
    /\ ~Used(i)
    /\ Change(p, i, [file EXCEPT ![i] = Record(p, TRUE)], TRUE)
    /\ UNCHANGED <<claim, copy, released>>

Reserve(p) ==
  \E i \in Id :
    /\ Unengaged(p)
    /\ ~Used(i)
    /\ Change(p, i, [file EXCEPT ![i] = Record(p, FALSE)], FALSE)
    /\ UNCHANGED <<claim, copy, released>>

AllocateReserved(p) ==
  /\ claim[p] # NoId
  /\ file[claim[p]] = NoRec
  /\ Change(p, NoId, [file EXCEPT ![claim[p]] = Record(p, TRUE)], TRUE)
  /\ UNCHANGED <<claim, copy, released>>

(* Recovery restores the record its copy of an intent stands for: under    *)
(* the lock it looks at the records, and not again at the intent, which    *)
(* may be gone by now, or another dispatch's.                              *)
InsertReserved(p) ==
  \E acked \in BOOLEAN :
    /\ Reconciling(p)
    /\ file[copy[p].id] = NoRec
    /\ Change(p, NoId,
              [file EXCEPT ![copy[p].id] = Record(copy[p].owner, acked)], FALSE)
    /\ Saw(p, Present)
    /\ UNCHANGED <<claim, released>>

Patch(p) ==
  \E i \in Id :
    /\ WorksOn(p, i)
    /\ file[i] # NoRec
    /\ Change(p, NoId, [file EXCEPT ![i].message = TRUE], FALSE)
    /\ UNCHANGED <<claim, copy, released>>

Tombstone(p) ==
  \E i \in Id :
    /\ WorksOn(p, i)
    /\ file[i] # NoRec
    /\ Change(p, NoId, [file EXCEPT ![i].tombstoned = TRUE], FALSE)
    /\ UNCHANGED <<claim, copy, released>>

(* Mutant of DiscardUnacknowledged: the message id is not looked at.       *)
DiscardAny(p) ==
  LET i == copy[p].id IN
    /\ Abandoning(p)
    /\ file[i] # NoRec
    /\ Change(p, NoId, [file EXCEPT ![i] = NoRec], FALSE)
    /\ UNCHANGED <<claim, copy, released>>

(* A dispatch that failed before its prompt removes the record of the id   *)
(* it was given, whoever has made it, unless a message is named there.     *)
DiscardUnacknowledged(p) ==
  LET i == copy[p].id IN
    /\ Abandoning(p)
    /\ file[i] # NoRec
    /\ ~file[i].message
    /\ Change(p, NoId, [file EXCEPT ![i] = NoRec], FALSE)
    /\ UNCHANGED <<claim, copy, released>>

IsTombstone(i) == file[i] # NoRec /\ file[i].tombstoned

PruneTombstones(p) ==
  /\ Unengaged(p)
  /\ \E i \in Id : IsTombstone(i)
  /\ Change(p, NoId, [i \in Id |-> IF IsTombstone(i) THEN NoRec ELSE file[i]],
            FALSE)
  /\ UNCHANGED <<claim, copy, released>>

(* `list`, `resolve`, and every operation above whose precondition fails.  *)
ReadOnly(p) ==
  /\ pc[p] = Reading
  /\ Release(p)
  /\ UNCHANGED <<marker, file, onDisk, idVars>>

TransferDirectoryDurability(p) ==
  /\ pc[p] = Reading
  /\ copy[p].id = NoId
  /\ marker' = TRUE
  /\ Release(p)
  /\ UNCHANGED <<file, onDisk, idVars>>

-----------------------------------------------------------------------------
(* Replacing refs.json. *)

(* Mutant of MarkPending: the file is replaced without a marker.           *)
MarkNothing(p) ==
  /\ Goto(p, Changed, Marked)
  /\ UNCHANGED <<storeVars, localVars, idVars>>

MarkPending(p) ==
  /\ Goto(p, Changed, Marked)
  /\ marker' = TRUE
  /\ UNCHANGED <<lock, file, onDisk, localVars, idVars>>

WriteTemporary(p) ==
  /\ Goto(p, Marked, Written)
  /\ synced' = [synced EXCEPT ![p] = FALSE]
  /\ UNCHANGED <<storeVars, buf, deferred, target, idVars>>

(* Mutant of SyncTemporary: the file is renamed without a sync.            *)
SkipSync(p) ==
  /\ Goto(p, Written, Flushed)
  /\ UNCHANGED <<storeVars, localVars, idVars>>

SyncTemporary(p) ==
  /\ Goto(p, Written, Flushed)
  /\ synced' = [synced EXCEPT ![p] = TRUE]
  /\ UNCHANGED <<storeVars, buf, deferred, target, idVars>>

(* A rename is visible at once; until the directory is synced a loss of    *)
(* power may undo it, and may expose an unsynced file's missing data.      *)
Rename(p) ==
  /\ Goto(p, Flushed, Renamed)
  /\ file' = buf[p]
  /\ onDisk' = onDisk \cup {buf[p]} \cup (IF synced[p] THEN {} ELSE {Torn})
  /\ claim' = IF target[p] = NoId THEN claim
              ELSE [claim EXCEPT ![p] = target[p]]
  /\ released' = released \cup
       {i \in Id : file[i] # NoRec /\ buf[p][i] = NoRec /\ Claimed(i)}
  /\ UNCHANGED <<lock, marker, localVars, intent, copy>>

(* Setting the marker and clearing it after a failure are fallible too.    *)
WriteFails(p) ==
  /\ pc[p] \in {Changed, Marked, Written, Flushed}
  /\ marker' \in BOOLEAN
  /\ Release(p)
  /\ DropCopy(p)
  /\ UNCHANGED <<file, onDisk, claim, intent, released>>

-----------------------------------------------------------------------------
(* After the rename. *)

Acknowledge(p) ==
  /\ deferred[p]
  /\ Goto(p, Renamed, Acked)
  /\ UNCHANGED <<storeVars, localVars, idVars>>

ReadyToSync(p) == pc[p] = IF deferred[p] THEN Acked ELSE Renamed

(* The marker may survive a sync that succeeded.                           *)
SyncDirectory(p) ==
  /\ ReadyToSync(p)
  /\ onDisk' = {file}
  /\ marker' \in BOOLEAN
  /\ Release(p)
  /\ UNCHANGED <<file, idVars>>

(* The sync fails, or the handle is dropped without it: after a failed     *)
(* acknowledgement, for an uncertain prompt, and always in background.     *)
LeavePending(p) ==
  /\ pc[p] \in {Renamed, Acked}
  /\ Release(p)
  /\ DropCopy(p)
  /\ UNCHANGED <<marker, file, onDisk, claim, intent, released>>

-----------------------------------------------------------------------------
(* Reserving an id with an intent file, and the life of that file. *)

PickCandidate(p) ==
  \E i \in Id :
    /\ ~Used(i)
    /\ Goto(p, Reserving, Claiming)
    /\ target' = [target EXCEPT ![p] = i]
    /\ UNCHANGED <<storeVars, buf, synced, deferred, idVars>>

(* Mutant of ReserveIntent: the id is returned before its intent exists.   *)
ReserveUnwritten(p) ==
  /\ pc[p] = Claiming
  /\ claim' = [claim EXCEPT ![p] = target[p]]
  /\ Release(p)
  /\ UNCHANGED <<marker, file, onDisk, intent, copy, released>>

ReserveIntent(p) ==
  /\ pc[p] = Claiming
  /\ intent' = [intent EXCEPT ![target[p]] = p]
  /\ claim' = [claim EXCEPT ![p] = target[p]]
  /\ Release(p)
  /\ UNCHANGED <<marker, file, onDisk, copy, released>>

ReserveIntentFails(p) ==
  /\ pc[p] \in {Reserving, Claiming}
  /\ Release(p)
  /\ UNCHANGED <<marker, file, onDisk, idVars>>

(* A dispatch rewrites its intent at every phase, without refs.lock. *)
PersistIntent(p) ==
  /\ pc[p] = Idle
  /\ claim[p] # NoId
  /\ intent' = [intent EXCEPT ![claim[p]] = p]
  /\ UNCHANGED <<storeVars, pc, localVars, claim, copy, released>>

(* The owner gives up after a failure before the prompt: it removes the    *)
(* intent, and discards the record in an operation of its own.             *)
AbandonIntent(p) ==
  /\ pc[p] = Idle
  /\ claim[p] # NoId
  /\ intent' = [intent EXCEPT ![claim[p]] = NoProc]
  /\ Unclaim(p)
  /\ copy' = [copy EXCEPT ![p] = [id |-> claim[p], owner |-> NoProc, saw |-> Unread]]
  /\ UNCHANGED <<storeVars, pc, localVars>>

EndDispatch(p) ==
  /\ pc[p] = Idle
  /\ claim[p] # NoId
  /\ Unclaim(p)
  /\ UNCHANGED <<storeVars, pc, localVars, intent, copy>>

-----------------------------------------------------------------------------
(* Reconciling and finalizing: both work from an intent they have read,    *)
(* without refs.lock, and nothing keeps the file as it was.  A list that   *)
(* reads every intent before it works through them does no more than       *)
(* several of these processes may.  An intent that a message or a          *)
(* publication makes for a ref that has a record restores nothing, and is  *)
(* left to Dispatch and to Publication.                                    *)

ReadIntent(p) ==
  \E i \in Id :
    /\ pc[p] = Idle
    /\ Unengaged(p)
    /\ intent[i] # NoProc
    /\ copy' = [copy EXCEPT ![p] = [id |-> i, owner |-> intent[i], saw |-> Unread]]
    /\ UNCHANGED <<storeVars, pc, localVars, claim, intent, released>>

(* It is written back only by a command that has seen the ref's record,    *)
(* and creates the file again when another has removed it meanwhile.       *)
PersistCopy(p) ==
  /\ pc[p] = Idle
  /\ Reconciling(p)
  /\ copy[p].saw = Present
  /\ intent' = [intent EXCEPT ![copy[p].id] = copy[p].owner]
  /\ UNCHANGED <<storeVars, pc, localVars, claim, copy, released>>

(* The intent is removed after a look at the records, which were patched,  *)
(* settled, buried or found without the ref.  Whose intent it is by now,   *)
(* and whether a dispatch lives by it, nobody looks.                       *)
RemoveIntent(p) ==
  /\ pc[p] = Idle
  /\ Reconciling(p)
  /\ copy[p].saw # Unread
  /\ intent' = [intent EXCEPT ![copy[p].id] = NoProc]
  /\ released' = released \cup
       {i \in Id : i = copy[p].id /\ file[i] = NoRec /\ Claimed(i)}
  /\ DropCopy(p)
  /\ UNCHANGED <<storeVars, pc, localVars, claim>>

(* The command ends and leaves the intent to the next one.                 *)
KeepIntent(p) ==
  /\ pc[p] = Idle
  /\ copy[p].id # NoId
  /\ DropCopy(p)
  /\ UNCHANGED <<storeVars, pc, localVars, claim, intent, released>>

-----------------------------------------------------------------------------
(* Death of a process, and of the machine. *)

Crash(p) ==
  /\ lock' = IF lock = p THEN NoProc ELSE lock
  /\ Forget(p)
  /\ Unclaim(p)
  /\ DropCopy(p)
  /\ UNCHANGED <<marker, file, onDisk, intent>>

(* The marker and the intents written before an acknowledgement were never *)
(* synced, so each may or may not survive.                                 *)
PowerLoss ==
  /\ file' \in onDisk
  /\ onDisk' = {file'}
  /\ marker' \in BOOLEAN
  /\ lock' = NoProc
  /\ pc' = [p \in Proc |-> Idle]
  /\ buf' = [p \in Proc |-> NoRecords]
  /\ synced' = [p \in Proc |-> FALSE]
  /\ deferred' = [p \in Proc |-> FALSE]
  /\ target' = [p \in Proc |-> NoId]
  /\ claim' = [p \in Proc |-> NoId]
  /\ copy' = [p \in Proc |-> NoCopy]
  /\ \E lost \in SUBSET Id :
       intent' = [i \in Id |-> IF i \in lost THEN NoProc ELSE intent[i]]
  /\ released' = {}

Operation(p) ==
  \/ Allocate(p) \/ Reserve(p) \/ AllocateReserved(p) \/ InsertReserved(p)
  \/ Patch(p) \/ Tombstone(p) \/ DiscardUnacknowledged(p) \/ PruneTombstones(p)

Replace(p) ==
  \/ MarkPending(p) \/ WriteTemporary(p) \/ SyncTemporary(p) \/ Rename(p)
  \/ WriteFails(p) \/ Acknowledge(p) \/ SyncDirectory(p) \/ LeavePending(p)

IntentStep(p) ==
  \/ PickCandidate(p) \/ ReserveIntent(p) \/ ReserveIntentFails(p)
  \/ PersistIntent(p) \/ AbandonIntent(p) \/ EndDispatch(p)

CopyStep(p) ==
  \/ ReadIntent(p) \/ PersistCopy(p) \/ RemoveIntent(p) \/ KeepIntent(p)

Next ==
  \/ \E p \in Proc :
       \/ LockRecords(p) \/ LockForIntent(p) \/ ReadRecords(p) \/ RetryFails(p)
       \/ Operation(p) \/ ReadOnly(p) \/ TransferDirectoryDurability(p)
       \/ Replace(p) \/ IntentStep(p) \/ CopyStep(p) \/ Crash(p)
  \/ PowerLoss

Spec == Init /\ [][Next]_vars

-----------------------------------------------------------------------------
(* Properties. *)

(* The file is never torn: whatever a loss of power leaves behind is a     *)
(* complete list of records (the ADR's "Decision").                   *)
NeverTorn == Torn \notin onDisk

(* A replacement that power loss could still undo is recorded in refs.lock *)
(* for the next entrant, whoever died in between.                          *)
PendingIsMarked == onDisk # {file} => marker

(* At most one replacement at a time may still be undone.                  *)
OneOutstanding == Cardinality(onDisk) <= 2

(* Two live dispatches never work under the same id, unless another        *)
(* command, working from an older copy of the id's intent or given that id *)
(* before, has removed the intent or the record that protected it.         *)
DistinctClaims ==
  \A p, q \in Proc :
    p # q /\ claim[p] = claim[q] /\ claim[p] # NoId => claim[p] \in released

(* A process that relies on the records has first settled the replacement  *)
(* an earlier process left pending: "the next `oca` process that enters    *)
(* the ref store owns the retry" (ADR, "Deferred completion and errors").  *)
EntrantSettles ==
  \A p \in Proc : pc[p] \in {Reading, Claiming} => onDisk = {file}

(* Every behaviour of the store, with its deaths and power losses, is one  *)
(* of the abstract map: no update is lost, merged with another, or applied *)
(* while an earlier one may still be undone.                               *)
RefMapSpec == Map!Spec
-----------------------------------------------------------------------------
(* The inductive invariant: what makes the properties above hold after     *)
(* every step, and the reason they do.                                     *)

Changing == {Changed, Marked, Written, Flushed}

LockInv == \A p \in Proc : lock = p <=> pc[p] # Idle

(* What the holder of the lock knows at each step of a replacement.        *)
StepInv ==
  \A p \in Proc :
    /\ pc[p] \in {Reading} \cup Changing => onDisk = {file}
    /\ pc[p] \in {Marked, Written, Flushed, Renamed, Acked} => marker
    /\ pc[p] = Flushed => synced[p]
    /\ pc[p] \in Changing => Map!OneUpdate(file, buf[p])

(* A loss of power exposes the visible records or one older version.       *)
DiskInv == \E s \in Map!RefMaps : onDisk = {s, file}

(* A live claim is protected by a record of its id or by an intent, its    *)
(* own or another's.                                                       *)
ClaimInv ==
  \A p \in Proc : claim[p] # NoId /\ claim[p] \notin released => Used(claim[p])

(* An id about to be given out is in nobody's use.                         *)
TargetInv ==
  \A q \in Proc : pc[q] \in Changing \cup {Claiming} /\ target[q] # NoId =>
    /\ file[target[q]] = NoRec
    /\ \A p \in Proc : claim[p] = target[q] => target[q] \in released
    /\ pc[q] \in Changing => /\ buf[q][target[q]] # NoRec
                             /\ buf[q][target[q]].owner = q

IInv ==
  /\ TypeOK /\ LockInv /\ StepInv /\ DiskInv /\ PendingIsMarked
  /\ DistinctClaims /\ ClaimInv /\ TargetInv
=============================================================================

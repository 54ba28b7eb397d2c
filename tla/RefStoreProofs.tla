--------------------------- MODULE RefStoreProofs ---------------------------
(***************************************************************************)
(* The inductive invariant of RefStore, for every set of processes and of  *)
(* ids, and what follows from it: the file is never torn, a pending        *)
(* replacement is always marked, no id has two live owners, and the store  *)
(* implements the abstract map of RefMap.                                  *)
(***************************************************************************)
EXTENDS RefStore, FiniteSetTheorems, TLAPS

LEMMA NoRecordsType == NoRecords \in Map!RefMaps
BY DEF NoRecords, Map!RefMaps

LEMMA RecordType ==
  ASSUME NEW p \in Proc, NEW acked \in BOOLEAN
  PROVE  /\ Record(p, acked) \in Map!RecordOf
         /\ Record(p, acked) # NoRec
         /\ Record(p, acked).owner = p
         /\ Record(p, acked).message = acked
<1>1. Record(p, acked) \in Map!RecordOf
  BY DEF Record, Map!RecordOf
<1>2. Record(p, acked) # NoRec
  BY <1>1, NullAssumption
<1>3. QED
  BY <1>1, <1>2 DEF Record

USE DEF Idle, Entry, Reading, Reserving, Claiming, Changed, Marked, Written,
        Flushed, Renamed, Acked, Pcs, Changing

(* A copy stays a copy whatever its holder sees of the records.            *)
LEMMA SawType ==
  ASSUME copy \in [Proc -> Copies], NEW p \in Proc,
         DropCopy(p) \/ LookUp(p) \/ Saw(p, Present)
  PROVE  copy' \in [Proc -> Copies]
<1>1. /\ NoCopy \in Copies
      /\ \A c \in Copies : \A w \in {Absent, Present} : [c EXCEPT !.saw = w] \in Copies
  BY DEF NoCopy, Copies
<1>2. ASSUME NEW w \in {Absent, Present}, Saw(p, w)
      PROVE  copy' \in [Proc -> Copies]
  BY <1>1, <1>2 DEF Saw
<1>3. CASE DropCopy(p)
  BY <1>1, <1>3 DEF DropCopy
<1>4. CASE LookUp(p)
  BY <1>2, <1>4 DEF LookUp
<1>5. QED
  BY <1>2, <1>3, <1>4

(* The records an operation is about to write are records. *)
LEMMA OperationType ==
  ASSUME TypeOK, NEW p \in Proc, Operation(p)
  PROVE  TypeOK'
<1>1. /\ copy[p].id \in Id \cup {NoId}
      /\ copy[p].owner \in Proc \cup {NoProc}
      /\ claim[p] \in Id \cup {NoId}
  BY DEF TypeOK, Copies
<1>2. \A i \in Id : file[i] # NoRec => file[i] \in Map!RecordOf
  BY DEF TypeOK, Map!RefMaps
<1>3. ASSUME NEW id \in Id \cup {NoId}, NEW records \in Map!RefMaps,
             NEW ack \in BOOLEAN, Change(p, id, records, ack),
             UNCHANGED <<claim, released>>, copy' \in [Proc -> Copies]
      PROVE  TypeOK'
  BY <1>3 DEF TypeOK, Change, Goto, storeVars
<1>4. ASSUME NEW i \in Id, NEW q \in Proc, NEW acked \in BOOLEAN
      PROVE  [file EXCEPT ![i] = Record(q, acked)] \in Map!RefMaps
  BY RecordType DEF TypeOK, Map!RefMaps
<1>5. ASSUME NEW i \in Id, file[i] # NoRec
      PROVE  /\ [file EXCEPT ![i].message = TRUE] \in Map!RefMaps
             /\ [file EXCEPT ![i].tombstoned = TRUE] \in Map!RefMaps
             /\ [file EXCEPT ![i] = NoRec] \in Map!RefMaps
  BY <1>2, <1>5, ZenonT(30) DEF TypeOK, Map!RefMaps, Map!RecordOf
<1>6. [i \in Id |-> IF IsTombstone(i) THEN NoRec ELSE file[i]] \in Map!RefMaps
  BY DEF TypeOK, Map!RefMaps
<1>7. copy \in [Proc -> Copies]
  BY DEF TypeOK
<1>8. CASE Allocate(p)
  BY <1>3, <1>4, <1>7, <1>8 DEF Allocate
<1>9. CASE Reserve(p)
  BY <1>3, <1>4, <1>7, <1>9 DEF Reserve
<1>10. CASE AllocateReserved(p)
  BY <1>1, <1>3, <1>4, <1>7, <1>10 DEF AllocateReserved
<1>11. CASE InsertReserved(p)
  <2>1. PICK acked \in BOOLEAN :
          /\ Change(p, NoId,
                    [file EXCEPT ![copy[p].id] = Record(copy[p].owner, acked)],
                    FALSE)
          /\ UNCHANGED <<claim, released>>
          /\ copy[p].id \in Id /\ copy[p].owner \in Proc
    BY <1>1, <1>11 DEF InsertReserved, Reconciling
  <2>2. copy' \in [Proc -> Copies]
    BY <1>7, <1>11, SawType DEF InsertReserved
  <2>3. QED
    BY <1>3, <1>4, <2>1, <2>2
<1>12. CASE Patch(p)
  BY <1>3, <1>5, <1>7, <1>12 DEF Patch
<1>13. CASE Tombstone(p)
  BY <1>3, <1>5, <1>7, <1>13 DEF Tombstone
<1>14. CASE DiscardUnacknowledged(p)
  BY <1>1, <1>3, <1>5, <1>7, <1>14 DEF DiscardUnacknowledged, Abandoning
<1>15. CASE PruneTombstones(p)
  BY <1>3, <1>6, <1>7, <1>15 DEF PruneTombstones
<1>16. QED
  BY <1>8, <1>9, <1>10, <1>11, <1>12, <1>13, <1>14, <1>15 DEF Operation

(* Forgetting an operation keeps the types of the locals. *)
LEMMA ForgetType ==
  ASSUME TypeOK, NEW p \in Proc, Forget(p)
  PROVE  /\ pc' \in [Proc -> Pcs]
         /\ buf' \in [Proc -> Map!RefMaps]
         /\ synced' \in [Proc -> BOOLEAN]
         /\ deferred' \in [Proc -> BOOLEAN]
         /\ target' \in [Proc -> Id \cup {NoId}]
BY NoRecordsType DEF TypeOK, Forget

LEMMA TypeStep == TypeOK /\ NeverTorn /\ [Next]_vars => TypeOK'
<1> SUFFICES ASSUME TypeOK, NeverTorn, [Next]_vars PROVE TypeOK'
  OBVIOUS
<1> USE DEF storeVars, localVars, idVars, Goto, Release
<1>1. ASSUME NEW p \in Proc, LockRecords(p) PROVE TypeOK'
  BY <1>1 DEF TypeOK, LockRecords
<1>2. ASSUME NEW p \in Proc, LockForIntent(p) PROVE TypeOK'
  BY <1>2 DEF TypeOK, LockForIntent
<1>3. ASSUME NEW p \in Proc, ReadRecords(p) PROVE TypeOK'
  BY <1>3, SawType DEF TypeOK, ReadRecords
<1>4. ASSUME NEW p \in Proc, RetryFails(p) PROVE TypeOK'
  BY <1>4, ForgetType, SawType DEF TypeOK, RetryFails
<1>5. ASSUME NEW p \in Proc, Operation(p) PROVE TypeOK'
  BY <1>5, OperationType
<1>6. ASSUME NEW p \in Proc, ReadOnly(p) \/ TransferDirectoryDurability(p)
      PROVE  TypeOK'
  BY <1>6, ForgetType DEF TypeOK, ReadOnly, TransferDirectoryDurability
<1>7. ASSUME NEW p \in Proc, Replace(p) PROVE TypeOK'
  <2>1. CASE MarkPending(p)
    BY <2>1 DEF TypeOK, MarkPending
  <2>2. CASE WriteTemporary(p)
    BY <2>2 DEF TypeOK, WriteTemporary
  <2>3. CASE SyncTemporary(p)
    BY <2>3 DEF TypeOK, SyncTemporary
  <2>4. CASE Rename(p)
    BY <2>4 DEF TypeOK, Rename
  <2>5. CASE WriteFails(p)
    BY <2>5, ForgetType, SawType DEF TypeOK, WriteFails
  <2>6. CASE Acknowledge(p)
    BY <2>6 DEF TypeOK, Acknowledge
  <2>7. CASE SyncDirectory(p)
    BY <2>7, ForgetType DEF TypeOK, SyncDirectory
  <2>8. CASE LeavePending(p)
    BY <2>8, ForgetType, SawType DEF TypeOK, LeavePending
  <2>9. QED
    BY <1>7, <2>1, <2>2, <2>3, <2>4, <2>5, <2>6, <2>7, <2>8 DEF Replace
<1>8. ASSUME NEW p \in Proc, IntentStep(p) PROVE TypeOK'
  <2>1. CASE PickCandidate(p)
    BY <2>1 DEF TypeOK, PickCandidate
  <2>2. CASE ReserveIntent(p)
    BY <2>2, ForgetType DEF TypeOK, ReserveIntent
  <2>3. CASE ReserveIntentFails(p)
    BY <2>3, ForgetType DEF TypeOK, ReserveIntentFails
  <2>4. CASE PersistIntent(p)
    BY <2>4 DEF TypeOK, PersistIntent
  <2>5. CASE AbandonIntent(p)
    <3>1. [id |-> claim[p], owner |-> NoProc, saw |-> Unread] \in Copies
      BY DEF TypeOK, Copies
    <3>2. QED
      BY <2>5, <3>1 DEF TypeOK, AbandonIntent, Unclaim
  <2>6. CASE EndDispatch(p)
    BY <2>6 DEF TypeOK, EndDispatch, Unclaim
  <2>7. QED
    BY <1>8, <2>1, <2>2, <2>3, <2>4, <2>5, <2>6 DEF IntentStep
<1>9. ASSUME NEW p \in Proc, CopyStep(p) PROVE TypeOK'
  <2>1. CASE ReadIntent(p)
    <3>1. PICK i \in Id : copy' = [copy EXCEPT ![p] =
                             [id |-> i, owner |-> intent[i], saw |-> Unread]]
      BY <2>1 DEF ReadIntent
    <3>2. [id |-> i, owner |-> intent[i], saw |-> Unread] \in Copies
      BY DEF TypeOK, Copies
    <3>3. QED
      BY <2>1, <3>1, <3>2 DEF TypeOK, ReadIntent
  <2>2. CASE PersistCopy(p)
    <3>1. copy[p].id \in Id /\ copy[p].owner \in Proc
      BY <2>2 DEF TypeOK, Copies, PersistCopy, Reconciling
    <3>2. QED
      BY <2>2, <3>1 DEF TypeOK, PersistCopy
  <2>3. CASE RemoveIntent(p)
    BY <2>3, SawType DEF TypeOK, RemoveIntent
  <2>4. CASE KeepIntent(p)
    BY <2>4, SawType DEF TypeOK, KeepIntent
  <2>5. QED
    BY <1>9, <2>1, <2>2, <2>3, <2>4 DEF CopyStep
<1>10. ASSUME NEW p \in Proc, Crash(p) PROVE TypeOK'
  BY <1>10, ForgetType, SawType DEF TypeOK, Crash, Unclaim
<1>11. CASE PowerLoss
  BY <1>11, NoRecordsType DEF TypeOK, NeverTorn, PowerLoss, NoCopy, Copies
<1>12. CASE UNCHANGED vars
  BY <1>12 DEF TypeOK, vars
<1>13. QED
  BY <1>1, <1>2, <1>3, <1>4, <1>5, <1>6, <1>7, <1>8, <1>9, <1>10, <1>11, <1>12
     DEF Next

-----------------------------------------------------------------------------
(* Every operation changes the records by one update of the abstract map,  *)
(* gives no id to a second owner, and picks only ids nobody uses.          *)

LEMMA OperationUpdates ==
  ASSUME IInv, NEW p \in Proc, Operation(p)
  PROVE  Map!OneUpdate(file, buf'[p])
<1>1. /\ file \in Map!RefMaps
      /\ \A i \in Id : file[i] # NoRec => file[i] \in Map!RecordOf
      /\ buf \in [Proc -> Map!RefMaps]
      /\ claim \in [Proc -> Id \cup {NoId}]
      /\ copy[p].id \in Id \cup {NoId}
      /\ copy[p].owner \in Proc \cup {NoProc}
  BY DEF IInv, TypeOK, Copies, Map!RefMaps
<1>2. ASSUME NEW i \in Id, NEW q \in Proc, NEW acked \in BOOLEAN,
             file[i] = NoRec
      PROVE  Map!OneUpdate(file, [file EXCEPT ![i] = Record(q, acked)])
  BY <1>2, RecordType DEF Map!OneUpdate, Map!Inserts
<1>3. ASSUME NEW i \in Id, file[i] # NoRec
      PROVE  /\ Map!OneUpdate(file, [file EXCEPT ![i].message = TRUE])
             /\ Map!OneUpdate(file, [file EXCEPT ![i].tombstoned = TRUE])
  <2> DEFINE patched == [file[i] EXCEPT !.message = TRUE]
             buried == [file[i] EXCEPT !.tombstoned = TRUE]
  <2>1. /\ patched \in Map!RecordOf
        /\ buried \in Map!RecordOf
        /\ patched.owner = file[i].owner /\ buried.owner = file[i].owner
        /\ patched.message /\ buried.tombstoned
        /\ patched.tombstoned = file[i].tombstoned
        /\ buried.message = file[i].message
    BY <1>1, <1>3 DEF Map!RecordOf
  <2>2. /\ [file EXCEPT ![i].message = TRUE] = [file EXCEPT ![i] = patched]
        /\ [file EXCEPT ![i].tombstoned = TRUE] = [file EXCEPT ![i] = buried]
    OBVIOUS
  <2> HIDE DEF patched, buried
  <2>3. QED
    BY <1>3, <2>1, <2>2 DEF Map!OneUpdate, Map!Rewrites
<1>4. ASSUME NEW i \in Id, file[i] # NoRec, ~file[i].message
      PROVE  Map!OneUpdate(file, [file EXCEPT ![i] = NoRec])
  BY <1>4 DEF Map!OneUpdate, Map!Discards
<1>5. Map!OneUpdate(file, [i \in Id |-> IF IsTombstone(i) THEN NoRec ELSE file[i]])
  BY DEF Map!OneUpdate, Map!Prunes, IsTombstone
<1>6. ASSUME NEW id, NEW records, NEW ack, Change(p, id, records, ack)
      PROVE  buf'[p] = records
  BY <1>1, <1>6 DEF Change
<1>7. CASE Allocate(p)
  BY <1>2, <1>6, <1>7 DEF Allocate, Used
<1>8. CASE Reserve(p)
  BY <1>2, <1>6, <1>8 DEF Reserve, Used
<1>9. CASE AllocateReserved(p)
  <2>1. /\ claim[p] \in Id /\ file[claim[p]] = NoRec
        /\ buf'[p] = [file EXCEPT ![claim[p]] = Record(p, TRUE)]
    BY <1>1, <1>6, <1>9 DEF AllocateReserved
  <2>2. QED
    BY <1>2, <2>1
<1>10. CASE InsertReserved(p)
  <2>1. PICK acked \in BOOLEAN :
          /\ copy[p].id \in Id /\ copy[p].owner \in Proc
          /\ file[copy[p].id] = NoRec
          /\ buf'[p] = [file EXCEPT ![copy[p].id] = Record(copy[p].owner, acked)]
    BY <1>1, <1>6, <1>10 DEF InsertReserved, Reconciling
  <2>2. QED
    BY <1>2, <2>1
<1>11. CASE Patch(p)
  BY <1>3, <1>6, <1>11 DEF Patch
<1>12. CASE Tombstone(p)
  BY <1>3, <1>6, <1>12 DEF Tombstone
<1>13. CASE DiscardUnacknowledged(p)
  BY <1>1, <1>4, <1>6, <1>13 DEF DiscardUnacknowledged, Abandoning
<1>14. CASE PruneTombstones(p)
  BY <1>5, <1>6, <1>14 DEF PruneTombstones
<1>15. QED
  BY <1>7, <1>8, <1>9, <1>10, <1>11, <1>12, <1>13, <1>14 DEF Operation

-----------------------------------------------------------------------------
(* Preservation, one invariant at a time.                                  *)

USE DEF storeVars, localVars, idVars, Goto, Release, Forget, Replace,
        IntentStep, CopyStep, DropCopy, Unclaim, Operation, Change

(* Exactly the process that is inside an operation holds the lock.         *)
LEMMA LockStep == TypeOK /\ LockInv /\ [Next]_vars => LockInv'
<1> SUFFICES ASSUME TypeOK, LockInv, [Next]_vars PROVE LockInv'
  OBVIOUS
<1> USE DEF TypeOK, LockInv
<1>1. ASSUME NEW p \in Proc,
             LockRecords(p) \/ LockForIntent(p) \/ ReadRecords(p) \/ RetryFails(p)
      PROVE  LockInv'
  BY <1>1, NullAssumption DEF LockRecords, LockForIntent, ReadRecords, RetryFails
<1>2. ASSUME NEW p \in Proc, Operation(p) PROVE LockInv'
  BY <1>2 DEF Allocate, Reserve, AllocateReserved, InsertReserved, Patch,
     Tombstone, DiscardUnacknowledged, PruneTombstones
<1>3. ASSUME NEW p \in Proc, ReadOnly(p) \/ TransferDirectoryDurability(p)
      PROVE  LockInv'
  BY <1>3, NullAssumption DEF ReadOnly, TransferDirectoryDurability
<1>4. ASSUME NEW p \in Proc, Replace(p) PROVE LockInv'
  BY <1>4, NullAssumption DEF MarkPending, WriteTemporary, SyncTemporary,
     Rename, WriteFails, Acknowledge, SyncDirectory, LeavePending, ReadyToSync
<1>5. ASSUME NEW p \in Proc, IntentStep(p) \/ CopyStep(p) PROVE LockInv'
  BY <1>5, NullAssumption DEF PickCandidate, ReserveIntent, ReserveIntentFails,
     PersistIntent, AbandonIntent, EndDispatch, ReadIntent, PersistCopy,
     RemoveIntent, KeepIntent
<1>6. ASSUME NEW p \in Proc, Crash(p) PROVE LockInv'
  BY <1>6, NullAssumption DEF Crash
<1>7. CASE PowerLoss
  BY <1>7, NullAssumption DEF PowerLoss
<1>8. CASE UNCHANGED vars
  BY <1>8 DEF vars
<1>9. QED
  BY <1>1, <1>2, <1>3, <1>4, <1>5, <1>6, <1>7, <1>8 DEF Next

(* What the holder of the lock knows: nobody else moves the records, the   *)
(* marker or the disk while it works on a replacement.                     *)
LEMMA StepStep == IInv /\ [Next]_vars => StepInv'
<1> SUFFICES ASSUME IInv, [Next]_vars PROVE StepInv'
  OBVIOUS
<1> USE DEF IInv, TypeOK, LockInv, StepInv
<1>1. ASSUME NEW p \in Proc,
             LockRecords(p) \/ LockForIntent(p) \/ ReadRecords(p) \/ RetryFails(p)
      PROVE  StepInv'
  BY <1>1, NullAssumption
     DEF LockRecords, LockForIntent, ReadRecords, RetryFails, PendingIsMarked
<1>2. ASSUME NEW p \in Proc, Operation(p) PROVE StepInv'
  <2>1. Map!OneUpdate(file, buf'[p])
    BY <1>2, OperationUpdates
  <2>2. /\ pc[p] = Reading /\ pc' = [pc EXCEPT ![p] = Changed]
        /\ \A q \in Proc \ {p} : buf'[q] = buf[q]
        /\ UNCHANGED <<marker, file, onDisk, synced>>
    <3>1. CASE Allocate(p) \/ Reserve(p)
      <4>1. PICK id, records, ack : Change(p, id, records, ack)
        BY <3>1 DEF Allocate, Reserve
      <4>2. QED
        BY <4>1
    <3>2. CASE AllocateReserved(p) \/ InsertReserved(p)
      <4>1. PICK id, records, ack : Change(p, id, records, ack)
        BY <3>2 DEF AllocateReserved, InsertReserved
      <4>2. QED
        BY <4>1
    <3>3. CASE Patch(p) \/ Tombstone(p)
      <4>1. PICK id, records, ack : Change(p, id, records, ack)
        BY <3>3 DEF Patch, Tombstone
      <4>2. QED
        BY <4>1
    <3>4. CASE DiscardUnacknowledged(p) \/ PruneTombstones(p)
      <4>1. PICK id, records, ack : Change(p, id, records, ack)
        BY <3>4 DEF DiscardUnacknowledged, PruneTombstones
      <4>2. QED
        BY <4>1
    <3>5. QED
      BY <1>2, <3>1, <3>2, <3>3, <3>4
  <2>3. QED
    BY <2>1, <2>2
<1>3. ASSUME NEW p \in Proc, ReadOnly(p) \/ TransferDirectoryDurability(p)
      PROVE  StepInv'
  BY <1>3, NullAssumption DEF ReadOnly, TransferDirectoryDurability
<1>4. ASSUME NEW p \in Proc, Replace(p) PROVE StepInv'
  BY <1>4, NullAssumption DEF MarkPending, WriteTemporary, SyncTemporary,
     Rename, WriteFails, Acknowledge, SyncDirectory, LeavePending, ReadyToSync
<1>5. ASSUME NEW p \in Proc, IntentStep(p) \/ CopyStep(p) PROVE StepInv'
  BY <1>5, NullAssumption DEF PickCandidate, ReserveIntent, ReserveIntentFails,
     PersistIntent, AbandonIntent, EndDispatch, ReadIntent, PersistCopy,
     RemoveIntent, KeepIntent
<1>6. ASSUME NEW p \in Proc, Crash(p) PROVE StepInv'
  BY <1>6, NullAssumption DEF Crash
<1>7. CASE PowerLoss
  BY <1>7, NullAssumption DEF PowerLoss
<1>8. CASE UNCHANGED vars
  BY <1>8 DEF vars
<1>9. QED
  BY <1>1, <1>2, <1>3, <1>4, <1>5, <1>6, <1>7, <1>8 DEF Next

(* A loss of power exposes the visible records or one older version, and   *)
(* the marker is set for as long as there are two.                         *)
LEMMA NoTear == TypeOK /\ DiskInv => NeverTorn
BY NullAssumption DEF DiskInv, NeverTorn, TypeOK

LEMMA DiskStep == IInv /\ [Next]_vars => DiskInv' /\ PendingIsMarked'
<1> SUFFICES ASSUME IInv, [Next]_vars PROVE DiskInv' /\ PendingIsMarked'
  OBVIOUS
<1> USE DEF DiskInv, PendingIsMarked
<1>1. file \in Map!RefMaps /\ DiskInv /\ PendingIsMarked
  BY DEF IInv, TypeOK
<1>2. ASSUME UNCHANGED <<file, onDisk>>, marker => marker'
      PROVE  DiskInv' /\ PendingIsMarked'
  BY <1>1, <1>2
<1>3. ASSUME UNCHANGED file, onDisk' = {file}
      PROVE  DiskInv' /\ PendingIsMarked'
  BY <1>1, <1>3
<1>4. ASSUME NEW p \in Proc,
             LockRecords(p) \/ LockForIntent(p) \/ ReadRecords(p) \/ RetryFails(p)
      PROVE  DiskInv' /\ PendingIsMarked'
  BY <1>1, <1>2, <1>3, <1>4
     DEF LockRecords, LockForIntent, ReadRecords, RetryFails
<1>5. ASSUME NEW p \in Proc, Operation(p) PROVE DiskInv' /\ PendingIsMarked'
  BY <1>2, <1>5 DEF Allocate, Reserve, AllocateReserved, InsertReserved, Patch,
     Tombstone, DiscardUnacknowledged, PruneTombstones
<1>6. ASSUME NEW p \in Proc, ReadOnly(p) \/ TransferDirectoryDurability(p)
      PROVE  DiskInv' /\ PendingIsMarked'
  BY <1>2, <1>6 DEF ReadOnly, TransferDirectoryDurability
<1>7. ASSUME NEW p \in Proc, Replace(p) PROVE DiskInv' /\ PendingIsMarked'
  <2>1. CASE MarkPending(p) \/ WriteTemporary(p) \/ SyncTemporary(p)
    BY <1>2, <2>1 DEF MarkPending, WriteTemporary, SyncTemporary
  <2>2. CASE Rename(p)
    BY <1>1, <2>2 DEF Rename, IInv, StepInv, TypeOK
  <2>3. CASE WriteFails(p)
    BY <1>3, <2>3 DEF WriteFails, IInv, StepInv
  <2>4. CASE Acknowledge(p) \/ LeavePending(p)
    BY <1>2, <2>4 DEF Acknowledge, LeavePending
  <2>5. CASE SyncDirectory(p)
    BY <1>3, <2>5 DEF SyncDirectory
  <2>6. QED
    BY <1>7, <2>1, <2>2, <2>3, <2>4, <2>5
<1>8. ASSUME NEW p \in Proc, IntentStep(p) \/ CopyStep(p) PROVE DiskInv' /\ PendingIsMarked'
  BY <1>2, <1>8 DEF PickCandidate, ReserveIntent, ReserveIntentFails,
     PersistIntent, AbandonIntent, EndDispatch, ReadIntent, PersistCopy,
     RemoveIntent, KeepIntent
<1>9. ASSUME NEW p \in Proc, Crash(p) PROVE DiskInv' /\ PendingIsMarked'
  BY <1>2, <1>9 DEF Crash
<1>10. CASE PowerLoss
  BY <1>1, <1>10 DEF PowerLoss
<1>11. CASE UNCHANGED vars
  BY <1>2, <1>11 DEF vars
<1>12. QED
  BY <1>4, <1>5, <1>6, <1>7, <1>8, <1>9, <1>10, <1>11 DEF Next

(* Only the holder of the lock is anywhere inside an operation.            *)
LEMMA OthersIdle ==
  ASSUME LockInv, NEW p \in Proc, pc[p] # Idle, NEW q \in Proc, q # p
  PROVE  pc[q] = Idle
BY DEF LockInv

(* A claim that ends leaves the others as they are, their exceptions too.  *)
LEMMA UnclaimKeeps ==
  ASSUME TypeOK, NEW p \in Proc, Unclaim(p)
  PROVE  /\ \A q \in Proc : claim'[q] = IF q = p THEN NoId ELSE claim[q]
         /\ \A q \in Proc : claim'[q] # NoId /\ claim[q] \in released =>
                              claim[q] \in released'
<1>1. \A q \in Proc : claim'[q] = IF q = p THEN NoId ELSE claim[q]
  BY DEF TypeOK, Unclaim
<1>2. ASSUME NEW q \in Proc, claim'[q] # NoId, claim[q] \in released
      PROVE  claim[q] \in released'
  BY <1>1, <1>2 DEF Unclaim
<1>3. QED
  BY <1>1, <1>2

(* An operation offers only an id that no record and no intent protects,   *)
(* and so one that no live dispatch has.                                   *)
LEMMA OperationOffers ==
  ASSUME IInv, NEW p \in Proc, Operation(p)
  PROVE  TargetInv'
<1>1. TypeOK /\ LockInv /\ ClaimInv
  BY DEF IInv
<1>2. /\ pc[p] = Reading /\ pc' = [pc EXCEPT ![p] = Changed]
      /\ UNCHANGED <<file, claim, released>>
  BY <1>1 DEF TypeOK, Allocate, Reserve, AllocateReserved, InsertReserved, Patch,
     Tombstone, DiscardUnacknowledged, PruneTombstones
<1>3. \A q \in Proc : q # p => pc'[q] = Idle
  BY <1>1, <1>2, OthersIdle DEF TypeOK
<1>4. CASE target'[p] = NoId
  BY <1>3, <1>4, NullAssumption DEF TargetInv
<1>5. ASSUME NEW i \in Id, NEW acked \in BOOLEAN, ~Used(i),
             buf'[p] = [file EXCEPT ![i] = Record(p, acked)], target'[p] = i
      PROVE  TargetInv'
  <2>1. file[i] = NoRec /\ \A q \in Proc : claim[q] = i => i \in released
    BY <1>1, <1>5, NullAssumption DEF ClaimInv, Used
  <2>2. buf'[p][i] # NoRec /\ buf'[p][i].owner = p
    BY <1>1, <1>5, RecordType DEF TypeOK, Map!RefMaps
  <2>3. QED
    BY <1>2, <1>3, <1>5, <2>1, <2>2 DEF TargetInv
<1>6. CASE Allocate(p)
  <2>1. PICK i \in Id : /\ ~Used(i) /\ target'[p] = i
                        /\ buf'[p] = [file EXCEPT ![i] = Record(p, TRUE)]
    BY <1>1, <1>6 DEF Allocate, TypeOK
  <2>2. QED
    BY <1>5, <2>1
<1>7. CASE Reserve(p)
  <2>1. PICK i \in Id : /\ ~Used(i) /\ target'[p] = i
                        /\ buf'[p] = [file EXCEPT ![i] = Record(p, FALSE)]
    BY <1>1, <1>7 DEF Reserve, TypeOK
  <2>2. QED
    BY <1>5, <2>1
<1>8. CASE \/ AllocateReserved(p) \/ InsertReserved(p) \/ Patch(p) \/ Tombstone(p)
           \/ DiscardUnacknowledged(p) \/ PruneTombstones(p)
  <2>1. target'[p] = NoId
    BY <1>1, <1>8 DEF TypeOK, AllocateReserved, InsertReserved, Patch, Tombstone,
       DiscardUnacknowledged, PruneTombstones
  <2>2. QED
    BY <1>4, <2>1
<1>9. QED
  BY <1>6, <1>7, <1>8

(* Nobody else is given, and nobody else protects, the id a process is     *)
(* about to be given.                                                      *)
LEMMA TargetStep == IInv /\ [Next]_vars => TargetInv'
<1> SUFFICES ASSUME IInv, [Next]_vars PROVE TargetInv'
  OBVIOUS
<1>1. TypeOK /\ LockInv /\ ClaimInv /\ TargetInv
  BY DEF IInv
(* A step that leaves no process ahead of its rename keeps it.             *)
<1>2. ASSUME NEW p \in Proc, pc[p] # Idle, pc'[p] \notin Changing \cup {Claiming},
             \A q \in Proc : q # p => pc'[q] = pc[q]
      PROVE  TargetInv'
  BY <1>1, <1>2, OthersIdle DEF TargetInv
(* So does one that only moves a process along, or ends claims.            *)
<1>3. ASSUME UNCHANGED <<file, buf, target>>,
             \A q \in Proc : \/ pc'[q] \notin Changing \cup {Claiming}
                            \/ /\ pc[q] \in Changing /\ pc'[q] \in Changing
                            \/ pc'[q] = pc[q],
             \A q \in Proc : claim'[q] \in {claim[q], NoId},
             \A q \in Proc : claim'[q] # NoId /\ claim[q] \in released =>
                              claim[q] \in released'
      PROVE  TargetInv'
  BY <1>1, <1>3, NullAssumption DEF TargetInv, TypeOK
<1>4. ASSUME NEW p \in Proc,
             LockRecords(p) \/ LockForIntent(p) \/ ReadRecords(p)
      PROVE  TargetInv'
  BY <1>1, <1>3, <1>4 DEF TypeOK, LockRecords, LockForIntent, ReadRecords
<1>5. ASSUME NEW p \in Proc,
             RetryFails(p) \/ ReadOnly(p) \/ TransferDirectoryDurability(p)
      PROVE  TargetInv'
  BY <1>1, <1>2, <1>5 DEF TypeOK, RetryFails, ReadOnly, TransferDirectoryDurability
<1>6. ASSUME NEW p \in Proc, Operation(p) PROVE TargetInv'
  BY <1>6, OperationOffers
<1>7. ASSUME NEW p \in Proc, Replace(p) PROVE TargetInv'
  <2>1. CASE MarkPending(p) \/ WriteTemporary(p) \/ SyncTemporary(p)
    BY <1>1, <1>3, <2>1 DEF TypeOK, MarkPending, WriteTemporary, SyncTemporary
  <2>2. CASE Rename(p) \/ WriteFails(p)
    BY <1>1, <1>2, <2>2 DEF TypeOK, Rename, WriteFails
  <2>3. CASE Acknowledge(p) \/ SyncDirectory(p) \/ LeavePending(p)
    BY <1>1, <1>2, <2>3
       DEF TypeOK, Acknowledge, SyncDirectory, LeavePending, ReadyToSync
  <2>4. QED
    BY <1>7, <2>1, <2>2, <2>3
<1>8. ASSUME NEW p \in Proc, IntentStep(p) PROVE TargetInv'
  <2>1. CASE PickCandidate(p)
    <3>1. \A i \in Id : ~Used(i) => \A q \in Proc : claim[q] = i => i \in released
      BY <1>1, NullAssumption DEF ClaimInv
    <3>2. QED
      BY <1>1, <2>1, <3>1, OthersIdle DEF PickCandidate, TargetInv, TypeOK, Used
  <2>2. CASE ReserveIntent(p) \/ ReserveIntentFails(p)
    BY <1>1, <1>2, <2>2 DEF TypeOK, ReserveIntent, ReserveIntentFails
  <2>3. CASE PersistIntent(p)
    BY <1>1, <1>3, <2>3 DEF TypeOK, PersistIntent
  <2>4. CASE AbandonIntent(p) \/ EndDispatch(p)
    BY <1>1, <1>3, <2>4, UnclaimKeeps DEF AbandonIntent, EndDispatch
  <2>5. QED
    BY <1>8, <2>1, <2>2, <2>3, <2>4
<1>9. ASSUME NEW p \in Proc, CopyStep(p) PROVE TargetInv'
  BY <1>1, <1>3, <1>9 DEF CopyStep, ReadIntent, PersistCopy, RemoveIntent, KeepIntent
<1>10. ASSUME NEW p \in Proc, Crash(p) PROVE TargetInv'
  <2>1. /\ \A q \in Proc : q # p => /\ pc'[q] = pc[q] /\ buf'[q] = buf[q]
                                   /\ target'[q] = target[q]
        /\ pc'[p] = Idle /\ file' = file
    BY <1>1, <1>10 DEF Crash, TypeOK
  <2>2. QED
    BY <1>1, <1>10, <2>1, UnclaimKeeps, NullAssumption DEF Crash, TargetInv, TypeOK
<1>11. CASE PowerLoss
  BY <1>1, <1>11 DEF PowerLoss, TargetInv, TypeOK
<1>12. CASE UNCHANGED vars
  BY <1>1, <1>3, <1>12 DEF vars, TypeOK
<1>13. QED
  BY <1>4, <1>5, <1>6, <1>7, <1>8, <1>9, <1>10, <1>11, <1>12 DEF Next

(* An id is in use after a step. *)
UsedNext(i) == file'[i] # NoRec \/ intent'[i] # NoProc

(* A live claim keeps the protection of a record or of an intent, and is   *)
(* the only one of its id, or else `released` says who lost it.            *)
LEMMA ClaimStep == IInv /\ [Next]_vars => ClaimInv' /\ DistinctClaims'
<1> SUFFICES ASSUME IInv, [Next]_vars PROVE ClaimInv' /\ DistinctClaims'
  OBVIOUS
<1>1. /\ TypeOK /\ LockInv /\ ClaimInv /\ TargetInv /\ StepInv
      /\ DistinctClaims
  BY DEF IInv
(* A step under which claims only end, and their ids stay in use, keeps    *)
(* both.                                                                   *)
<1>2. ASSUME \A q \in Proc : claim'[q] \in {claim[q], NoId},
             \A q \in Proc : claim'[q] # NoId /\ claim[q] \in released =>
                              claim[q] \in released',
             \A q \in Proc : claim'[q] # NoId /\ claim[q] \notin released'
                              /\ Used(claim[q]) => UsedNext(claim[q])
      PROVE  ClaimInv' /\ DistinctClaims'
  <2>1. \A q \in Proc : claim'[q] # NoId => claim'[q] = claim[q]
    BY <1>2
  <2>2. ClaimInv'
    <3>1. SUFFICES ASSUME NEW q \in Proc, claim'[q] # NoId, claim'[q] \notin released'
                   PROVE  UsedNext(claim'[q])
      BY DEF ClaimInv, Used, UsedNext
    <3>2. claim'[q] = claim[q] /\ Used(claim[q])
      BY <1>1, <1>2, <2>1, <3>1 DEF ClaimInv
    <3>3. UsedNext(claim[q])
      BY <1>2, <3>1, <3>2
    <3>4. QED
      BY <3>2, <3>3 DEF Used, UsedNext
  <2>3. DistinctClaims'
    BY <1>1, <1>2, <2>1 DEF DistinctClaims
  <2>4. QED
    BY <2>2, <2>3
<1>3. ASSUME UNCHANGED <<file, intent, released>>,
             \A q \in Proc : claim'[q] \in {claim[q], NoId}
      PROVE  ClaimInv' /\ DistinctClaims'
  BY <1>2, <1>3 DEF Used, UsedNext
<1>4. ASSUME NEW p \in Proc,
             \/ LockRecords(p) \/ LockForIntent(p) \/ ReadRecords(p)
             \/ RetryFails(p) \/ ReadOnly(p) \/ TransferDirectoryDurability(p)
      PROVE  ClaimInv' /\ DistinctClaims'
  BY <1>3, <1>4 DEF LockRecords, LockForIntent, ReadRecords, RetryFails,
     ReadOnly, TransferDirectoryDurability
<1>5. ASSUME NEW p \in Proc, Operation(p) PROVE ClaimInv' /\ DistinctClaims'
  BY <1>3, <1>5 DEF Allocate, Reserve, AllocateReserved, InsertReserved, Patch,
     Tombstone, DiscardUnacknowledged, PruneTombstones
(* A step that gives an id to one process, and protects it first.          *)
<1>6. ASSUME NEW p \in Proc, target[p] \in Id,
             claim' = [claim EXCEPT ![p] = target[p]],
             \A q \in Proc : claim[q] = target[p] => target[p] \in released,
             released \subseteq released',
             UsedNext(target[p]),
             \A q \in Proc : claim[q] # NoId /\ claim[q] \notin released'
                              /\ Used(claim[q]) => UsedNext(claim[q])
      PROVE  ClaimInv' /\ DistinctClaims'
  <2>1. \A q \in Proc : claim'[q] = IF q = p THEN target[p] ELSE claim[q]
    BY <1>1, <1>6 DEF TypeOK
  <2>2. ClaimInv'
    <3>1. SUFFICES ASSUME NEW q \in Proc, claim'[q] # NoId, claim'[q] \notin released'
                   PROVE  UsedNext(claim'[q])
      BY DEF ClaimInv, Used, UsedNext
    <3>2. CASE q = p
      BY <1>6, <2>1, <3>2 DEF Used, UsedNext
    <3>3. CASE q # p
      <4>1. claim'[q] = claim[q] /\ Used(claim[q])
        BY <1>1, <1>6, <2>1, <3>1, <3>3 DEF ClaimInv
      <4>2. UsedNext(claim[q])
        BY <1>6, <3>1, <4>1
      <4>3. QED
        BY <4>1, <4>2 DEF Used, UsedNext
    <3>4. QED
      BY <3>2, <3>3
  <2>3. DistinctClaims'
    BY <1>1, <1>6, <2>1 DEF DistinctClaims
  <2>4. QED
    BY <2>2, <2>3
<1>7. ASSUME NEW p \in Proc, Rename(p) PROVE ClaimInv' /\ DistinctClaims'
  <2>1. /\ pc[p] = Flushed /\ file' = buf[p] /\ intent' = intent
        /\ released \subseteq released'
        /\ target[p] \in Id \cup {NoId}
    BY <1>1, <1>7 DEF Rename, TypeOK
  <2>2. ASSUME NEW q \in Proc, claim[q] # NoId, claim[q] \notin released',
               Used(claim[q])
        PROVE  UsedNext(claim[q])
    <3>1. claim[q] \in Id /\ Claimed(claim[q])
      BY <1>1, <2>2 DEF TypeOK, Claimed
    <3>2. ~(file[claim[q]] # NoRec /\ buf[p][claim[q]] = NoRec)
      BY <1>7, <2>2, <3>1 DEF Rename
    <3>3. QED
      BY <2>1, <2>2, <3>2 DEF Used, UsedNext
  <2>3. CASE target[p] = NoId
    BY <1>2, <1>7, <2>1, <2>2, <2>3 DEF Rename
  <2>4. CASE target[p] \in Id
    <3>1. /\ \A q \in Proc : claim[q] = target[p] => target[p] \in released
          /\ buf[p][target[p]] # NoRec
      BY <1>1, <2>1, <2>4, NullAssumption DEF TargetInv
    <3>2. UsedNext(target[p])
      <4>1. buf[p][target[p]] = file'[target[p]] /\ target' = target
        BY <1>7, <2>1 DEF Rename
      <4>2. QED
        BY <3>1, <4>1 DEF Used, UsedNext
    <3>3. claim' = [claim EXCEPT ![p] = target[p]]
      BY <1>7, <2>4, NullAssumption DEF Rename
    <3>4. QED
      BY <1>6, <2>1, <2>2, <2>4, <3>1, <3>2, <3>3
  <2>5. QED
    BY <2>1, <2>3, <2>4
<1>8. ASSUME NEW p \in Proc, Replace(p) PROVE ClaimInv' /\ DistinctClaims'
  <2>1. CASE \/ MarkPending(p) \/ WriteTemporary(p) \/ SyncTemporary(p)
             \/ WriteFails(p) \/ Acknowledge(p) \/ SyncDirectory(p)
             \/ LeavePending(p)
    BY <1>3, <2>1 DEF MarkPending, WriteTemporary, SyncTemporary,
       WriteFails, Acknowledge, SyncDirectory, LeavePending
  <2>2. QED
    BY <1>7, <1>8, <2>1
<1>9. ASSUME NEW p \in Proc, IntentStep(p) PROVE ClaimInv' /\ DistinctClaims'
  <2>1. CASE PickCandidate(p) \/ ReserveIntentFails(p)
    BY <1>3, <2>1 DEF PickCandidate, ReserveIntentFails
  <2>2. CASE ReserveIntent(p)
    <3>1. /\ pc[p] = Claiming /\ UNCHANGED <<file, released>>
          /\ intent' = [intent EXCEPT ![target[p]] = p]
          /\ claim' = [claim EXCEPT ![p] = target[p]]
          /\ target[p] \in Id \cup {NoId}
      BY <1>1, <2>2 DEF ReserveIntent, TypeOK
    <3>2. \A i \in Id : Used(i) => UsedNext(i)
      BY <1>1, <3>1, NullAssumption DEF Used, UsedNext, TypeOK
    <3>3. CASE target[p] = NoId
      BY <1>1, <1>2, <3>1, <3>2, <3>3 DEF TypeOK
    <3>4. CASE target[p] \in Id
      <4>1. \A q \in Proc : claim[q] = target[p] => target[p] \in released
        BY <1>1, <3>1, <3>4, NullAssumption DEF TargetInv
      <4>2. \A q \in Proc : claim[q] # NoId => claim[q] \in Id
        BY <1>1 DEF TypeOK
      <4>3. \A i \in Id : i = target[p] => UsedNext(i)
        BY <1>1, <3>1, NullAssumption DEF Used, UsedNext, TypeOK
      <4>4. UsedNext(target[p])
        <5>1. PICK i \in Id : i = target[p]
          BY <3>4
        <5>2. i = target'[p] \/ target'[p] # i
          OBVIOUS
        <5>3. QED
          BY <3>4, <4>3 DEF Used, UsedNext
      <4>5. QED
        BY <1>6, <3>1, <3>2, <3>4, <4>1, <4>2, <4>4
    <3>5. QED
      BY <3>1, <3>3, <3>4
  <2>3. CASE PersistIntent(p)
    <3>1. \A i \in Id : Used(i) => UsedNext(i)
      BY <1>1, <2>3, NullAssumption DEF PersistIntent, Used, UsedNext, TypeOK
    <3>2. QED
      BY <1>1, <1>2, <2>3, <3>1 DEF PersistIntent, TypeOK
  <2>4. CASE AbandonIntent(p)
    <3>1. \A i \in Id : i # claim[p] /\ Used(i) => UsedNext(i)
      BY <1>1, <2>4 DEF AbandonIntent, Used, UsedNext, TypeOK
    <3>2. ASSUME NEW q \in Proc, claim'[q] # NoId, claim[q] \notin released'
          PROVE  claim[q] # claim[p]
      <4>1. /\ claim'[q] = IF q = p THEN NoId ELSE claim[q]
            /\ claim[q] \in released => claim[q] \in released'
        BY <1>1, <2>4, <3>2, UnclaimKeeps DEF AbandonIntent
      <4>2. q # p /\ claim[q] # NoId /\ claim[q] \notin released
        BY <3>2, <4>1
      <4>3. QED
        BY <1>1, <4>2 DEF DistinctClaims
    <3>3. QED
      BY <1>1, <1>2, <2>4, <3>1, <3>2, UnclaimKeeps DEF AbandonIntent, TypeOK
  <2>5. CASE EndDispatch(p)
    BY <1>1, <1>2, <2>5, UnclaimKeeps DEF EndDispatch, Used, UsedNext
  <2>6. QED
    BY <1>9, <2>1, <2>2, <2>3, <2>4, <2>5
<1>10. ASSUME NEW p \in Proc, CopyStep(p) PROVE ClaimInv' /\ DistinctClaims'
  <2>1. CASE ReadIntent(p) \/ KeepIntent(p)
    BY <1>3, <2>1 DEF ReadIntent, KeepIntent
  <2>2. CASE PersistCopy(p)
    <3>1. \A i \in Id : Used(i) => UsedNext(i)
      BY <1>1, <2>2 DEF PersistCopy, Reconciling, Used, UsedNext, TypeOK
    <3>2. QED
      BY <1>1, <1>2, <2>2, <3>1 DEF PersistCopy, TypeOK
  <2>3. CASE RemoveIntent(p)
    <3>1. \A q \in Proc : claim[q] \in Id /\ claim[q] \notin released'
                           /\ Used(claim[q]) => UsedNext(claim[q])
      BY <1>1, <2>3 DEF RemoveIntent, Used, UsedNext, Claimed, TypeOK
    <3>2. QED
      BY <1>1, <1>2, <2>3, <3>1 DEF RemoveIntent, TypeOK
  <2>4. QED
    BY <1>10, <2>1, <2>2, <2>3 DEF CopyStep
<1>11. ASSUME NEW p \in Proc, Crash(p) PROVE ClaimInv' /\ DistinctClaims'
  BY <1>1, <1>2, <1>11, UnclaimKeeps DEF Crash, Used, UsedNext
<1>12. CASE PowerLoss
  BY <1>12 DEF PowerLoss, ClaimInv, DistinctClaims
<1>13. CASE UNCHANGED vars
  BY <1>3, <1>13 DEF vars
<1>14. QED
  BY <1>4, <1>5, <1>8, <1>9, <1>10, <1>11, <1>12, <1>13 DEF Next

-----------------------------------------------------------------------------
(* The theorems.                                                           *)

LEMMA InitInvariant == Init => IInv
<1> SUFFICES ASSUME Init PROVE IInv
  OBVIOUS
<1>1. TypeOK /\ DiskInv
  BY NoRecordsType DEF Init, TypeOK, DiskInv, NoCopy, Copies
<1>2. /\ LockInv /\ StepInv /\ PendingIsMarked
      /\ DistinctClaims /\ ClaimInv /\ TargetInv
  BY NullAssumption DEF Init, LockInv, StepInv, PendingIsMarked, DistinctClaims,
     ClaimInv, TargetInv
<1>3. QED
  BY <1>1, <1>2 DEF IInv

(* The strengthened invariant holds in every reachable state of the store, *)
(* whatever processes die, calls fail or power is lost.                    *)
THEOREM Invariant == Spec => []IInv
<1>1. IInv /\ [Next]_vars => IInv'
  BY TypeStep, LockStep, StepStep, DiskStep, ClaimStep, TargetStep, NoTear DEF IInv
<1>2. QED
  BY <1>1, InitInvariant, PTL DEF Spec

(* Every variable of the store keeps its type.                             *)
THEOREM TypeCorrect == Spec => []TypeOK
<1>1. IInv => TypeOK
  BY DEF IInv
<1>2. QED
  BY <1>1, Invariant, PTL

(* A loss of power never exposes a refs.json whose data was not written:   *)
(* write_records_before_ack syncs the temporary file before its rename.    *)
THEOREM NeverTornHolds == Spec => []NeverTorn
<1>1. IInv => NeverTorn
  BY NoTear DEF IInv
<1>2. QED
  BY <1>1, Invariant, PTL

(* A replacement that could still be undone is recorded in refs.lock, even *)
(* when the process that owed the directory sync has died.                 *)
THEOREM PendingIsMarkedHolds == Spec => []PendingIsMarked
<1>1. IInv => PendingIsMarked
  BY DEF IInv
<1>2. QED
  BY <1>1, Invariant, PTL

(* At most one replacement can be undone at a time: every path to a write  *)
(* first settles the one before it.                                        *)
THEOREM OneOutstandingHolds == Spec => []OneOutstanding
<1>1. ASSUME NEW s, NEW f PROVE Cardinality({s, f}) <= 2
  <2>1. IsFiniteSet({f}) /\ Cardinality({f}) = 1
    BY FS_Singleton
  <2>2. {s, f} = {f} \cup {s}
    OBVIOUS
  <2>3. Cardinality({f} \cup {s}) = IF s \in {f} THEN 1 ELSE 1 + 1
    BY <2>1, FS_AddElement
  <2>4. QED
    BY <2>2, <2>3
<1>2. IInv => OneOutstanding
  BY <1>1 DEF IInv, DiskInv, OneOutstanding
<1>3. QED
  BY <1>2, Invariant, PTL

(* No two live dispatches hold the same id: allocation and reservation     *)
(* respect every record and intent, whatever old copies of an intent are   *)
(* restored, written back or removed, except an id whose protection one of *)
(* those removals took away.                                               *)
THEOREM DistinctClaimsHold == Spec => []DistinctClaims
<1>1. IInv => DistinctClaims
  BY DEF IInv
<1>2. QED
  BY <1>1, Invariant, PTL

(* The version a loss of power may fall back to is one of the two on disk. *)
LEMMA OlderIsOnDisk ==
  ASSUME NEW s, NEW f, NEW o,
         o = IF {s, f} = {f} THEN f ELSE CHOOSE c \in {s, f} : c # f
  PROVE  o = s
<1>1. CASE s = f
  BY <1>1
<1>2. CASE s # f
  <2>1. {s, f} # {f}
    BY <1>2
  <2>2. \E c \in {s, f} : c # f
    BY <1>2
  <2>3. (CHOOSE c \in {s, f} : c # f) \in {s, f} /\ (CHOOSE c \in {s, f} : c # f) # f
    BY <2>2
  <2>4. QED
    BY <2>1, <2>3
<1>3. QED
  BY <1>1, <1>2

LEMMA DiskIsPair == IInv => onDisk = {Older, file} /\ (onDisk = {file} <=> Older = file)
<1> SUFFICES ASSUME IInv
             PROVE  onDisk = {Older, file} /\ (onDisk = {file} <=> Older = file)
  OBVIOUS
<1>1. PICK s \in Map!RefMaps : onDisk = {s, file}
  BY DEF IInv, DiskInv
<1>2. Older = s
  BY <1>1, OlderIsOnDisk DEF Older
<1>3. QED
  BY <1>1, <1>2

(* Every step of the store is one whole update of the abstract map, its    *)
(* settlement, a loss of power, or invisible.                              *)
LEMMA RefinementStep ==
  ASSUME IInv, IInv', [Next]_vars
  PROVE  [Map!Next]_<<file, Older>>
<1>1. /\ onDisk = {Older, file} /\ (onDisk = {file} <=> Older = file)
      /\ onDisk' = {Older', file'} /\ (onDisk' = {file'} <=> Older' = file')
  <2>1. onDisk = {Older, file} /\ (onDisk = {file} <=> Older = file)
    BY DiskIsPair
  <2>2. onDisk' = {Older', file'} /\ (onDisk' = {file'} <=> Older' = file')
    <3>1. PICK s \in Map!RefMaps : onDisk' = {s, file'}
      BY DEF IInv, DiskInv
    <3>2. Older' = s
      BY <3>1, OlderIsOnDisk DEF Older
    <3>3. QED
      BY <3>1, <3>2
  <2>3. QED
    BY <2>1, <2>2
<1>2. ASSUME UNCHANGED <<file, onDisk>> PROVE [Map!Next]_<<file, Older>>
  BY <1>2 DEF Older
<1>3. ASSUME UNCHANGED file, onDisk' = {file} PROVE [Map!Next]_<<file, Older>>
  BY <1>1, <1>3 DEF Map!Next, Map!Settle
<1>4. ASSUME NEW p \in Proc,
             LockRecords(p) \/ LockForIntent(p) \/ ReadRecords(p) \/ RetryFails(p)
      PROVE  [Map!Next]_<<file, Older>>
  BY <1>2, <1>3, <1>4
     DEF LockRecords, LockForIntent, ReadRecords, RetryFails
<1>5. ASSUME NEW p \in Proc, Operation(p) PROVE [Map!Next]_<<file, Older>>
  BY <1>2, <1>5 DEF Allocate, Reserve, AllocateReserved, InsertReserved, Patch,
     Tombstone, DiscardUnacknowledged, PruneTombstones
<1>6. ASSUME NEW p \in Proc, ReadOnly(p) \/ TransferDirectoryDurability(p)
      PROVE  [Map!Next]_<<file, Older>>
  BY <1>2, <1>6 DEF ReadOnly, TransferDirectoryDurability
<1>7. ASSUME NEW p \in Proc, Replace(p) PROVE [Map!Next]_<<file, Older>>
  <2>1. CASE \/ MarkPending(p) \/ WriteTemporary(p) \/ SyncTemporary(p)
             \/ WriteFails(p) \/ Acknowledge(p) \/ LeavePending(p)
    BY <1>2, <2>1 DEF MarkPending, WriteTemporary, SyncTemporary, WriteFails,
       Acknowledge, LeavePending
  <2>2. CASE SyncDirectory(p)
    BY <1>3, <2>2 DEF SyncDirectory
  <2>3. CASE Rename(p)
    <3>1. /\ onDisk = {file} /\ Map!OneUpdate(file, buf[p])
          /\ file' = buf[p] /\ onDisk' = {file, file'}
      BY <2>3 DEF Rename, IInv, StepInv
    <3>2. Older = file /\ Older' = file
      BY <1>1, <3>1
    <3>3. QED
      BY <3>1, <3>2 DEF Map!Next, Map!Update
  <2>4. QED
    BY <1>7, <2>1, <2>2, <2>3
<1>8. ASSUME NEW p \in Proc, IntentStep(p) \/ CopyStep(p) PROVE [Map!Next]_<<file, Older>>
  BY <1>2, <1>8 DEF PickCandidate, ReserveIntent, ReserveIntentFails,
     PersistIntent, AbandonIntent, EndDispatch, ReadIntent, PersistCopy,
     RemoveIntent, KeepIntent
<1>9. ASSUME NEW p \in Proc, Crash(p) PROVE [Map!Next]_<<file, Older>>
  BY <1>2, <1>9 DEF Crash
<1>10. CASE PowerLoss
  BY <1>1, <1>10 DEF PowerLoss, Map!Next, Map!PowerLoss
<1>11. CASE UNCHANGED vars
  BY <1>2, <1>11 DEF vars
<1>12. QED
  BY <1>4, <1>5, <1>6, <1>7, <1>8, <1>9, <1>10, <1>11 DEF Next

(* The store, with its lock, marker, temporary files, deaths and losses of *)
(* power, implements one map that changes by whole updates.                *)
THEOREM Refinement == Spec => RefMapSpec
<1>1. Init => Map!Init
  BY DEF Init, Map!Init, NoRecords, Older
<1>2. IInv /\ IInv' /\ [Next]_vars => [Map!Next]_<<file, Older>>
  BY RefinementStep
<1>3. QED
  BY <1>1, <1>2, Invariant, PTL DEF Spec, RefMapSpec, Map!Spec

=============================================================================

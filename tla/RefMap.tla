------------------------------- MODULE RefMap -------------------------------
(***************************************************************************)
(* What `oca-state` promises of ~/.oca/refs.json, with no process, lock or *)
(* file in sight: one map from ref ids to records that changes by whole    *)
(* updates, of which at most one at a time is still waiting for the        *)
(* parent-directory sync.  Losing power exposes the map with or without    *)
(* that one update, never anything else (docs/adr, "Decision").            *)
(***************************************************************************)
CONSTANTS Id,      \* ref ids, `w` and five base-36 digits in the code
          Proc,    \* oca processes, the owners of records
          NoRec    \* the value of an id that has no record

VARIABLES refs,    \* the map every reader sees
          stable   \* the map a loss of power is sure to preserve

RecordOf == [owner: Proc, message: BOOLEAN, tombstoned: BOOLEAN]

RefMaps == [Id -> RecordOf \cup {NoRec}]

(* One update of the map: a new record, a patch, a tombstone, a discarded  *)
(* reservation, or the removal of every tombstone.  No update gives an id  *)
(* that has a record to another owner.                                     *)
Inserts(old, new) ==
  \E i \in Id, r \in RecordOf : old[i] = NoRec /\ new = [old EXCEPT ![i] = r]

Rewrites(old, new) ==
  \E i \in Id, r \in RecordOf :
    /\ old[i] # NoRec
    /\ r.owner = old[i].owner
    /\ old[i].message => r.message
    /\ old[i].tombstoned => r.tombstoned
    /\ new = [old EXCEPT ![i] = r]

Discards(old, new) ==
  \E i \in Id :
    /\ old[i] # NoRec
    /\ ~old[i].message
    /\ new = [old EXCEPT ![i] = NoRec]

Prunes(old, new) ==
  new = [i \in Id |-> IF old[i] # NoRec /\ old[i].tombstoned
                      THEN NoRec ELSE old[i]]

OneUpdate(old, new) ==
  Inserts(old, new) \/ Rewrites(old, new) \/ Discards(old, new) \/ Prunes(old, new)

Init == /\ refs = [i \in Id |-> NoRec]
        /\ stable = refs

(* The second update waits until the first can no longer be lost. *)
Update == /\ stable = refs
          /\ OneUpdate(refs, refs')
          /\ UNCHANGED stable

Settle == stable' = refs /\ UNCHANGED refs

PowerLoss == /\ refs' \in {refs, stable}
             /\ stable' = refs'

Next == Update \/ Settle \/ PowerLoss

Spec == Init /\ [][Next]_<<refs, stable>>
=============================================================================

----------------------------- MODULE MCRefStore -----------------------------
(* Two processes and two ids: enough for one process to allocate, patch,    *)
(* tombstone or discard while the other reserves, recovers, dies or retries. *)
EXTENDS RefStore, TLC

Symmetry == Permutations(Proc) \cup Permutations(Id)
=============================================================================

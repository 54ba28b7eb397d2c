----------------------------- MODULE MCDispatch -----------------------------
(* One dispatch, the operator's commands on its ref, and two messages: the *)
(* dispatch's own and one more, by `oca m` or `oca q`.                     *)
EXTENDS Dispatch, TLC

Symmetry == Permutations(Operators)
=============================================================================

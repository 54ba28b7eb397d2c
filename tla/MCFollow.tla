------------------------------- MODULE MCFollow -------------------------------
(* `oca f` without a timeout on a server whose events have ids but which     *)
(* replays none of them (OpenCode 1.18.10), and whose history can be read.   *)
EXTENDS Follow

MCSetups ==
  {[turn |-> Short, replays |-> FALSE, ids |-> TRUE, readable |-> TRUE,
    classified |-> TRUE, explicit |-> FALSE, display |-> "none", close |-> FALSE]}
=============================================================================

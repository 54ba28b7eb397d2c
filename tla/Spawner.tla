------------------------------- MODULE Spawner -------------------------------
(***************************************************************************)
(* The tag by which `oca ls` knows the workers of one spawner                *)
(* (crates/oca-cli/src/scope.rs). Without a variable of the environment it    *)
(* is drawn at random once and kept in ~/.oca/spawner, which the first        *)
(* processes of a host may all try to write at once.                         *)
(***************************************************************************)
EXTENDS Naturals

CONSTANTS Asker,    \* processes that need the tag
          Tag       \* what may be drawn

ASSUME TagAssumption == {"absent", "empty"} \cap Tag = {}

VARIABLES
  spawner,    \* the file: "absent", "empty" or a tag
  asks,       \* where each process is
  drawn,      \* the tag it drew, and then the one it goes by
  inherits       \* the environment names the spawner of this process

spawnerVars == <<spawner, asks, drawn, inherits>>

SpawnerInit ==
  /\ spawner \in Tag \cup {"absent"}
  /\ asks = [p \in Asker |-> "env"] /\ drawn = [p \in Asker |-> "none"]
  /\ inherits \in [Asker -> BOOLEAN]

Ask(p, from, to) == asks[p] = from /\ asks' = [asks EXCEPT ![p] = to]

(* OCA_SPAWNER, then the variables of a harness.                             *)
ReadEnvironment(p) ==
  /\ Ask(p, "env", IF inherits[p] THEN "named" ELSE "read")
  /\ UNCHANGED <<spawner, drawn, inherits>>

(* A file that is there but empty is taken for one that is missing.           *)
ReadTag(p) ==
  /\ Ask(p, "read", IF spawner \in Tag THEN "tagged" ELSE "create")
  /\ \E t \in Tag : drawn' = [drawn EXCEPT ![p] = IF spawner \in Tag THEN spawner ELSE t]
  /\ UNCHANGED <<spawner, inherits>>

(* Mutant of CreateTag: the file is opened with create and truncate.         *)
CreateTruncating(p) ==
  /\ Ask(p, "create", "write") /\ spawner' = "empty" /\ UNCHANGED <<drawn, inherits>>

(* create_new: one process makes the file, the others read it again.          *)
CreateTag(p) ==
  \/ spawner = "absent" /\ Ask(p, "create", "write") /\ spawner' = "empty"
     /\ UNCHANGED <<drawn, inherits>>
  \/ spawner # "absent" /\ Ask(p, "create", "again") /\ UNCHANGED <<spawner, drawn, inherits>>

WriteTag(p) ==
  /\ Ask(p, "write", "tagged") /\ spawner' = drawn[p] /\ UNCHANGED <<drawn, inherits>>

(* The second reader fails on a file whose maker has not written it yet.     *)
ReadTagAgain(p) ==
  /\ Ask(p, "again", IF spawner \in Tag THEN "tagged" ELSE "failed")
  /\ drawn' = [drawn EXCEPT ![p] = IF spawner \in Tag THEN spawner ELSE "none"]
  /\ UNCHANGED <<spawner, inherits>>

(* Killed between create and write, the maker leaves the file empty.         *)
KillAsker(p) ==
  /\ asks[p] \in {"read", "create", "write", "again"}
  /\ asks' = [asks EXCEPT ![p] = "dead"] /\ UNCHANGED <<spawner, drawn, inherits>>

SpawnerNext ==
  \E p \in Asker :
    \/ ReadEnvironment(p) \/ ReadTag(p) \/ CreateTag(p) \/ WriteTag(p)
    \/ ReadTagAgain(p) \/ KillAsker(p)

SpawnerSpec == SpawnerInit /\ [][SpawnerNext]_spawnerVars

-----------------------------------------------------------------------------
SpawnerTypeOK ==
  /\ spawner \in Tag \cup {"absent", "empty"}
  /\ asks \in [Asker -> {"env", "named", "read", "create", "write", "again", "tagged",
                         "failed", "dead"}]
  /\ drawn \in [Asker -> Tag \cup {"none"}] /\ inherits \in [Asker -> BOOLEAN]

(* Workers that different processes of one host dispatch at the same time are  *)
(* listed together: every process that goes on with a tag from ~/.oca/spawner  *)
(* has the tag that the file keeps, whoever drew it, and whoever was killed    *)
(* in between (scope.rs, spawner_tag).                                       *)
OneSpawner == \A p \in Asker : asks[p] = "tagged" => spawner = drawn[p]
(* Why it holds: one process makes the file, and once it names a tag nobody   *)
(* writes it any more.                                                       *)
SpawnerInv ==
  /\ SpawnerTypeOK
  /\ \A p, q \in Asker : asks[p] = "write" /\ asks[q] = "write" => p = q
  /\ \A p \in Asker :
       /\ asks[p] = "write" => spawner = "empty"
       /\ asks[p] \in {"create", "write"} => drawn[p] \in Tag
       /\ asks[p] = "tagged" => spawner \in Tag
  /\ OneSpawner
=============================================================================

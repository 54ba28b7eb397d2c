----------------------------- MODULE HostProofs -----------------------------
(***************************************************************************)
(* The parts of a host, each for any number of processes and any data: what   *)
(* publication and the validation before it guarantee, the spawner tag, the   *)
(* locks of the event journal, and for any turn what a follow journals and    *)
(* attributes, and what the helper around it does with the display; and the   *)
(* types of all that.                                                       *)
(***************************************************************************)
EXTENDS Publication, Headed, Journal, Spawner, NaturalsInduction, WellFoundedInduction,
        SequenceTheorems, TLAPS

-----------------------------------------------------------------------------
(* Publication.                                                             *)

LEMMA RefusalCases ==
  \A verb, s : Refusal(verb, s) \in {"none", "publish_disabled",
                 "publish_branch_forbidden", "publish_remote_missing"}
  BY DEF Refusal

LEMMA InitPublication == PublicationInit => PublicationInv
  BY EditAssumption
  DEF PublicationInit, PublicationInv, PublicationTypeOK, Content, Phase, CommandPlaces,
     CountInv, EmptyInv, Unspoilt, Late, Sneaks, Validating, Finalizing, Before, TraceInv,
     GateInv, PullHasBranch

(* The types.                                                               *)
Outcome ==
  {"none", "ok", "worktree_empty", "zero_byte_output", "worktree_dirty", "publish_failed",
   "publish_disabled", "publish_branch_forbidden", "publish_remote_missing"}

LEMMA MoveTypes ==
  ASSUME PublicationTypeOK, NEW p \in Command, NEW from, NEW to \in CommandPlaces,
         NEW result \in Outcome
  PROVE  /\ Move(p, from, to) => place' \in [Command -> CommandPlaces]
         /\ Conclude(p, from, result) =>
              place' \in [Command -> CommandPlaces] /\ ended' \in [Command -> Outcome]
         /\ \A ok : Check(p, from, ok, to, result) =>
              place' \in [Command -> CommandPlaces] /\ ended' \in [Command -> Outcome]
<1>1. Move(p, from, to) => place' \in [Command -> CommandPlaces]
  BY DEF Move, PublicationTypeOK
<1>2. ended \in [Command -> Outcome]
  BY DEF PublicationTypeOK, Outcome
<1>3. Conclude(p, from, result) =>
        place' \in [Command -> CommandPlaces] /\ ended' \in [Command -> Outcome]
  BY <1>2 DEF Conclude, Move, PublicationTypeOK, CommandPlaces
<1>4. QED
  BY <1>1, <1>2, <1>3 DEF Check

LEMMA NamedPlaces ==
  /\ {"read", "scan", "sizes", "stage", "rescan", "resizes", "diff", "commit", "store",
      "patch", "check", "gate", "clean", "trace", "exists", "push", "list", "open",
      "settle", "ended", "killed"} \subseteq CommandPlaces
  /\ {"none", "ok", "worktree_empty", "zero_byte_output", "worktree_dirty", "publish_failed",
      "publish_disabled", "publish_branch_forbidden", "publish_remote_missing"}
       \subseteq Outcome
  BY DEF CommandPlaces, Outcome

LEMMA TakesType ==
  ASSUME PublicationTypeOK, NEW p \in Command, TakesIntent(p)
  PROVE  crossed' \subseteq Command
  BY DEF PublicationTypeOK, TakesIntent

LEMMA FinalizeTypes ==
  ASSUME PublicationTypeOK, NEW p \in Command, Finalize(p)
  PROVE  PublicationTypeOK'
<1> USE NamedPlaces, MoveTypes, TakesType DEF PublicationTypeOK, contents, Outcome
<1>1. CASE ReadTurn(p)
  BY <1>1 DEF ReadTurn, Phase
<1>2. CASE FirstScan(p)
  <2>1. place' \in [Command -> CommandPlaces] /\ ended' \in [Command -> Outcome]
    BY <1>2 DEF FirstScan
  <2>2. scanned' \in [Command -> SUBSET Product]
    BY <1>2 DEF FirstScan, Changed
  <2>3. racing' = racing
    BY <1>2 DEF FirstScan
  <2>4. QED
    BY <1>2, <2>1, <2>2, <2>3 DEF FirstScan, validating
<1>3. CASE Sizes(p)
  BY <1>3 DEF Sizes, validating
<1>4. CASE StageFiles(p)
  BY <1>4 DEF StageFiles
<1>5. CASE Rescan(p)
  <2>1. rushing' \in [Command -> 0..MaxEdits]
    BY <1>5, EditAssumption DEF Rescan
  <2>2. QED
    BY <1>5, <2>1 DEF Rescan, validating, Changed
<1>6. CASE Resizes(p)
  BY <1>6 DEF Resizes, validating
<1>7. CASE Diff(p)
  <2>1. place' \in [Command -> CommandPlaces] /\ ended' \in [Command -> Outcome]
    BY <1>7 DEF Diff
  <2>2. intent' \in Phase /\ crossed' \subseteq Command
    BY <1>7 DEF Diff, Phase
  <2>3. QED
    BY <1>7, <2>1, <2>2 DEF Diff
<1>8. CASE Commit(p)
  <2>1. tip' \in Nat /\ tip <= tip'
    BY <1>8 DEF Commit
  <2>2. named' \in [Command -> 0..tip']
    BY <1>8, <2>1 DEF Commit
  <2>3. place' \in [Command -> CommandPlaces] /\ ended' \in [Command -> Outcome]
    BY <1>8 DEF Commit
  <2>4. QED
    BY <1>8, <2>1, <2>2, <2>3 DEF Commit
<1>9. CASE StoreCommit(p)
  <2>1. intent' \in Phase /\ crossed' \subseteq Command
    BY <1>9 DEF StoreCommit, Phase
  <2>2. QED
    BY <1>9, <2>1 DEF StoreCommit
<1>10. CASE PatchRecord(p)
  BY <1>10 DEF PatchRecord
<1>11. QED
  BY <1>1, <1>2, <1>3, <1>4, <1>5, <1>6, <1>7, <1>8, <1>9, <1>10 DEF Finalize

LEMMA PublishTypes ==
  ASSUME PublicationTypeOK, tip >= 1, NEW p \in Command, Publish(p) \/ Settle(p)
  PROVE  PublicationTypeOK'
<1> USE NamedPlaces, MoveTypes, TakesType DEF PublicationTypeOK, contents, publishing, Outcome
<1>1. CASE Resolve(p)
  BY <1>1 DEF Resolve
<1>2. CASE Gate(p)
  <2>1. Refusal(kind[p], settings) \in Outcome
    BY RefusalCases
  <2>2. place' \in [Command -> CommandPlaces] /\ ended' \in [Command -> Outcome]
    <3> HIDE DEF Outcome
    <3>1. Check(p, "gate", Refusal(kind[p], settings) = "none", "clean",
                Refusal(kind[p], settings))
      BY <1>2 DEF Gate
    <3>2. QED
      BY <2>1, <3>1
  <2>3. QED
    BY <1>2, <2>2 DEF Gate
<1>3. CASE RequireClean(p)
  BY <1>3 DEF RequireClean
<1>4. CASE Trace(p)
  BY <1>4 DEF Trace, Phase
<1>5. CASE BranchExists(p)
  BY <1>5 DEF BranchExists
<1>6. CASE Push(p)
  BY <1>6 DEF Push
<1>7. CASE ListPulls(p)
  BY <1>7 DEF ListPulls
<1>8. CASE OpenPull(p)
  <2>1. named[p] \in 1..tip
    BY <1>8 DEF OpenPull
  <2>2. QED
    BY <1>8, <2>1 DEF OpenPull
<1>9. CASE PublishFails(p)
  <2>1. place' \in [Command -> CommandPlaces] /\ ended' \in [Command -> Outcome]
    <3> HIDE DEF Outcome
    <3>1. Conclude(p, place[p], "publish_failed")
      BY <1>9 DEF PublishFails
    <3>2. QED
      BY <3>1
  <2>2. remote' \in 0..tip /\ pulls' \subseteq 1..tip /\ touched' \subseteq Command
    <3>1. \/ UNCHANGED <<remote, pulls, touched>>
          \/ remote' = tip /\ touched' = touched \cup {p} /\ pulls' = pulls
          \/ /\ named[p] # 0 /\ pulls' = {named[p]}
             /\ touched' = touched \cup {p} /\ remote' = remote
      BY <1>9 DEF PublishFails
    <3>2. named[p] # 0 => named[p] \in 1..tip
      OBVIOUS
    <3>3. /\ tip \in Nat /\ tip \in 0..tip /\ remote \in 0..tip
          /\ pulls \subseteq 1..tip /\ touched \subseteq Command
      OBVIOUS
    <3> HIDE DEF PublicationTypeOK
    <3>4. remote' \in 0..tip
      BY <3>1, <3>3
    <3>5. pulls' \subseteq 1..tip
      BY <3>1, <3>2, <3>3
    <3>6. touched' \subseteq Command
      BY <3>1, <3>3
    <3>7. QED
      BY <3>4, <3>5, <3>6
  <2>3. QED
    BY <1>9, <2>1, <2>2 DEF PublishFails
<1>10. CASE Settle(p)
  BY <1>10 DEF Settle, Phase
<1>11. QED
  BY <1>1, <1>2, <1>3, <1>4, <1>5, <1>6, <1>7, <1>8, <1>9, <1>10 DEF Publish

(* The counters of the worker's writes keep to their bound.                 *)
LEMMA WorkerTypes ==
  ASSUME PublicationTypeOK, CountInv, NEW f \in Product, NEW content \in Content, Edit(f, content)
  PROVE  PublicationTypeOK'
<1>1. edits + 1 \in 0..MaxEdits
  BY EditAssumption DEF PublicationTypeOK, Edit
<1>2. ASSUME NEW i \in Nat, i <= edits PROVE i + 1 \in 0..MaxEdits /\ i + 0 \in 0..MaxEdits
  BY <1>1, <1>2, EditAssumption DEF PublicationTypeOK
<1>3. ASSUME NEW p \in Command
      PROVE  racing[p] \in Nat /\ racing[p] <= edits /\ rushing[p] \in Nat /\ rushing[p] <= edits
  BY EditAssumption DEF PublicationTypeOK, CountInv
<1>4. racing' \in [Command -> 0..MaxEdits] /\ rushing' \in [Command -> 0..MaxEdits]
  BY <1>2, <1>3 DEF Edit
<1>5. QED
  BY <1>1, <1>4 DEF PublicationTypeOK, Edit

LEMMA NextPublicationTypes ==
  PublicationInv /\ [PublicationNext]_pubVars => PublicationTypeOK' /\ tip' >= 1
<1> SUFFICES ASSUME PublicationInv, [PublicationNext]_pubVars
             PROVE  PublicationTypeOK' /\ tip' >= 1
  OBVIOUS
<1>1. PublicationTypeOK /\ tip >= 1 /\ CountInv
  BY DEF PublicationInv
<1>2. tip' = tip \/ tip' = tip + 1
  BY DEF PublicationNext, Finalize, Publish, ReadTurn, FirstScan, Sizes, StageFiles,
     Rescan, Resizes, Diff, Commit, StoreCommit, PatchRecord, Resolve, Gate,
     RequireClean, Trace, BranchExists, Push, ListPulls, OpenPull, PublishFails, Settle,
     Edit, KillCommand, validating, publishing, pubVars
<1>3. tip' >= 1
  BY <1>1, <1>2 DEF PublicationTypeOK
<1>4. ASSUME NEW p \in Command, KillCommand(p) PROVE PublicationTypeOK'
  BY <1>1, <1>4 DEF KillCommand, PublicationTypeOK, contents, CommandPlaces
<1>5. CASE UNCHANGED pubVars
  BY <1>1, <1>5 DEF pubVars, contents, locals, PublicationTypeOK
<1>6. QED
  BY <1>1, <1>3, <1>4, <1>5, FinalizeTypes, PublishTypes, WorkerTypes DEF PublicationNext

(* The branch, the grant and the trace.                                     *)
LEMMA NextGate ==
  PublicationInv /\ [PublicationNext]_pubVars => GateInv' /\ PullHasBranch'
<1> SUFFICES ASSUME PublicationInv, [PublicationNext]_pubVars
             PROVE  GateInv' /\ PullHasBranch'
  OBVIOUS
<1>1. PublicationTypeOK /\ tip >= 1 /\ GateInv /\ PullHasBranch
  BY DEF PublicationInv
<1> USE DEF GateInv, PullHasBranch, Move, Conclude, Check
<1>2. CASE UNCHANGED pubVars
  BY <1>1, <1>2 DEF pubVars, locals
<1>3. ASSUME NEW p \in Command, Finalize(p) PROVE GateInv' /\ PullHasBranch'
  <2>1. UNCHANGED <<settings, kind, remote, pulls>>
    BY <1>3 DEF Finalize, ReadTurn, FirstScan, Sizes, StageFiles, Rescan, Resizes, Diff,
       Commit, StoreCommit, PatchRecord, validating
  <2>2. place' = [place EXCEPT ![p] = place'[p]] /\ place'[p] \in Finalizing \cup {"settle", "ended"}
    BY <1>1, <1>3 DEF Finalize, ReadTurn, FirstScan, Sizes, StageFiles, Rescan, Resizes,
       Diff, Commit, StoreCommit, PatchRecord, PublicationTypeOK, Finalizing, Before
  <2>3. QED
    BY <1>1, <2>1, <2>2 DEF PublicationTypeOK, Finalizing, Before
<1>4. ASSUME NEW p \in Command, Resolve(p) \/ Gate(p) \/ RequireClean(p) \/ Trace(p)
      PROVE GateInv' /\ PullHasBranch'
  <2>1. UNCHANGED <<settings, kind, remote, pulls>>
    BY <1>4 DEF Resolve, Gate, RequireClean, Trace, publishing
  <2>2. place' = [place EXCEPT ![p] = place'[p]]
        /\ place'[p] \in {"gate", "clean", "trace", "push", "exists", "ended"}
        /\ (place'[p] \in {"clean", "trace", "push", "exists"} =>
              Refusal(kind[p], settings) = "none")
    BY <1>1, <1>4 DEF Resolve, Gate, RequireClean, Trace, PublicationTypeOK
  <2>3. QED
    BY <1>1, <2>1, <2>2 DEF PublicationTypeOK
<1>5. ASSUME NEW p \in Command, BranchExists(p) \/ Push(p) \/ ListPulls(p) \/ OpenPull(p)
      PROVE GateInv' /\ PullHasBranch'
  BY <1>1, <1>5 DEF BranchExists, Push, ListPulls, OpenPull, publishing, PublicationTypeOK
<1>6. ASSUME NEW p \in Command, PublishFails(p) \/ Settle(p) \/ KillCommand(p)
      PROVE GateInv' /\ PullHasBranch'
  BY <1>1, <1>6 DEF PublishFails, Settle, KillCommand, publishing, PublicationTypeOK
<1>7. ASSUME NEW f \in Product, NEW content \in Content, Edit(f, content)
      PROVE GateInv' /\ PullHasBranch'
  BY <1>1, <1>7 DEF Edit
<1>8. QED
  BY <1>2, <1>3, <1>4, <1>5, <1>6, <1>7 DEF PublicationNext, Publish

LEMMA NextTrace ==
  PublicationInv /\ [PublicationNext]_pubVars => TraceInv'
<1> SUFFICES ASSUME PublicationInv, [PublicationNext]_pubVars
             PROVE  TraceInv'
  OBVIOUS
<1>1. PublicationTypeOK /\ TraceInv
  BY DEF PublicationInv
<1> USE DEF TraceInv, Move, Conclude, Check
<1>2. CASE UNCHANGED pubVars
  BY <1>1, <1>2 DEF pubVars, locals
<1>3. ASSUME NEW p \in Command, Finalize(p) PROVE TraceInv'
  <2>1. touched' = touched /\ p \notin touched
    BY <1>1, <1>3 DEF Finalize, ReadTurn, FirstScan, Sizes, StageFiles, Rescan, Resizes,
       Diff, Commit, StoreCommit, PatchRecord, validating
  <2>2. place' = [place EXCEPT ![p] = place'[p]] /\ place'[p] \in Finalizing \cup {"settle", "ended"}
    BY <1>1, <1>3 DEF Finalize, ReadTurn, FirstScan, Sizes, StageFiles, Rescan, Resizes,
       Diff, Commit, StoreCommit, PatchRecord, PublicationTypeOK, Finalizing, Before
  <2>3. UNCHANGED <<intent, crossed>> \/ TakesIntent(p)
    BY <1>3 DEF Finalize, ReadTurn, FirstScan, Sizes, StageFiles, Rescan, Resizes,
       Diff, Commit, StoreCommit, PatchRecord, validating
  <2>4. QED
    BY <1>1, <2>1, <2>2, <2>3 DEF PublicationTypeOK, TakesIntent, Finalizing, Before
<1>4. ASSUME NEW p \in Command, Resolve(p) \/ Gate(p) \/ RequireClean(p)
      PROVE TraceInv'
  BY <1>1, <1>4 DEF Resolve, Gate, RequireClean, publishing, PublicationTypeOK
<1>5. ASSUME NEW p \in Command, Trace(p) PROVE TraceInv'
  BY <1>1, <1>5 DEF Trace, TakesIntent, publishing, PublicationTypeOK
<1>6. ASSUME NEW p \in Command, BranchExists(p) \/ Push(p) \/ ListPulls(p) \/ OpenPull(p)
      PROVE TraceInv'
  BY <1>1, <1>6 DEF BranchExists, Push, ListPulls, OpenPull, publishing, PublicationTypeOK
<1>7. ASSUME NEW p \in Command, PublishFails(p) PROVE TraceInv'
  BY <1>1, <1>7 DEF PublishFails, publishing, PublicationTypeOK
<1>8. ASSUME NEW p \in Command, Settle(p) PROVE TraceInv'
  BY <1>1, <1>8 DEF Settle, TakesIntent, publishing, PublicationTypeOK
<1>9. ASSUME NEW p \in Command, KillCommand(p) PROVE TraceInv'
  BY <1>1, <1>9 DEF KillCommand, PublicationTypeOK
<1>10. ASSUME NEW f \in Product, NEW content \in Content, Edit(f, content) PROVE TraceInv'
  BY <1>1, <1>10 DEF Edit
<1>11. QED
  BY <1>2, <1>3, <1>4, <1>5, <1>6, <1>7, <1>8, <1>9, <1>10 DEF PublicationNext, Publish

(* What the worker must do to smuggle an empty file into a commit.           *)
LEMMA SneakTypes ==
  ASSUME PublicationTypeOK
  PROVE  /\ edits \in Nat
         /\ \A p \in Command : racing[p] \in Nat
         /\ \A p \in Command : rushing[p] \in Nat
  BY EditAssumption DEF PublicationTypeOK

(* What a step of a command does to the others' places, scans and counts.    *)
LEMMA FinalizeLeaves ==
  ASSUME PublicationTypeOK, NEW p \in Command, Finalize(p)
  PROVE  /\ UNCHANGED <<work, edits, kind, racing>>
         /\ place[p] \in Finalizing
         /\ place' = [place EXCEPT ![p] = place'[p]]
         /\ \A q \in Command \ {p} : /\ scanned'[q] = scanned[q] /\ again'[q] = again[q]
                                     /\ rushing'[q] = rushing[q] /\ named'[q] = named[q]
         /\ shared \subseteq shared'
<1> USE DEF PublicationTypeOK, Move, Conclude, Check, Finalizing, Before, contents, validating
<1>1. CASE ReadTurn(p) \/ FirstScan(p) \/ Sizes(p)
  BY <1>1 DEF ReadTurn, FirstScan, Sizes
<1>2. CASE StageFiles(p)
  BY <1>2 DEF StageFiles
<1>3. CASE Rescan(p) \/ Resizes(p)
  BY <1>3 DEF Rescan, Resizes
<1>4. CASE Diff(p)
  BY <1>4 DEF Diff
<1>5. CASE Commit(p)
  BY <1>5 DEF Commit
<1>6. CASE StoreCommit(p) \/ PatchRecord(p)
  BY <1>6 DEF StoreCommit, PatchRecord
<1>7. QED
  BY <1>1, <1>2, <1>3, <1>4, <1>5, <1>6 DEF Finalize

LEMMA PublishLeaves ==
  ASSUME PublicationTypeOK, NEW p \in Command, Publish(p) \/ Settle(p) \/ KillCommand(p)
  PROVE  /\ UNCHANGED <<contents, kind, scanned, again, racing, rushing, shared, edits>>
         /\ place' = [place EXCEPT ![p] = place'[p]]
         /\ place'[p] \notin Finalizing /\ place'[p] # "check"
         /\ \/ named' = named
            \/ place[p] = "check" /\ named' = [named EXCEPT ![p] = recorded]
<1>a. place \in [Command -> CommandPlaces]
  BY DEF PublicationTypeOK
<1>1. UNCHANGED <<contents, kind, scanned, again, racing, rushing, shared, edits>>
  BY DEF Publish, Resolve, Gate, RequireClean, Trace, BranchExists, Push, ListPulls, OpenPull,
     PublishFails, Settle, KillCommand, publishing
<1>2. \/ named' = named
      \/ place[p] = "check" /\ named' = [named EXCEPT ![p] = recorded]
  BY DEF Publish, Resolve, Gate, RequireClean, Trace, BranchExists, Push, ListPulls, OpenPull,
     PublishFails, Settle, KillCommand, Check, Move, Conclude
<1>3. /\ place' = [place EXCEPT ![p] = place'[p]]
      /\ place'[p] \notin Finalizing /\ place'[p] # "check"
  <2> USE <1>a DEF Move, Conclude, Check, Finalizing, Before
  <2>1. CASE Resolve(p) \/ Gate(p)
    BY <2>1 DEF Resolve, Gate
  <2>2. CASE RequireClean(p) \/ Trace(p)
    BY <2>2 DEF RequireClean, Trace
  <2>3. CASE BranchExists(p) \/ Push(p) \/ ListPulls(p)
    BY <2>3 DEF BranchExists, Push, ListPulls
  <2>4. CASE OpenPull(p) \/ Settle(p) \/ KillCommand(p)
    BY <2>4 DEF OpenPull, Settle, KillCommand
  <2>5. CASE PublishFails(p)
    <3>1. Conclude(p, place[p], "publish_failed")
      BY <2>5 DEF PublishFails
    <3>2. QED
      BY <3>1
  <2>6. QED
    BY <2>1, <2>2, <2>3, <2>4, <2>5 DEF Publish
<1>4. QED
  BY <1>1, <1>2, <1>3

LEMMA EditLeaves ==
  ASSUME PublicationTypeOK, NEW f \in Product, NEW content \in Content, Edit(f, content)
  PROVE  /\ UNCHANGED <<index, head, kind, place, scanned, again, named, shared>>
         /\ edits' = edits + 1
         /\ \A p \in Command :
              IF place[p] \in Validating
              THEN racing'[p] = racing[p] + 1 /\ rushing'[p] = rushing[p] + 1
              ELSE racing'[p] = racing[p] /\ rushing'[p] = rushing[p]
<1>1. ASSUME NEW p \in Command PROVE racing[p] + 0 = racing[p] /\ rushing[p] + 0 = rushing[p]
  BY SneakTypes
<1>2. QED
  BY <1>1 DEF Edit

(* Where the last step of a finalizer leads.                                *)
LEMMA FinalizePlaces ==
  ASSUME PublicationTypeOK, NEW p \in Command, Finalize(p)
  PROVE  /\ place'[p] \in Finalizing \cup {"settle", "ended"}
         /\ place'[p] = "scan" => place[p] = "read"
         /\ place'[p] # "read"
         /\ place'[p] \in Validating => place[p] \in {"scan"} \cup Validating
         /\ place[p] \in {"read", "scan"} \cup Validating /\ place[p] # "commit" =>
              named'[p] = named[p]
         /\ place[p] = "commit" => place'[p] \in {"store", "ended"}
         /\ place[p] \in {"store", "patch"} => named'[p] = named[p]
         /\ rushing'[p] = rushing[p] \/ (place[p] = "rescan" /\ rushing'[p] = 0)
<1>a. place \in [Command -> CommandPlaces] /\ rushing \in [Command -> 0..MaxEdits]
  BY DEF PublicationTypeOK
<1> USE DEF Move, Conclude, Check
<1>1. CASE ReadTurn(p)
  <2>1. place[p] = "read" /\ place'[p] = "scan"
        /\ UNCHANGED <<named, rushing>>
    BY <1>1, <1>a DEF ReadTurn
  <2>2. QED
    BY <2>1 DEF Finalizing, Before, Validating
<1>2. CASE FirstScan(p)
  <2>1. place[p] = "scan" /\ place'[p] \in {"sizes", "ended"}
        /\ UNCHANGED <<named, rushing>>
    BY <1>2, <1>a DEF FirstScan, validating
  <2>2. QED
    BY <2>1 DEF Finalizing, Before, Validating
<1>3. CASE Sizes(p)
  <2>1. place[p] = "sizes" /\ place'[p] \in {"stage", "ended"}
        /\ UNCHANGED <<named, rushing>>
    BY <1>3, <1>a DEF Sizes, validating
  <2>2. QED
    BY <2>1 DEF Finalizing, Before, Validating
<1>4. CASE StageFiles(p)
  <2>1. place[p] = "stage" /\ place'[p] = "rescan"
        /\ UNCHANGED <<named, rushing>>
    BY <1>4, <1>a DEF StageFiles
  <2>2. QED
    BY <2>1 DEF Finalizing, Before, Validating
<1>5. CASE Resizes(p)
  <2>1. place[p] = "resizes" /\ place'[p] \in {"diff", "ended"}
        /\ UNCHANGED <<named, rushing>>
    BY <1>5, <1>a DEF Resizes, validating
  <2>2. QED
    BY <2>1 DEF Finalizing, Before, Validating
<1>6. CASE Diff(p)
  <2>1. place[p] = "diff" /\ place'[p] \in {"commit", "ended"}
        /\ UNCHANGED <<named, rushing>>
    BY <1>6, <1>a DEF Diff
  <2>2. QED
    BY <2>1 DEF Finalizing, Before, Validating
<1>7. CASE StoreCommit(p)
  <2>1. place[p] = "store" /\ place'[p] = "patch"
        /\ UNCHANGED <<named, rushing>>
    BY <1>7, <1>a DEF StoreCommit
  <2>2. QED
    BY <2>1 DEF Finalizing, Before, Validating
<1>8. CASE PatchRecord(p)
  <2>1. place[p] = "patch" /\ place'[p] = "settle"
        /\ UNCHANGED <<named, rushing>>
    BY <1>8, <1>a DEF PatchRecord
  <2>2. QED
    BY <2>1 DEF Finalizing, Before, Validating
<1>9. CASE Rescan(p)
  <2>1. place[p] = "rescan" /\ place'[p] = "resizes" /\ named' = named /\ rushing'[p] = 0
    BY <1>9, <1>a DEF Rescan, validating
  <2>2. QED
    BY <2>1 DEF Finalizing, Before, Validating
<1>10. CASE Commit(p)
  <2>1. place[p] = "commit" /\ place'[p] \in {"store", "ended"} /\ rushing' = rushing
    BY <1>10, <1>a DEF Commit
  <2>2. QED
    BY <2>1 DEF Finalizing, Before, Validating
<1>11. QED
  BY <1>1, <1>2, <1>3, <1>4, <1>5, <1>6, <1>7, <1>8, <1>9, <1>10 DEF Finalize

LEMMA NextCounts == PublicationInv /\ [PublicationNext]_pubVars => CountInv'
<1> SUFFICES ASSUME PublicationInv, [PublicationNext]_pubVars PROVE CountInv'
  OBVIOUS
<1>a. PublicationTypeOK /\ CountInv /\ place \in [Command -> CommandPlaces]
      /\ named \in [Command -> 0..tip]
  BY DEF PublicationInv, PublicationTypeOK
<1>b. edits \in Nat /\ (\A p \in Command : racing[p] \in Nat) /\ (\A p \in Command : rushing[p] \in Nat)
  BY <1>a, SneakTypes
<1>1. CASE UNCHANGED pubVars
  BY <1>a, <1>1 DEF pubVars, contents, locals, CountInv
<1>2. ASSUME NEW p \in Command, Finalize(p) PROVE CountInv'
  <2>1. /\ UNCHANGED <<edits, kind, racing>>
        /\ place[p] \in Finalizing
        /\ \A q \in Command \ {p} : /\ place'[q] = place[q] /\ rushing'[q] = rushing[q]
                                    /\ named'[q] = named[q]
    BY <1>a, <1>2, FinalizeLeaves
  <2>2. rushing'[p] <= edits
    BY <1>a, <1>b, <1>2, FinalizePlaces DEF CountInv
  <2>3. place'[p] \in {"read", "scan"} \cup Validating => named'[p] = 0
    BY <1>a, <1>2, FinalizePlaces DEF CountInv, Validating
  <2>4. place'[p] # "check"
    BY <1>a, <1>2, FinalizePlaces DEF Finalizing, Before
  <2>5. QED
    BY <1>a, <2>1, <2>2, <2>3, <2>4 DEF CountInv
<1>3. ASSUME NEW p \in Command, Publish(p) \/ Settle(p) \/ KillCommand(p) PROVE CountInv'
  <2>1. /\ UNCHANGED <<kind, racing, rushing, edits>>
        /\ place'[p] \notin Finalizing /\ place'[p] # "check"
        /\ \A q \in Command \ {p} : place'[q] = place[q] /\ named'[q] = named[q]
    BY <1>a, <1>3, PublishLeaves
  <2>2. place'[p] \notin {"read", "scan"} \cup Validating
    BY <2>1 DEF Finalizing, Before, Validating
  <2>3. QED
    BY <1>a, <2>1, <2>2 DEF CountInv
<1>4. ASSUME NEW f \in Product, NEW content \in Content, Edit(f, content) PROVE CountInv'
  <2>1. UNCHANGED <<kind, place, named>> /\ edits' = edits + 1
    BY <1>a, <1>4, EditLeaves
  <2>2. \A p \in Command : racing'[p] <= edits' /\ rushing'[p] <= edits'
    BY <1>a, <1>b, <1>4, EditLeaves DEF CountInv
  <2>3. QED
    BY <1>a, <2>1, <2>2 DEF CountInv
<1>5. QED
  BY <1>1, <1>2, <1>3, <1>4 DEF PublicationNext

(* A finalizer that has committed counts no further.                        *)
LEMMA OutrunStays ==
  ASSUME PublicationInv, [PublicationNext]_pubVars, NEW p \in Command, Outrun(p)
  PROVE  Outrun(p)'
<1>a. PublicationTypeOK /\ CountInv /\ place \in [Command -> CommandPlaces]
      /\ named \in [Command -> 0..tip]
  BY DEF PublicationInv, PublicationTypeOK
<1>b. /\ kind[p] = "finalize" /\ named[p] # 0
      /\ place[p] \notin {"read", "scan"} \cup Validating /\ place[p] # "check"
  BY <1>a DEF Outrun, CountInv
<1>1. CASE UNCHANGED pubVars
  BY <1>1 DEF pubVars, contents, locals, Outrun
<1>2. ASSUME NEW q \in Command, Finalize(q) PROVE Outrun(p)'
  <2>1. UNCHANGED <<kind, racing>> /\ shared \subseteq shared'
    BY <1>a, <1>2, FinalizeLeaves
  <2>2. named'[p] = named[p] /\ rushing'[p] = rushing[p]
    <3>1. CASE q = p
      <4>1. place[p] \in {"store", "patch"}
        BY <1>a, <1>b, <1>2, <3>1, FinalizeLeaves DEF Finalizing, Before, Validating
      <4>2. QED
        BY <1>a, <1>2, <3>1, <4>1, FinalizePlaces
    <3>2. CASE q # p
      BY <1>a, <1>2, <3>2, FinalizeLeaves
    <3>3. QED
      BY <3>1, <3>2
  <2>3. QED
    BY <2>1, <2>2 DEF Outrun
<1>3. ASSUME NEW q \in Command, Publish(q) \/ Settle(q) \/ KillCommand(q) PROVE Outrun(p)'
  <2>1. UNCHANGED <<kind, racing, rushing, shared>>
    BY <1>a, <1>3, PublishLeaves
  <2>2. named'[p] = named[p]
    BY <1>a, <1>b, <1>3, PublishLeaves
  <2>3. QED
    BY <2>1, <2>2 DEF Outrun
<1>4. ASSUME NEW f \in Product, NEW content \in Content, Edit(f, content) PROVE Outrun(p)'
  BY <1>a, <1>b, <1>4, EditLeaves DEF Outrun
<1>5. QED
  BY <1>1, <1>2, <1>3, <1>4 DEF PublicationNext

(* A step of its own keeps a finalizer's bookkeeping.                       *)
LEMMA OwnStep ==
  ASSUME PublicationTypeOK, Unspoilt, NEW p \in Command, Finalize(p), NEW f \in Product
  PROVE  Late(p, f)' /\ (p \in shared' \/ Sneaks(p, f)')
<1>a. place \in [Command -> CommandPlaces] /\ racing[p] \in Nat /\ rushing[p] \in Nat
      /\ UNCHANGED <<work, racing>> /\ shared \subseteq shared'
      /\ scanned \in [Command -> SUBSET Product] /\ again \in [Command -> SUBSET Product]
      /\ rushing \in [Command -> 0..MaxEdits]
  BY SneakTypes, FinalizeLeaves DEF PublicationTypeOK
<1>b. head[f] # "empty" /\ Late(p, f) /\ (p \in shared \/ Sneaks(p, f))
  BY DEF Unspoilt
<1> USE DEF Move, Conclude, Check
<1>1. CASE ReadTurn(p) \/ StoreCommit(p) \/ PatchRecord(p)
  <2>1. place'[p] \in {"scan", "patch", "settle"}
    BY <1>1, <1>a DEF ReadTurn, StoreCommit, PatchRecord
  <2>2. QED
    BY <2>1 DEF Late, Sneaks
<1>2. CASE FirstScan(p)
  <2>1. /\ index' = index /\ place'[p] \in {"sizes", "ended"} /\ scanned'[p] = Changed
    BY <1>2, <1>a DEF FirstScan, validating, contents
  <2>2. index[f] = "empty" => f \in Changed
    BY <1>b DEF Changed
  <2>3. QED
    BY <2>1, <2>2 DEF Late, Sneaks
<1>3. CASE Sizes(p)
  <2>1. /\ UNCHANGED <<index, scanned>> /\ place[p] = "sizes" /\ place'[p] \in {"stage", "ended"}
        /\ place'[p] = "stage" => \A g \in scanned[p] : work[g] # "empty"
    BY <1>3, <1>a DEF Sizes, validating, contents, Empty
  <2>2. QED
    BY <1>a, <1>b, <2>1 DEF Late, Sneaks
<1>4. CASE StageFiles(p)
  <2>1. /\ UNCHANGED <<scanned>> /\ place[p] = "stage" /\ place'[p] = "rescan"
        /\ index'[f] = IF f \in scanned[p] THEN work[f] ELSE index[f]
    BY <1>4, <1>a DEF StageFiles
  <2>2. Sneaks(p, f) => Sneaks(p, f)'
    BY <1>a, <2>1 DEF Sneaks
  <2>3. QED
    BY <1>a, <1>b, <2>1, <2>2 DEF Late
<1>5. CASE Rescan(p)
  <2>1. /\ UNCHANGED <<index, scanned>> /\ place[p] = "rescan" /\ place'[p] = "resizes"
        /\ again'[p] = Changed
    BY <1>5, <1>a DEF Rescan, validating, contents
  <2>2. work[f] = "empty" => f \in Changed
    BY <1>b DEF Changed
  <2>3. Sneaks(p, f) => Sneaks(p, f)'
    BY <1>a, <2>1 DEF Sneaks
  <2>4. QED
    BY <1>a, <1>b, <2>1, <2>2, <2>3 DEF Late
<1>6. CASE Resizes(p)
  <2>1. /\ UNCHANGED <<index, scanned, again, rushing>>
        /\ place[p] = "resizes" /\ place'[p] \in {"diff", "ended"}
        /\ place'[p] = "diff" => \A g \in again[p] : work[g] # "empty"
    BY <1>6, <1>a DEF Resizes, validating, contents, Empty
  <2>2. Sneaks(p, f) => Sneaks(p, f)'
    BY <1>a, <2>1 DEF Sneaks
  <2>3. Late(p, f)'
    BY <1>a, <1>b, <2>1 DEF Late
  <2>4. QED
    BY <1>a, <1>b, <2>2, <2>3
<1>7. CASE Diff(p)
  <2>1. /\ UNCHANGED <<index, scanned, again, rushing>>
        /\ place[p] = "diff" /\ place'[p] \in {"commit", "ended"}
        /\ place'[p] = "commit" => again[p] = scanned[p] /\ work = index
    BY <1>7, <1>a DEF Diff, contents, Stable
  <2>2. Sneaks(p, f) => Sneaks(p, f)'
    BY <1>a, <2>1 DEF Sneaks
  <2>3. Late(p, f)'
    BY <1>a, <1>b, <2>1 DEF Late
  <2>4. QED
    BY <1>a, <1>b, <2>2, <2>3
<1>8. CASE Commit(p)
  <2>1. place'[p] \in {"store", "ended"}
    BY <1>8, <1>a DEF Commit
  <2>2. QED
    BY <2>1 DEF Late, Sneaks
<1>9. QED
  BY <1>1, <1>2, <1>3, <1>4, <1>5, <1>6, <1>7, <1>8 DEF Finalize

(* So does a step of another one, which may stage a file for it.             *)
LEMMA OthersStep ==
  ASSUME PublicationTypeOK, Unspoilt, NEW p \in Command, Finalize(p),
         NEW q \in Command, q # p, NEW f \in Product
  PROVE  Late(q, f)' /\ (q \in shared' \/ Sneaks(q, f)')
<1>a. /\ work' = work /\ racing' = racing /\ rushing'[q] = rushing[q]
      /\ place'[q] = place[q] /\ scanned'[q] = scanned[q] /\ again'[q] = again[q]
      /\ shared \subseteq shared'
  <2>1. place \in [Command -> CommandPlaces]
    BY DEF PublicationTypeOK
  <2>2. QED
    BY <2>1, FinalizeLeaves
<1>b. Late(q, f) /\ (q \in shared \/ Sneaks(q, f))
  BY DEF Unspoilt
<1>1. CASE index' = index
  BY <1>a, <1>b, <1>1 DEF Late, Sneaks
<1>2. CASE StageFiles(p)
  <2>1. index'[f] \in {index[f], work[f]}
    BY <1>2 DEF StageFiles
  <2>2. Late(q, f)'
    BY <1>a, <1>b, <2>1 DEF Late
  <2>3. place[q] \in Validating => q \in shared'
    BY <1>2 DEF StageFiles
  <2>4. place[q] \notin Validating => Sneaks(q, f)'
    BY <1>a DEF Sneaks, Validating
  <2>5. QED
    BY <2>2, <2>3, <2>4
<1>3. QED
  BY <1>1, <1>2 DEF Finalize, ReadTurn, FirstScan, Sizes, Rescan, Resizes, Diff, Commit,
     StoreCommit, PatchRecord, contents, validating

(* A finalizer that commits an empty file was outrun.                       *)
LEMMA OnlyOutrun ==
  ASSUME PublicationInv, Unspoilt, NEW p \in Command, Finalize(p)
  PROVE  Outrun(p)' \/ \A f \in Product : head'[f] # "empty"
<1>a. PublicationTypeOK /\ CountInv
  BY DEF PublicationInv
<1>1. CASE head' = head
  BY <1>1 DEF Unspoilt
<1>2. CASE Commit(p) /\ head' # head
  <2>1. /\ place[p] = "commit" /\ head' = index /\ named'[p] = tip + 1
        /\ UNCHANGED <<kind, racing, rushing, shared>>
    BY <1>a, <1>2 DEF Commit, Move, PublicationTypeOK
  <2>2. kind[p] = "finalize" /\ tip + 1 # 0
    BY <1>a, <2>1 DEF CountInv, Finalizing, Before, PublicationTypeOK
  <2>3. ASSUME NEW f \in Product, index[f] = "empty" PROVE Outrun(p)'
    <3>1. rushing[p] >= 1 /\ (p \in shared \/ racing[p] >= 3)
      BY <2>1, <2>3 DEF Unspoilt, Late, Sneaks
    <3>2. QED
      BY <2>1, <2>2, <3>1 DEF Outrun
  <2>4. QED
    BY <2>1, <2>3
<1>3. QED
  BY <1>1, <1>2 DEF Finalize, ReadTurn, FirstScan, Sizes, StageFiles, Rescan, Resizes, Diff,
     StoreCommit, PatchRecord, contents, validating

LEMMA NextEmpty == PublicationInv /\ [PublicationNext]_pubVars => EmptyInv'
<1> SUFFICES ASSUME PublicationInv, [PublicationNext]_pubVars PROVE EmptyInv'
  OBVIOUS
<1>a. PublicationTypeOK /\ EmptyInv
  BY DEF PublicationInv
<1>b. place \in [Command -> CommandPlaces] /\ edits \in Nat
      /\ (\A p \in Command : racing[p] \in Nat) /\ (\A p \in Command : rushing[p] \in Nat)
  BY <1>a, SneakTypes DEF PublicationTypeOK
<1>c. CASE \E p \in Command : Outrun(p)
  BY <1>c, OutrunStays DEF EmptyInv
<1>d. CASE Unspoilt
  <2>1. CASE UNCHANGED pubVars
    BY <1>d, <2>1 DEF pubVars, contents, locals, EmptyInv, Unspoilt, Late, Sneaks
  <2>2. ASSUME NEW p \in Command, Finalize(p) PROVE EmptyInv'
    <3>1. \A q \in Command, f \in Product : Late(q, f)' /\ (q \in shared' \/ Sneaks(q, f)')
      BY <1>a, <1>d, <2>2, OwnStep, OthersStep
    <3>2. QED
      BY <1>d, <2>2, <3>1, OnlyOutrun DEF EmptyInv, Unspoilt
  <2>3. ASSUME NEW p \in Command, Publish(p) \/ Settle(p) \/ KillCommand(p) PROVE EmptyInv'
    <3>1. /\ UNCHANGED <<contents, scanned, again, racing, rushing, shared>>
          /\ \A q \in Command : place'[q] = place[q] \/ place'[q] \notin Finalizing
      BY <1>a, <1>b, <2>3, PublishLeaves
    <3>2. \A q \in Command, f \in Product : Late(q, f)' /\ (q \in shared' \/ Sneaks(q, f)')
      BY <1>d, <3>1 DEF Unspoilt, Late, Sneaks, contents, Finalizing, Before
    <3>3. QED
      BY <1>d, <3>1, <3>2 DEF EmptyInv, Unspoilt, contents
  <2>4. ASSUME NEW f \in Product, NEW content \in Content, Edit(f, content) PROVE EmptyInv'
    <3>1. UNCHANGED <<index, head, place, scanned, again, shared>>
      BY <1>a, <2>4, EditLeaves
    <3>2. ASSUME NEW p \in Command, NEW g \in Product
          PROVE  Late(p, g)' /\ (p \in shared' \/ Sneaks(p, g)')
      <4>1. Late(p, g) /\ (p \in shared \/ Sneaks(p, g))
        BY <1>d DEF Unspoilt
      <4>2. CASE place[p] \notin Validating
        BY <3>1, <4>2 DEF Late, Sneaks, Validating
      <4>3. CASE place[p] \in Validating
        <5>1. racing'[p] = racing[p] + 1 /\ rushing'[p] = rushing[p] + 1
          BY <1>a, <2>4, <4>3, EditLeaves
        <5>2. rushing'[p] >= 1
          BY <1>b, <5>1
        <5>3. Late(p, g)'
          BY <5>2 DEF Late
        <5>4. Sneaks(p, g) => Sneaks(p, g)'
          BY <1>b, <3>1, <5>1 DEF Sneaks
        <5>5. QED
          BY <3>1, <4>1, <5>3, <5>4
      <4>4. QED
        BY <4>2, <4>3
    <3>3. QED
      BY <1>d, <3>1, <3>2 DEF EmptyInv, Unspoilt
  <2>5. QED
    BY <2>1, <2>2, <2>3, <2>4 DEF PublicationNext
<1>e. QED
  BY <1>a, <1>c, <1>d DEF EmptyInv

LEMMA NextPublication == PublicationInv /\ [PublicationNext]_pubVars => PublicationInv'
  BY NextPublicationTypes, NextGate, NextTrace, NextCounts, NextEmpty DEF PublicationInv

THEOREM PublicationInvariant == PublicationSpec => []PublicationInv
  BY InitPublication, NextPublication, PTL DEF PublicationSpec

(* An empty file gets into a commit only by a finalizer that the worker outran *)
(* with a write after the second check began, and with three since the first  *)
(* scan unless another finalizer staged meanwhile.                           *)
THEOREM EmptyIsCaught == PublicationSpec => []NoEmptyCommit
<1>1. PublicationInv => NoEmptyCommit
  BY DEF PublicationInv, EmptyInv, Unspoilt, NoEmptyCommit
<1>2. QED
  BY <1>1, PublicationInvariant, PTL

(* A publication that reached the remote and did not settle has its uncertain *)
(* intent, or another command of the ref took it away.                       *)
THEOREM PublicationIsTraced == PublicationSpec => []UncertainIsTraced
<1>1. PublicationInv => UncertainIsTraced
  BY DEF PublicationInv, PublicationTypeOK, TraceInv, UncertainIsTraced
<1>2. QED
  BY <1>1, PublicationInvariant, PTL

(* No pull request is opened for a branch that the remote does not have.     *)
THEOREM PullsHaveBranches == PublicationSpec => []PullHasBranch
<1>1. PublicationInv => PullHasBranch
  BY DEF PublicationInv
<1>2. QED
  BY <1>1, PublicationInvariant, PTL

(* A protected branch, or one outside the configured patterns, is never      *)
(* pushed and gets no pull request.                                          *)
THEOREM ProtectedIsKept == PublicationSpec => ProtectedKept
<1>1. PublicationInv /\ [PublicationNext]_pubVars =>
        (remote' # remote \/ pulls' # pulls =>
          /\ settings.matches
          /\ settings.branch \notin {"main", "master", "HEAD", settings.default})
  <2> SUFFICES ASSUME PublicationInv, [PublicationNext]_pubVars,
                      remote' # remote \/ pulls' # pulls
               PROVE  /\ settings.matches
                      /\ settings.branch \notin {"main", "master", "HEAD", settings.default}
    OBVIOUS
  <2>1. PICK p \in Command : Push(p) \/ OpenPull(p) \/ PublishFails(p)
    BY DEF PublicationNext, Finalize, Publish, ReadTurn, FirstScan, Sizes, StageFiles,
       Rescan, Resizes, Diff, Commit, StoreCommit, PatchRecord, Resolve, Gate,
       RequireClean, Trace, BranchExists, ListPulls, Settle, Edit, KillCommand,
       validating, publishing, pubVars
  <2>2. place[p] \in {"push", "open"}
    BY <2>1 DEF Push, OpenPull, PublishFails, Move
  <2>3. Refusal(kind[p], settings) = "none"
    BY <2>2 DEF PublicationInv, GateInv
  <2>4. QED
    BY <2>3 DEF Refusal, IsProtected
<1>2. QED
  BY <1>1, PublicationInvariant, PTL DEF PublicationSpec, ProtectedKept
-----------------------------------------------------------------------------
(* The spawner tag.                                                         *)

LEMMA InitSpawner == SpawnerInit => SpawnerInv
  BY TagAssumption DEF SpawnerInit, SpawnerInv, SpawnerTypeOK, OneSpawner

LEMMA NextSpawner == SpawnerInv /\ [SpawnerNext]_spawnerVars => SpawnerInv'
<1> SUFFICES ASSUME SpawnerInv, [SpawnerNext]_spawnerVars PROVE SpawnerInv'
  OBVIOUS
<1> USE TagAssumption DEF SpawnerInv, SpawnerTypeOK, OneSpawner, Ask
<1>1. CASE UNCHANGED spawnerVars
  BY <1>1 DEF spawnerVars
<1>2. ASSUME NEW p \in Asker, ReadEnvironment(p) PROVE SpawnerInv'
  BY <1>2 DEF ReadEnvironment
<1>3. ASSUME NEW p \in Asker, ReadTag(p) PROVE SpawnerInv'
  <2>1. PICK t \in Tag : drawn' = [drawn EXCEPT ![p] = IF spawner \in Tag THEN spawner ELSE t]
    BY <1>3 DEF ReadTag
  <2>2. QED
    BY <1>3, <2>1 DEF ReadTag
<1>4. ASSUME NEW p \in Asker, CreateTag(p) PROVE SpawnerInv'
  BY <1>4 DEF CreateTag
<1>5. ASSUME NEW p \in Asker, WriteTag(p) PROVE SpawnerInv'
  BY <1>5 DEF WriteTag
<1>6. ASSUME NEW p \in Asker, ReadTagAgain(p) PROVE SpawnerInv'
  BY <1>6 DEF ReadTagAgain
<1>7. ASSUME NEW p \in Asker, KillAsker(p) PROVE SpawnerInv'
  BY <1>7 DEF KillAsker
<1>8. QED
  BY <1>1, <1>2, <1>3, <1>4, <1>5, <1>6, <1>7 DEF SpawnerNext

THEOREM SpawnerInvariant == SpawnerSpec => []SpawnerInv
  BY InitSpawner, NextSpawner, PTL DEF SpawnerSpec

(* However many processes draw a tag at once, those that go on with one from  *)
(* ~/.oca/spawner have the tag that the file keeps (scope.rs, spawner_tag).   *)
THEOREM SpawnerIsOne == SpawnerSpec => []OneSpawner
<1>1. SpawnerInv => OneSpawner
  BY DEF SpawnerInv
<1>2. QED
  BY <1>1, SpawnerInvariant, PTL

-----------------------------------------------------------------------------
(* The journal's locks.                                                     *)

(* What the places and the locks are functions of.                          *)
JournalTypes ==
  /\ where \in [Actor -> {"open", "lock", "scan", "append", "flush", "stat", "read", "remove",
                          "ended", "killed"}]
  /\ fd \in [Actor -> Nat] /\ path \in Nat /\ files \in Nat
  /\ lock \in [Actor -> {"none", "shared", "exclusive"}]
  /\ ends \in [Actor -> {"none", "ok", "writer_active", "corrupt", "io"}]
  /\ live \in [Actor -> BOOLEAN]

JournalIInv == JournalTypes /\ JournalInv

LEMMA InitJournal == JournalInit => JournalIInv
  BY DEF JournalInit, JournalIInv, JournalTypes, JournalInv, NoFile

LEMMA NextJournal == JournalIInv /\ [JournalNext]_journalVars => JournalIInv'
<1> SUFFICES ASSUME JournalIInv, [JournalNext]_journalVars PROVE JournalIInv'
  OBVIOUS
<1> USE DEF JournalIInv, JournalTypes, JournalInv, Go, Close, Stay, NoFile
<1>1. CASE UNCHANGED journalVars
  BY <1>1 DEF journalVars, store, reading
<1>2. ASSUME NEW p \in Actor, OpenToWrite(p) PROVE JournalIInv'
  <2>1. where[p] = "open" /\ lock[p] = "none" /\ path' # NoFile /\ path' \in Nat
        /\ files' \in Nat /\ (path # NoFile => path' = path)
    BY <1>2 DEF OpenToWrite
  <2>2. QED
    BY <1>2, <2>1 DEF OpenToWrite, reading
<1>3. ASSUME NEW p \in Actor, LockToWrite(p) PROVE JournalIInv'
  <2>1. CASE Free(p, "exclusive")
    BY <1>3, <2>1 DEF LockToWrite, Free, store, reading
  <2>2. CASE ~Free(p, "exclusive")
    BY <1>3, <2>2 DEF LockToWrite, store, reading
  <2>3. QED
    BY <2>1, <2>2
<1>4. ASSUME NEW p \in Actor, ScanPath(p) PROVE JournalIInv'
  BY <1>4 DEF ScanPath, store, reading
<1>5. ASSUME NEW p \in Actor, BeginRecord(p) PROVE JournalIInv'
  BY <1>5 DEF BeginRecord, reading
<1>6. ASSUME NEW p \in Actor, EndRecord(p) PROVE JournalIInv'
  BY <1>6 DEF EndRecord, reading
<1>7. ASSUME NEW p \in Actor, WriteFails(p) \/ EndWriting(p) PROVE JournalIInv'
  BY <1>7 DEF WriteFails, EndWriting, store, reading
<1>8. ASSUME NEW p \in Actor, OpenToRead(p) PROVE JournalIInv'
  BY <1>8 DEF OpenToRead, store, reading
<1>9. ASSUME NEW p \in Actor, TryShared(p) PROVE JournalIInv'
  <2>1. CASE Free(p, "shared")
    BY <1>9, <2>1 DEF TryShared, Free, store
  <2>2. CASE ~Free(p, "shared")
    BY <1>9, <2>2 DEF TryShared, store
  <2>3. QED
    BY <2>1, <2>2
<1>10. ASSUME NEW p \in Actor, ReadPath(p) PROVE JournalIInv'
  <2>1. /\ where[p] = "read" /\ where' = [where EXCEPT ![p] = "ended"]
        /\ lock' = [lock EXCEPT ![p] = "none"]
        /\ \E how \in {"io", "corrupt", "ok"} : ends' = [ends EXCEPT ![p] = how]
    BY <1>10 DEF ReadPath, ReadPage
  <2>2. QED
    BY <1>10, <2>1 DEF ReadPath, store
<1>11. ASSUME NEW p \in Actor, NextPage(p) PROVE JournalIInv'
  BY <1>11 DEF NextPage, store
<1>12. ASSUME NEW p \in Actor, StatJournal(p) PROVE JournalIInv'
  BY <1>12 DEF StatJournal, store, reading
<1>13. ASSUME NEW p \in Actor, OpenToPrune(p) PROVE JournalIInv'
  BY <1>13 DEF OpenToPrune, store, reading
<1>14. ASSUME NEW p \in Actor, LockToPrune(p) PROVE JournalIInv'
  <2>1. CASE Free(p, "shared")
    BY <1>14, <2>1 DEF LockToPrune, Free, store, reading
  <2>2. CASE ~Free(p, "shared")
    BY <1>14, <2>2 DEF LockToPrune, store, reading
  <2>3. QED
    BY <2>1, <2>2
<1>15. ASSUME NEW p \in Actor, RemoveJournal(p) PROVE JournalIInv'
  <2>1. \A q \in Actor \ {p} :
          q \notin moved' /\ where[q] \notin {"ended", "killed"} => fd[q] # path
    BY <1>15 DEF RemoveJournal
  <2>2. QED
    BY <1>15, <2>1 DEF RemoveJournal, reading
<1>16. CASE AgeJournal
  BY <1>16 DEF AgeJournal, reading
<1>17. ASSUME NEW p \in Actor, KillActor(p) PROVE JournalIInv'
  BY <1>17 DEF KillActor, store, reading
<1>18. QED
  BY <1>1, <1>2, <1>3, <1>4, <1>5, <1>6, <1>7, <1>8, <1>9, <1>10, <1>11, <1>12, <1>13,
     <1>14, <1>15, <1>16, <1>17 DEF JournalNext, Write, Read, Prune

THEOREM JournalLocks == JournalSpec => []JournalInv
<1>1. JournalIInv => JournalInv
  BY DEF JournalIInv
<1>2. QED
  BY <1>1, InitJournal, NextJournal, PTL DEF JournalSpec

(* Pruning takes no journal from a writer that has it locked, unless the      *)
(* pruning's own file was removed from the path meanwhile.                   *)
THEOREM WritersAreSpared == JournalSpec => PruneSparesWriters
<1>1. JournalIInv /\ [JournalNext]_journalVars =>
        \A p, q \in Actor :
          /\ path' # path /\ path' = NoFile
          /\ where[p] = "remove" /\ where'[p] = "ended" /\ p \notin moved
          /\ where[q] \in {"scan", "append", "flush"}
          => fd[q] # path
  BY DEF JournalIInv, JournalInv
<1>2. QED
  BY <1>1, InitJournal, NextJournal, PTL DEF JournalSpec, PruneSparesWriters

(* A reader that finds the journal corrupt looks at no record that a writer   *)
(* is still writing, unless the file it has locked was removed meanwhile.     *)
THEOREM DamageIsReal == JournalSpec => CorruptionIsReal
<1>1. JournalIInv /\ [JournalNext]_journalVars =>
        \A p \in Actor : ends'[p] = "corrupt" /\ ends[p] # "corrupt" /\ p \notin moved =>
          \A q \in Actor : where[q] = "flush" => fd[q] # path
  <2> SUFFICES ASSUME JournalIInv, [JournalNext]_journalVars, NEW p \in Actor,
                      ends'[p] = "corrupt", ends[p] # "corrupt", p \notin moved,
                      NEW q \in Actor, where[q] = "flush"
               PROVE  fd[q] # path
    OBVIOUS
  <2>1. \/ where[p] = "scan"
        \/ where[p] = "read" /\ ~live[p]
    <3> USE DEF JournalIInv, JournalTypes, Close, Go, Stay
    <3>1. CASE UNCHANGED journalVars
      BY <3>1 DEF journalVars
    <3>2. CASE AgeJournal
      BY <3>2 DEF AgeJournal
    <3>3. ASSUME NEW r \in Actor, Write(r) PROVE where[p] = "scan"
      BY <3>3 DEF Write, OpenToWrite, LockToWrite, ScanPath, BeginRecord, EndRecord,
         WriteFails, EndWriting
    <3>4. ASSUME NEW r \in Actor, OpenToRead(r) \/ TryShared(r) \/ NextPage(r) PROVE FALSE
      BY <3>4 DEF OpenToRead, TryShared, NextPage
    <3>5. ASSUME NEW r \in Actor, ReadPath(r) PROVE where[p] = "read" /\ ~live[p]
      BY <3>5 DEF ReadPath, ReadPage
    <3>6. ASSUME NEW r \in Actor, Prune(r) \/ KillActor(r) PROVE FALSE
      BY <3>6 DEF Prune, StatJournal, OpenToPrune, LockToPrune, RemoveJournal, KillActor
    <3>7. QED
      BY <3>1, <3>2, <3>3, <3>4, <3>5, <3>6 DEF JournalNext, Read
  <2>2. QED
    BY <2>1 DEF JournalIInv, JournalInv
<1>2. QED
  BY <1>1, InitJournal, NextJournal, PTL DEF JournalSpec, CorruptionIsReal

-----------------------------------------------------------------------------
(* The pages of `oca events`.                                               *)

(* A set of naturals has a least one.                                        *)
LEMMA Least ==
  ASSUME NEW S \in SUBSET Nat, S # {}
  PROVE  \E x \in S : \A y \in S : x <= y
<1>1. PICK x \in S : \A y \in S : ~(<<y, x>> \in OpToRel(<, Nat))
  BY NatLessThanWellFounded, WFMin
<1>2. \A y \in S : ~(y < x)
  BY <1>1 DEF OpToRel
<1> QED BY <1>2

(* The recursion along a file, and its result: it has one solution at most.  *)
Leaves(g, s, mark, m) ==
  g = [i \in 0..m |-> IF i = 0 THEN <<>>
                      ELSE IF s[i] > mark THEN Append(g[i - 1], s[i]) ELSE g[i - 1]]

LEMMA AfterIs ==
  ASSUME NEW s, NEW mark, NEW m \in Nat, m = Len(s), NEW g, Leaves(g, s, mark, m)
  PROVE  After(s, mark) = g[m]
<1> DEFINE Build(f) == [i \in 0..m |-> IF i = 0 THEN <<>>
                                      ELSE IF s[i] > mark THEN Append(f[i - 1], s[i])
                                      ELSE f[i - 1]]
           after == CHOOSE f : f = Build(f)
<1>2. g = Build(g)
  BY DEF Leaves
<1>3. after = Build(after)
  <2> HIDE DEF Build
  <2>1. QED
    BY <1>2
<1>4. \A i \in 0..m : after[i] = g[i]
  <2> DEFINE Wrong == {i \in 0..m : after[i] # g[i]}
  <2> SUFFICES ASSUME Wrong # {} PROVE FALSE
    OBVIOUS
  <2> HIDE DEF after
  <2>0. Wrong \in SUBSET Nat
    OBVIOUS
  <2>1. PICK i \in Wrong : \A j \in Wrong : i <= j
    <3> HIDE DEF Wrong
    <3>1. QED
      BY <2>0, Least
  <2>2. \A j \in 0..m : j < i => after[j] = g[j]
    BY <2>1
  <2>3. after[i] = Build(after)[i] /\ g[i] = Build(g)[i]
    BY <1>2, <1>3
  <2>4. i # 0 => i - 1 \in 0..m /\ after[i - 1] = g[i - 1]
    BY <2>2
  <2>5. Build(after)[i] = Build(g)[i]
    BY <2>4
  <2>6. QED
    BY <2>3, <2>5
<1>5. After(s, mark) = after[m]
  BY DEF After
<1> HIDE DEF after
<1>6. QED
  BY <1>4, <1>5

(* The numbers of a journal.                                                 *)
Upto(m) == [n \in 1..m |-> n]

(* The numbers of a journal behind a cursor.                                 *)
Rest(m, mark) == IF m <= mark THEN <<>> ELSE [n \in 1..(m - mark) |-> mark + n]

(* What After leaves of them.                                                *)
LEMMA AfterNumbered ==
  ASSUME NEW m \in Nat, NEW mark \in Nat
  PROVE  After(Upto(m), mark) = Rest(m, mark)
<1> DEFINE s == Upto(m)
           Build(f) == [i \in 0..m |-> IF i = 0 THEN <<>>
                                      ELSE IF s[i] > mark THEN Append(f[i - 1], s[i])
                                      ELSE f[i - 1]]
           g == [i \in 0..m |-> Rest(i, mark)]
<1>1. Len(s) = m /\ \A i \in 1..m : s[i] = i
  BY DEF Upto
<1>2. g = Build(g)
  <2>1. \A i \in 1..m : i <= mark => Rest(i, mark) = <<>> /\ Rest(i - 1, mark) = <<>>
    BY DEF Rest
  <2>2. ASSUME NEW i \in 1..m, i > mark
        PROVE  Rest(i, mark) = Append(Rest(i - 1, mark), i)
    <3>1. CASE i - 1 <= mark
      <4>1. i = mark + 1 /\ Rest(i - 1, mark) = <<>>
        BY <2>2, <3>1 DEF Rest
      <4>2. Rest(i, mark) = [n \in 1..1 |-> mark + n]
        <5>1. ~(i <= mark) /\ i - mark = 1
          BY <2>2, <4>1
        <5>2. QED
          BY <5>1 DEF Rest
      <4>3. [n \in 1..1 |-> mark + n] = <<mark + 1>> /\ Append(<<>>, i) = <<i>>
        OBVIOUS
      <4>4. QED
        BY <4>1, <4>2, <4>3
    <3>2. CASE i - 1 > mark
      <4>1. PICK k \in Nat : k = i - 1 - mark
        BY <3>2
      <4>2. Rest(i - 1, mark) = [n \in 1..k |-> mark + n]
        BY <3>2, <4>1 DEF Rest
      <4>3. Rest(i, mark) = [n \in 1..(k + 1) |-> mark + n]
        BY <2>2, <4>1 DEF Rest
      <4>4. Append([n \in 1..k |-> mark + n], i) = [n \in 1..(k + 1) |-> mark + n]
        BY <4>1
      <4>5. QED
        BY <4>2, <4>3, <4>4
    <3>3. QED
      BY <3>1, <3>2
  <2>3. Rest(0, mark) = <<>>
    BY DEF Rest
  <2>4. \A i \in 0..m : g[i] = Rest(i, mark)
    OBVIOUS
  <2>5. \A i \in 1..m : i - 1 \in 0..m /\ g[i - 1] = Rest(i - 1, mark)
    BY <2>4
  <2> HIDE DEF g, s
  <2>6. ASSUME NEW i \in 0..m
        PROVE  g[i] = Build(g)[i]
    <3>1. Build(g)[i] = IF i = 0 THEN <<>>
                       ELSE IF s[i] > mark THEN Append(g[i - 1], s[i]) ELSE g[i - 1]
      OBVIOUS
    <3> HIDE DEF Build
    <3>2. CASE i = 0
      BY <3>1, <3>2, <2>3, <2>4
    <3>3. CASE i # 0 /\ i <= mark
      <4>1. i \in 1..m /\ s[i] = i
        BY <3>3, <1>1
      <4>2. Build(g)[i] = g[i - 1]
        BY <3>1, <3>3, <4>1
      <4>3. QED
        BY <4>1, <4>2, <3>3, <2>1, <2>4, <2>5
    <3>4. CASE i # 0 /\ i > mark
      <4>1. i \in 1..m /\ s[i] = i
        BY <3>4, <1>1
      <4>2. Build(g)[i] = Append(g[i - 1], i)
        BY <3>1, <3>4, <4>1
      <4>3. QED
        BY <4>1, <4>2, <3>4, <2>2, <2>4, <2>5
    <3>5. QED
      BY <3>2, <3>3, <3>4
  <2>7. QED
    BY <2>6 DEF g
<1>3. Leaves(g, s, mark, m)
  BY <1>2 DEF Leaves
<1>4. g[m] = Rest(m, mark)
  OBVIOUS
<1> HIDE DEF g, s
<1>5. QED
  BY <1>1, <1>3, <1>4, AfterIs DEF s

(* A page is made of the next records behind the cursor, and takes the cursor *)
(* to the last of them.                                                     *)
LEMMA PageNumbered ==
  ASSUME NEW p \in Actor, NEW m \in Nat, NEW mark \in Nat,
         lines[path] = Upto(m), since[p] = mark
  PROVE  \E n \in Nat : /\ Page(p) = [i \in 1..n |-> mark + i]
                        /\ NewCursor(p) = mark + n
<1>1. Newer(p) = Rest(m, mark)
  BY AfterNumbered DEF Newer
<1>2. PageLimit \in Nat \ {0}
  BY JournalAssumption
<1>3. CASE m <= mark
  <2>1. Newer(p) = <<>> /\ Len(Newer(p)) = 0
    BY <1>1, <1>3 DEF Rest
  <2>2. Min({PageLimit, 0}) = 0
    BY <1>2 DEF Min
  <2>3. Page(p) = <<>>
    BY <2>1, <2>2 DEF Page
  <2>4. Page(p) = [i \in 1..0 |-> mark + i] /\ NewCursor(p) = mark + 0
    BY <2>3 DEF NewCursor
  <2>5. QED
    BY <2>4
<1>4. CASE m > mark
  <2>1. PICK k \in Nat \ {0} : k = m - mark
    BY <1>4
  <2>2. Newer(p) = [i \in 1..k |-> mark + i]
    BY <1>1, <1>4, <2>1 DEF Rest
  <2>3. Len(Newer(p)) = k
    BY <2>2
  <2>4. PICK n \in 1..k : n = Min({PageLimit, k})
    BY <1>2, <2>1 DEF Min
  <2>5. Page(p) = SubSeq([i \in 1..k |-> mark + i], 1, n)
    BY <2>2, <2>3, <2>4 DEF Page
  <2>6. Page(p) = [i \in 1..n |-> mark + i]
    BY <2>5
  <2>7. Len(Page(p)) = n /\ Page(p)[n] = mark + n /\ Page(p) # <<>>
    BY <2>6
  <2>8. NewCursor(p) = mark + n
    BY <2>7 DEF NewCursor
  <2>9. QED
    BY <2>6, <2>8
<1>5. QED
  BY <1>3, <1>4

LEMMA InitPages == JournalInit => PagesInv
<1> SUFFICES ASSUME JournalInit PROVE PagesInv
  OBVIOUS
<1>1. \A f \in File : lines[f] = (IF f = path THEN <<1>> ELSE <<>>)
  BY DEF JournalInit
<1>2. /\ Len(<<1>>) = 1 /\ <<1>> = [n \in 1..1 |-> n] /\ <<1>> \in Seq(Nat)
      /\ Len(<<>>) = 0 /\ <<>> = [n \in 1..0 |-> n] /\ <<>> \in Seq(Nat)
  OBVIOUS
<1>3. lines \in [File -> Seq(Nat)]
  BY <1>2 DEF JournalInit
<1>4. files \in 0..MaxFiles /\ path \in 0..files
  BY JournalAssumption DEF JournalInit
<1>5. PagesAreComplete
  BY <1>1, <1>2 DEF JournalInit, PagesAreComplete
<1>6. QED
  BY <1>1, <1>2, <1>3, <1>4, <1>5 DEF JournalInit, PagesInv

(* Steps that neither write nor show a record.                               *)
LEMMA PagesKept ==
  ASSUME PagesInv, UNCHANGED <<path, files, lines, next, since, got, moved>>,
         \A p \in Actor : where'[p] \in {"append", "flush"} => where[p] \in {"append", "flush"}
  PROVE  PagesInv'
BY DEF PagesInv, PagesAreComplete, Intact

(* A process at the journal of an intact turn is at its only file.           *)
LEMMA AtTheFile ==
  ASSUME JournalIInv, PagesInv, Intact, NEW p \in Actor,
         where[p] \in {"lock", "scan", "append", "flush", "read", "remove"}
  PROVE  /\ fd[p] = path /\ path # NoFile /\ path \in File
         /\ lines[path] \in Seq(Nat) /\ lines[path] = Upto(Len(lines[path]))
<1>1. moved = {} /\ files <= 1 /\ path = files /\ lines \in [File -> Seq(Nat)]
  BY DEF PagesInv, Intact
<1>2. fd[p] = path /\ path # NoFile
  BY <1>1 DEF JournalIInv, JournalInv
<1>3. path \in File
  BY <1>1, <1>2, JournalAssumption DEF PagesInv, File, NoFile
<1>4. lines[path] = [n \in 1..Len(lines[path]) |-> n]
  BY <1>3 DEF PagesInv, PagesAreComplete
<1>5. QED
  BY <1>1, <1>2, <1>3, <1>4 DEF Upto

LEMMA NextPages == JournalIInv /\ PagesInv /\ [JournalNext]_journalVars => PagesInv'
<1> SUFFICES ASSUME JournalIInv, PagesInv, [JournalNext]_journalVars PROVE PagesInv'
  OBVIOUS
<1>0. where \in [Actor -> {"open", "lock", "scan", "append", "flush", "stat", "read", "remove",
                          "ended", "killed"}]
  BY DEF JournalIInv, JournalTypes
<1> USE DEF Go, Close, Stay
<1>1. CASE UNCHANGED journalVars
  BY <1>1, PagesKept DEF journalVars, store, reading
<1>2. ASSUME NEW p \in Actor, OpenToWrite(p) PROVE PagesInv'
  <2>1. CASE path # NoFile
    BY <1>0, <1>2, <2>1, PagesKept DEF OpenToWrite, reading
  <2>2. CASE path = NoFile
    <3>1. /\ files' = files + 1 /\ path' = files + 1 /\ files < MaxFiles
          /\ UNCHANGED <<lines, next, since, got, moved>>
          /\ where' = [where EXCEPT ![p] = "lock"]
      BY <1>2, <2>2 DEF OpenToWrite, reading
    <3>2. files' \in 0..MaxFiles /\ path' \in 0..files'
      BY <3>1, JournalAssumption DEF PagesInv
    <3>3. ASSUME Intact' PROVE Intact
      BY <2>2, <3>1, <3>3 DEF Intact, PagesInv, NoFile
    <3>4. ASSUME Intact' PROVE \A q \in Actor : where[q] \notin {"append", "flush"}
      BY <2>2, <3>3, <3>4, AtTheFile
    <3>5. \A q \in Actor : where'[q] \in {"append", "flush"} => where[q] \in {"append", "flush"}
      BY <1>0, <3>1
    <3>6. Intact' => \A f \in File : lines[f] = <<>>
      BY <2>2, <3>3 DEF PagesInv, File, NoFile
    <3>7. PagesAreComplete'
      BY <3>1, <3>3 DEF PagesInv, PagesAreComplete
    <3>8. QED
      BY <3>1, <3>2, <3>3, <3>4, <3>5, <3>6, <3>7 DEF PagesInv
  <2>3. QED
    BY <2>1, <2>2
<1>3. ASSUME NEW p \in Actor, LockToWrite(p) PROVE PagesInv'
  BY <1>0, <1>3, PagesKept DEF LockToWrite, store, reading
<1>4. ASSUME NEW p \in Actor, ScanPath(p) PROVE PagesInv'
  <2>1. CASE path # NoFile /\ torn[path]
    BY <1>0, <1>4, <2>1, PagesKept DEF ScanPath, store, reading
  <2>2. CASE ~(path # NoFile /\ torn[path])
    <3>1. /\ where[p] = "scan" /\ where' = [where EXCEPT ![p] = "append"]
          /\ next' = [next EXCEPT ![p] = NextSequence(path)]
          /\ UNCHANGED <<path, files, lines, since, got, moved>>
      BY <1>4, <2>2 DEF ScanPath, store, reading
    <3>2. Intact' <=> Intact
      BY <3>1 DEF Intact
    <3>3. ASSUME Intact
          PROVE  NextSequence(path) = Len(lines[path]) + 1 /\ NextSequence(path) \in Nat
      <4>1. /\ path # NoFile /\ lines[path] \in Seq(Nat)
            /\ lines[path] = Upto(Len(lines[path]))
        BY <3>1, <3>3, AtTheFile
      <4>2. PICK m \in Nat : m = Len(lines[path])
        BY <4>1
      <4>3. lines[path] # <<>> => m > 0 /\ lines[path][m] = m
        BY <4>1, <4>2 DEF Upto
      <4>4. lines[path] = <<>> => m = 0
        BY <4>2
      <4>5. QED
        BY <4>1, <4>2, <4>3, <4>4 DEF NextSequence
    <3>4. PagesAreComplete'
      BY <3>1, <3>2 DEF PagesInv, PagesAreComplete
    <3>5. Intact => next' \in [Actor -> Nat]
      BY <3>1, <3>3 DEF PagesInv
    <3>6. ASSUME Intact, NEW q \in Actor, where'[q] \in {"append", "flush"}
          PROVE  next'[q] = Len(lines[path]) + 1
      <4>1. CASE q = p
        BY <3>1, <3>3, <3>6, <4>1 DEF PagesInv
      <4>2. CASE q # p
        BY <1>0, <3>1, <3>6, <4>2 DEF PagesInv
      <4>3. QED
        BY <4>1, <4>2
    <3>7. QED
      BY <3>1, <3>2, <3>4, <3>5, <3>6 DEF PagesInv
  <2>3. QED
    BY <2>1, <2>2
<1>5. ASSUME NEW p \in Actor, BeginRecord(p) PROVE PagesInv'
  <2>1. where[p] = "append" /\ where' = [where EXCEPT ![p] = "flush"]
    BY <1>5 DEF BeginRecord
  <2>2. QED
    BY <1>0, <1>5, <2>1, PagesKept DEF BeginRecord, reading
<1>6. ASSUME NEW p \in Actor, EndRecord(p) PROVE PagesInv'
  <2>1. /\ where[p] = "flush" /\ where' = [where EXCEPT ![p] = "append"]
        /\ lines' = [lines EXCEPT ![fd[p]] = Append(@, next[p])]
        /\ next' = [next EXCEPT ![p] = next[p] + 1]
        /\ UNCHANGED <<path, files, since, got, moved>>
    BY <1>6 DEF EndRecord, reading
  <2>2. Intact' <=> Intact
    BY <2>1 DEF Intact
  <2>3. CASE ~Intact
    BY <2>1, <2>2, <2>3 DEF PagesInv, PagesAreComplete
  <2>4. CASE Intact
    <3>1. /\ fd[p] = path /\ path # NoFile /\ path \in File
          /\ lines[path] \in Seq(Nat) /\ lines[path] = Upto(Len(lines[path]))
      BY <2>1, <2>4, AtTheFile
    <3>2. PICK m \in Nat : m = Len(lines[path])
      BY <3>1
    <3>3. next \in [Actor -> Nat] /\ next[p] = m + 1 /\ lines \in [File -> Seq(Nat)]
      BY <2>1, <2>4, <3>2 DEF PagesInv
    <3>4. /\ lines' \in [File -> Seq(Nat)]
          /\ lines'[path] = Append(Upto(m), m + 1)
          /\ \A f \in File \ {path} : lines'[f] = lines[f]
      <4>1. Append(lines[path], m + 1) \in Seq(Nat)
        BY <3>1
      <4>2. lines' = [lines EXCEPT ![path] = Append(lines[path], m + 1)]
        BY <2>1, <3>1, <3>3
      <4>3. QED
        BY <3>1, <3>2, <3>3, <4>1, <4>2
    <3>5. Append(Upto(m), m + 1) = Upto(m + 1) /\ Len(Upto(m + 1)) = m + 1
      BY DEF Upto
    <3>6. lines'[path] = Upto(m + 1) /\ Len(lines'[path]) = m + 1
      BY <3>4, <3>5
    <3>7. \A q \in Actor \ {p} : where'[q] \notin {"append", "flush"}
      <4>1. \A q \in Actor \ {p} : where'[q] = where[q]
        BY <1>0, <2>1
      <4>2. ASSUME NEW q \in Actor \ {p}, where[q] \in {"append", "flush"} PROVE FALSE
        <5>1. fd[q] = path
          BY <2>4, <4>2, AtTheFile
        <5>2. lock[p] = "exclusive" /\ lock[q] = "exclusive"
          BY <2>1, <4>2 DEF JournalIInv, JournalInv
        <5>3. QED
          BY <3>1, <4>2, <5>1, <5>2 DEF JournalIInv, JournalInv
      <4>3. QED
        BY <4>1, <4>2
    <3>8. next' \in [Actor -> Nat] /\ next'[p] = (m + 1) + 1
      BY <2>1, <3>3
    <3>9. PagesAreComplete'
      <4>1. \A f \in File : lines'[f] = [n \in 1..Len(lines'[f]) |-> n]
        <5>1. lines'[path] = [n \in 1..Len(lines'[path]) |-> n]
          BY <3>6 DEF Upto
        <5>2. \A f \in File \ {path} : lines'[f] = [n \in 1..Len(lines'[f]) |-> n]
          BY <2>4, <3>4 DEF PagesInv, PagesAreComplete
        <5>3. QED
          BY <5>1, <5>2
      <4>2. QED
        BY <2>1, <2>4, <4>1 DEF PagesInv, PagesAreComplete
    <3>10. QED
      BY <2>1, <2>2, <2>4, <3>4, <3>6, <3>7, <3>8, <3>9 DEF PagesInv
  <2>5. QED
    BY <2>3, <2>4
<1>7. ASSUME NEW p \in Actor, WriteFails(p) \/ EndWriting(p) PROVE PagesInv'
  BY <1>0, <1>7, PagesKept DEF WriteFails, EndWriting, store, reading
<1>8. ASSUME NEW p \in Actor, OpenToRead(p) PROVE PagesInv'
  BY <1>0, <1>8, PagesKept DEF OpenToRead, store, reading
<1>9. ASSUME NEW p \in Actor, TryShared(p) PROVE PagesInv'
  BY <1>0, <1>9, PagesKept DEF TryShared, store
<1>10. ASSUME NEW p \in Actor, ReadPath(p) PROVE PagesInv'
  <2>0. /\ where[p] = "read" /\ where' = [where EXCEPT ![p] = "ended"]
        /\ UNCHANGED <<path, files, lines, next, moved>>
    BY <1>10 DEF ReadPath, ReadPage, store
  <2>1. CASE UNCHANGED <<since, got>>
    BY <1>0, <2>0, <2>1, PagesKept
  <2>2. CASE /\ got' = [got EXCEPT ![p] = got[p] \o Page(p)]
             /\ since' = [since EXCEPT ![p] = NewCursor(p)]
    <3>1. Intact' <=> Intact
      BY <2>0 DEF Intact
    <3>2. \A q \in Actor : where'[q] \in {"append", "flush"} => where[q] \in {"append", "flush"}
      BY <1>0, <2>0
    <3>3. CASE ~Intact
      BY <2>0, <3>1, <3>3 DEF PagesInv, PagesAreComplete
    <3>4. CASE Intact
      <4>1. /\ lines[path] \in Seq(Nat) /\ lines[path] = Upto(Len(lines[path]))
        BY <2>0, <3>4, AtTheFile
      <4>2. /\ since \in [Actor -> Nat] /\ got \in [Actor -> Seq(Nat)]
            /\ \A q \in Actor : got[q] = [n \in 1..since[q] |-> n]
        BY <3>4 DEF PagesInv, PagesAreComplete
      <4>3. PICK m \in Nat, mark \in Nat : m = Len(lines[path]) /\ mark = since[p]
        BY <4>1, <4>2
      <4>4. PICK k \in Nat : Page(p) = [i \in 1..k |-> mark + i] /\ NewCursor(p) = mark + k
        BY <4>1, <4>3, PageNumbered
      <4>5. got[p] \o Page(p) = Upto(mark) \o [i \in 1..k |-> mark + i]
        BY <4>2, <4>3, <4>4 DEF Upto
      <4>6. /\ Upto(mark) \o [i \in 1..k |-> mark + i] = Upto(mark + k)
            /\ Upto(mark + k) \in Seq(Nat)
        BY DEF Upto
      <4>7. /\ since' \in [Actor -> Nat] /\ got' \in [Actor -> Seq(Nat)]
            /\ since'[p] = mark + k /\ got'[p] = Upto(mark + k)
            /\ \A q \in Actor \ {p} : since'[q] = since[q] /\ got'[q] = got[q]
        <5>1. got' = [got EXCEPT ![p] = Upto(mark + k)]
          BY <2>2, <4>5, <4>6
        <5>2. since' = [since EXCEPT ![p] = mark + k] /\ mark + k \in Nat
          BY <2>2, <4>4
        <5>3. QED
          BY <4>2, <4>6, <5>1, <5>2
      <4>8. \A q \in Actor : got'[q] = [n \in 1..since'[q] |-> n]
        BY <4>2, <4>7 DEF Upto
      <4>9. PagesAreComplete'
        BY <2>0, <3>4, <4>8 DEF PagesInv, PagesAreComplete
      <4>10. QED
        BY <2>0, <3>1, <3>2, <3>4, <4>7, <4>9 DEF PagesInv
    <3>5. QED
      BY <3>3, <3>4
  <2>3. QED
    BY <1>10, <2>1, <2>2 DEF ReadPath, ReadPage
<1>11. ASSUME NEW p \in Actor, NextPage(p) PROVE PagesInv'
  BY <1>0, <1>11, PagesKept DEF NextPage, store
<1>12. ASSUME NEW p \in Actor, StatJournal(p) PROVE PagesInv'
  BY <1>0, <1>12, PagesKept DEF StatJournal, store, reading
<1>13. ASSUME NEW p \in Actor, OpenToPrune(p) PROVE PagesInv'
  BY <1>0, <1>13, PagesKept DEF OpenToPrune, store, reading
<1>14. ASSUME NEW p \in Actor, LockToPrune(p) PROVE PagesInv'
  BY <1>0, <1>14, PagesKept DEF LockToPrune, store, reading
<1>15. ASSUME NEW p \in Actor, RemoveJournal(p) PROVE PagesInv'
  <2>1. where[p] = "remove" /\ path' = NoFile /\ files' = files
    BY <1>15 DEF RemoveJournal
  <2>2. ~Intact'
    <3>1. SUFFICES ASSUME Intact' PROVE FALSE
      OBVIOUS
    <3>2. files = 0
      BY <2>1, <3>1 DEF Intact, NoFile
    <3>3. path = 0 /\ Intact
      BY <3>2 DEF PagesInv, Intact
    <3>4. QED
      BY <2>1, <3>3, AtTheFile DEF NoFile
  <2>3. files' \in 0..MaxFiles /\ path' \in 0..files'
    BY <2>1 DEF PagesInv, NoFile
  <2>4. QED
    BY <2>2, <2>3 DEF PagesInv, PagesAreComplete
<1>16. CASE AgeJournal
  BY <1>16, PagesKept DEF AgeJournal, reading
<1>17. ASSUME NEW p \in Actor, KillActor(p) PROVE PagesInv'
  BY <1>0, <1>17, PagesKept DEF KillActor, store, reading
<1>18. QED
  BY <1>1, <1>2, <1>3, <1>4, <1>5, <1>6, <1>7, <1>8, <1>9, <1>10, <1>11, <1>12, <1>13,
     <1>14, <1>15, <1>16, <1>17 DEF JournalNext, Write, Read, Prune

(* However many writers one after another are killed at their records, and    *)
(* whatever the size of a page, the pages of `oca events` hold every record   *)
(* once and in order, up to the reader's cursor, while the journal stays.     *)
THEOREM PagesComplete == JournalSpec => []PagesAreComplete
<1>1. PagesInv => PagesAreComplete
  BY DEF PagesInv
<1>2. QED
  BY <1>1, InitJournal, NextJournal, InitPages, NextPages, PTL DEF JournalSpec

-----------------------------------------------------------------------------
(* The types of the journal.                                                *)

(* What is behind a cursor are records of the file: were it not so, there     *)
(* would be a shortest part of the file without a solution.                  *)
Solves(g, S, s, mark, n) ==
  /\ g \in [0..n -> Seq(S)] /\ g[0] = <<>>
  /\ \A i \in 1..n : g[i] = IF s[i] > mark THEN Append(g[i - 1], s[i]) ELSE g[i - 1]

LEMMA LongerSolution ==
  ASSUME NEW S, NEW s \in Seq(S), NEW mark, NEW n \in 1..Len(s), NEW g,
         Solves(g, S, s, mark, n - 1)
  PROVE  \E f : Solves(f, S, s, mark, n)
<1>0. n \in Nat \ {0} /\ Len(s) \in Nat /\ s[n] \in S
  OBVIOUS
<1>1. PICK k \in Nat : k = n - 1
  BY <1>0
<1>2. /\ g \in [0..k -> Seq(S)] /\ g[0] = <<>>
      /\ \A i \in 1..k : g[i] = IF s[i] > mark THEN Append(g[i - 1], s[i]) ELSE g[i - 1]
  BY <1>1 DEF Solves
<1>3. PICK last \in Seq(S) : last = IF s[n] > mark THEN Append(g[k], s[n]) ELSE g[k]
  <2>1. g[k] \in Seq(S)
    BY <1>1, <1>2
  <2>2. Append(g[k], s[n]) \in Seq(S)
    BY <1>0, <2>1
  <2>3. QED
    BY <2>1, <2>2
<1>4. PICK f : f = [i \in 0..n |-> IF i = n THEN last ELSE g[i]]
  OBVIOUS
<1>5. \A i \in 0..n : i = n \/ i \in 0..k
  BY <1>1
<1>6. f \in [0..n -> Seq(S)]
  BY <1>2, <1>3, <1>4, <1>5
<1>7. f[0] = <<>>
  BY <1>0, <1>2, <1>4
<1>8. \A i \in 0..k : f[i] = g[i]
  BY <1>0, <1>1, <1>4
<1>9. ASSUME NEW i \in 1..n
      PROVE  f[i] = IF s[i] > mark THEN Append(f[i - 1], s[i]) ELSE f[i - 1]
  <2>1. CASE i = n
    <3>1. f[i] = last /\ f[i - 1] = g[k]
      BY <1>0, <1>1, <1>4, <1>8, <2>1
    <3>2. QED
      BY <1>3, <2>1, <3>1
  <2>2. CASE i # n
    <3>1. i \in 1..k /\ i \in 0..k /\ i - 1 \in 0..k
      BY <1>0, <1>1, <2>2
    <3>2. f[i] = g[i] /\ f[i - 1] = g[i - 1]
      BY <1>8, <3>1
    <3>3. g[i] = IF s[i] > mark THEN Append(g[i - 1], s[i]) ELSE g[i - 1]
      BY <1>2, <3>1
    <3>4. QED
      BY <3>2, <3>3
  <2>3. QED
    BY <2>1, <2>2
<1>10. QED
  BY <1>6, <1>7, <1>9 DEF Solves

LEMMA AfterIsTyped ==
  ASSUME NEW S, NEW s \in Seq(S), NEW mark
  PROVE  After(s, mark) \in Seq(S)
<1>0. PICK m \in Nat : m = Len(s)
  OBVIOUS
<1> DEFINE Unsolved == {n \in 0..m : ~\E g : Solves(g, S, s, mark, n)}
<1>1. Unsolved = {}
  <2> SUFFICES ASSUME Unsolved # {} PROVE FALSE
    OBVIOUS
  <2>1. Unsolved \in SUBSET Nat
    OBVIOUS
  <2>2. PICK n \in Unsolved : \A k \in Unsolved : n <= k
    <3> HIDE DEF Unsolved
    <3>1. QED
      BY <2>1, Least
  <2>3. CASE n = 0
    <3>1. PICK g : g = [i \in 0..0 |-> <<>>]
      OBVIOUS
    <3>2. g \in [0..0 -> Seq(S)] /\ g[0] = <<>>
      BY <3>1
    <3>3. Solves(g, S, s, mark, 0)
      BY <3>2 DEF Solves
    <3>4. QED
      BY <2>3, <3>3
  <2>4. CASE n # 0
    <3>1. n \in 1..Len(s) /\ n - 1 \in 0..m /\ ~(n <= n - 1)
      BY <1>0, <2>4
    <3>2. PICK g : Solves(g, S, s, mark, n - 1)
      BY <2>2, <3>1
    <3>3. QED
      BY <2>2, <3>1, <3>2, LongerSolution
  <2>5. QED
    BY <2>3, <2>4
<1>2. PICK g : Solves(g, S, s, mark, m)
  <2>1. m \in 0..m
    OBVIOUS
  <2>2. m \notin Unsolved
    BY <1>1
  <2>3. QED
    BY <2>1, <2>2
<1>3. Leaves(g, s, mark, m)
  <2>1. g = [i \in 0..m |-> g[i]] /\ g[0] = <<>>
    BY <1>2 DEF Solves
  <2>2. \A i \in 1..m : g[i] = IF s[i] > mark THEN Append(g[i - 1], s[i]) ELSE g[i - 1]
    BY <1>2 DEF Solves
  <2>3. \A i \in 0..m : i = 0 \/ i \in 1..m
    OBVIOUS
  <2>4. ASSUME NEW i \in 0..m
        PROVE  g[i] = IF i = 0 THEN <<>>
                      ELSE IF s[i] > mark THEN Append(g[i - 1], s[i]) ELSE g[i - 1]
    <3>1. CASE i = 0
      BY <2>1, <3>1
    <3>2. CASE i # 0
      <4>1. i \in 1..m
        BY <2>3, <3>2
      <4>2. QED
        BY <2>2, <3>2, <4>1
    <3>3. QED
      BY <3>1, <3>2
  <2>5. QED
    BY <2>1, <2>4 DEF Leaves
<1>4. After(s, mark) = g[m]
  BY <1>0, <1>3, AfterIs
<1>5. QED
  BY <1>0, <1>2, <1>4 DEF Solves

(* The types of the journal, where `JournalTypes` leaves them open; a record   *)
(* that is being written has its number.                                     *)
RecordTypes ==
  /\ files \in 0..MaxFiles /\ path \in 0..files
  /\ lines \in [File -> Seq(1..MaxLines)]
  /\ next \in [Actor -> 1..(MaxLines + 1)]
  /\ \A p \in Actor : where[p] = "flush" => next[p] <= MaxLines

FlagTypes ==
  /\ torn \in [File -> BOOLEAN] /\ old \in [File -> BOOLEAN]
  /\ role \in [Actor -> {"write", "read", "prune"}]
  /\ fd \in [Actor -> 0..files] /\ moved \subseteq Actor

ReaderTypes ==
  /\ since \in [Actor -> 0..MaxLines] /\ got \in [Actor -> Seq(1..MaxLines)]
  /\ pages \in [Actor -> 0..MaxPages]

RecordInv == RecordTypes /\ FlagTypes /\ ReaderTypes

LEMMA InitRecords == JournalInit => RecordInv
<1> SUFFICES ASSUME JournalInit PROVE RecordInv
  OBVIOUS
<1>1. /\ MaxFiles \in Nat \ {0} /\ MaxLines \in Nat \ {0} /\ MaxPages \in Nat
      /\ path \in {0, 1} /\ files = path
  BY JournalAssumption DEF JournalInit
<1>2. <<1>> \in Seq(1..MaxLines) /\ <<>> \in Seq(1..MaxLines)
  <2>1. 1 \in 1..MaxLines
    BY <1>1
  <2>2. QED
    BY <2>1
<1>3. lines \in [File -> Seq(1..MaxLines)]
  BY <1>2 DEF JournalInit
<1>4. RecordTypes
  BY <1>1, <1>3 DEF JournalInit, RecordTypes
<1>5. FlagTypes
  BY <1>1 DEF JournalInit, FlagTypes, NoFile
<1>6. ReaderTypes
  BY <1>1, <1>2 DEF JournalInit, ReaderTypes
<1>7. QED
  BY <1>4, <1>5, <1>6 DEF RecordInv

LEMMA RecordsKept ==
  ASSUME RecordTypes, UNCHANGED <<lines, next>>,
         files' \in 0..MaxFiles, path' \in 0..files',
         \A p \in Actor : where'[p] = "flush" => where[p] = "flush"
  PROVE  RecordTypes'
  BY DEF RecordTypes, File

LEMMA NextRecords ==
  ASSUME JournalIInv, RecordTypes, [JournalNext]_journalVars
  PROVE  RecordTypes'
<1>0. /\ where \in [Actor -> {"open", "lock", "scan", "append", "flush", "stat", "read",
                              "remove", "ended", "killed"}]
      /\ MaxFiles \in Nat /\ MaxLines \in Nat \ {0}
      /\ files \in 0..MaxFiles /\ path \in 0..files /\ 0 \in 0..files
      /\ lines \in [File -> Seq(1..MaxLines)] /\ next \in [Actor -> 1..(MaxLines + 1)]
  BY JournalAssumption DEF JournalIInv, JournalTypes, RecordTypes
<1> USE DEF Go, Close, Stay, store, reading
<1>a. ASSUME UNCHANGED <<files, path, lines, next>>,
             NEW p \in Actor, NEW to, to # "flush", where' = [where EXCEPT ![p] = to]
      PROVE  RecordTypes'
  BY <1>0, <1>a, RecordsKept
<1>1. CASE UNCHANGED journalVars
  BY <1>0, <1>1, RecordsKept DEF journalVars
<1>2. ASSUME NEW p \in Actor, OpenToWrite(p) PROVE RecordTypes'
  <2>1. /\ UNCHANGED <<lines, next>> /\ where' = [where EXCEPT ![p] = "lock"]
        /\ files' \in 0..MaxFiles /\ path' \in 0..files'
    BY <1>0, <1>2 DEF OpenToWrite
  <2>2. \A q \in Actor : where'[q] = "flush" => where[q] = "flush"
    BY <1>0, <2>1
  <2>3. QED
    BY <2>1, <2>2, RecordsKept
<1>3. ASSUME NEW p \in Actor, ScanPath(p) PROVE RecordTypes'
  <2>1. CASE path # NoFile /\ torn[path]
    BY <1>3, <1>a, <2>1 DEF ScanPath
  <2>2. CASE ~(path # NoFile /\ torn[path])
    <3>1. /\ UNCHANGED <<files, path, lines>> /\ where' = [where EXCEPT ![p] = "append"]
          /\ next' = [next EXCEPT ![p] = NextSequence(path)]
      BY <1>3, <2>2 DEF ScanPath
    <3>2. NextSequence(path) \in 1..(MaxLines + 1)
      <4>1. CASE path = NoFile \/ lines[path] = <<>>
        BY <1>0, <4>1 DEF NextSequence
      <4>2. CASE path # NoFile /\ lines[path] # <<>>
        <5>1. PICK s \in Seq(1..MaxLines) : s = lines[path]
          BY <1>0, <4>2 DEF NoFile, File
        <5>2. s[Len(s)] \in 1..MaxLines
          <6>1. s # <<>>
            BY <4>2, <5>1
          <6>2. Len(s) \in 1..Len(s)
            BY <6>1
          <6>3. \A i \in 1..Len(s) : s[i] \in 1..MaxLines
            BY ElementOfSeq
          <6>4. QED
            BY <6>2, <6>3
        <5>3. PICK n \in 1..MaxLines : n = lines[path][Len(lines[path])]
          BY <5>1, <5>2
        <5>4. NextSequence(path) = n + 1
          BY <4>2, <5>3 DEF NextSequence
        <5>5. QED
          BY <1>0, <5>4
      <4>3. QED
        BY <4>1, <4>2
    <3>3. next' \in [Actor -> 1..(MaxLines + 1)]
      BY <1>0, <3>1, <3>2
    <3>4. ASSUME NEW q \in Actor, where'[q] = "flush" PROVE next'[q] <= MaxLines
      <4>1. q # p /\ where[q] = "flush" /\ next'[q] = next[q]
        BY <1>0, <3>1, <3>4
      <4>2. QED
        BY <4>1 DEF RecordTypes
    <3>5. QED
      BY <1>0, <3>1, <3>3, <3>4 DEF RecordTypes
  <2>3. QED
    BY <2>1, <2>2
<1>4. ASSUME NEW p \in Actor, BeginRecord(p) PROVE RecordTypes'
  <2>1. /\ UNCHANGED <<files, path, lines, next>> /\ next[p] <= MaxLines
        /\ where' = [where EXCEPT ![p] = "flush"]
    BY <1>4 DEF BeginRecord
  <2>2. \A q \in Actor : where'[q] = "flush" => next[q] <= MaxLines
    BY <1>0, <2>1 DEF RecordTypes
  <2>3. QED
    BY <1>0, <2>1, <2>2 DEF RecordTypes
<1>5. ASSUME NEW p \in Actor, EndRecord(p) PROVE RecordTypes'
  <2>1. /\ UNCHANGED <<files, path>> /\ where[p] = "flush"
        /\ where' = [where EXCEPT ![p] = "append"]
        /\ lines' = [lines EXCEPT ![fd[p]] = Append(@, next[p])]
        /\ next' = [next EXCEPT ![p] = next[p] + 1]
    BY <1>5 DEF EndRecord
  <2>2. next[p] \in 1..MaxLines
    BY <1>0, <2>1 DEF RecordTypes
  <2>3. next' \in [Actor -> 1..(MaxLines + 1)]
    BY <1>0, <2>1, <2>2
  <2>4. \A f \in File : Append(lines[f], next[p]) \in Seq(1..MaxLines)
    BY <1>0, <2>2
  <2>5. lines' \in [File -> Seq(1..MaxLines)]
    BY <1>0, <2>1, <2>4
  <2>6. ASSUME NEW q \in Actor, where'[q] = "flush" PROVE next'[q] <= MaxLines
    <3>1. q # p /\ where[q] = "flush" /\ next'[q] = next[q]
      BY <1>0, <2>1, <2>6
    <3>2. QED
      BY <3>1 DEF RecordTypes
  <2>7. QED
    BY <1>0, <2>1, <2>3, <2>5, <2>6 DEF RecordTypes
<1>6. ASSUME NEW p \in Actor,
             LockToWrite(p) \/ WriteFails(p) \/ EndWriting(p) \/ KillActor(p)
      PROVE  RecordTypes'
  BY <1>6, <1>a DEF LockToWrite, WriteFails, EndWriting, KillActor
<1>7. ASSUME NEW p \in Actor, Read(p) PROVE RecordTypes'
  BY <1>7, <1>a DEF Read, OpenToRead, TryShared, ReadPath, ReadPage, NextPage
<1>8. ASSUME NEW p \in Actor, StatJournal(p) \/ OpenToPrune(p) \/ LockToPrune(p)
      PROVE  RecordTypes'
  BY <1>8, <1>a DEF StatJournal, OpenToPrune, LockToPrune
<1>9. ASSUME NEW p \in Actor, RemoveJournal(p) PROVE RecordTypes'
  <2>1. /\ UNCHANGED <<lines, next, files>> /\ where' = [where EXCEPT ![p] = "ended"]
        /\ files' \in 0..MaxFiles /\ path' \in 0..files'
    BY <1>0, <1>9 DEF RemoveJournal, NoFile
  <2>2. \A q \in Actor : where'[q] = "flush" => where[q] = "flush"
    BY <1>0, <2>1
  <2>3. QED
    BY <2>1, <2>2, RecordsKept
<1>10. CASE AgeJournal
  BY <1>0, <1>10, RecordsKept DEF AgeJournal
<1>11. QED
  BY <1>1, <1>2, <1>3, <1>4, <1>5, <1>6, <1>7, <1>8, <1>9, <1>10
     DEF JournalNext, Write, Prune

LEMMA NextFlags ==
  ASSUME JournalIInv, RecordTypes, FlagTypes, [JournalNext]_journalVars
  PROVE  FlagTypes'
<1>0. files \in Nat /\ path \in 0..files /\ 0 \in 0..files
  BY DEF RecordTypes
<1> USE DEF Go, Close, Stay, store, reading, FlagTypes
<1>1. CASE UNCHANGED <<files, torn, old, role, fd, moved>>
  BY <1>1
<1>2. ASSUME NEW p \in Actor, OpenToWrite(p) PROVE FlagTypes'
  <2>1. /\ UNCHANGED <<torn, old, role, moved>>
        /\ files' \in {files, files + 1} /\ path' \in 0..files'
        /\ fd' = [fd EXCEPT ![p] = path']
    BY <1>0, <1>2 DEF OpenToWrite
  <2>2. fd \in [Actor -> 0..files']
    BY <1>0, <2>1
  <2>3. QED
    BY <2>1, <2>2
<1>3. ASSUME NEW p \in Actor, BeginRecord(p) \/ EndRecord(p) PROVE FlagTypes'
  BY <1>3 DEF BeginRecord, EndRecord
<1>4. ASSUME NEW p \in Actor, OpenToRead(p) \/ OpenToPrune(p) PROVE FlagTypes'
  BY <1>0, <1>4 DEF OpenToRead, OpenToPrune
<1>5. ASSUME NEW p \in Actor, RemoveJournal(p) PROVE FlagTypes'
  BY <1>5 DEF RemoveJournal
<1>6. CASE AgeJournal
  BY <1>6 DEF AgeJournal
<1>7. ASSUME NEW p \in Actor,
             \/ LockToWrite(p) \/ ScanPath(p) \/ WriteFails(p) \/ EndWriting(p)
             \/ TryShared(p) \/ ReadPath(p) \/ NextPage(p)
             \/ StatJournal(p) \/ LockToPrune(p) \/ KillActor(p)
      PROVE  FlagTypes'
  BY <1>1, <1>7 DEF LockToWrite, ScanPath, WriteFails, EndWriting, TryShared, ReadPath,
     NextPage, StatJournal, LockToPrune, KillActor
<1>8. QED
  BY <1>1, <1>2, <1>3, <1>4, <1>5, <1>6, <1>7
     DEF JournalNext, Write, Read, Prune, journalVars

(* A page takes records of the file.                                        *)
LEMMA PageIsTyped ==
  ASSUME RecordTypes, ReaderTypes, path # NoFile, NEW p \in Actor
  PROVE  Page(p) \in Seq(1..MaxLines) /\ NewCursor(p) \in 0..MaxLines
<1>0. PageLimit \in Nat /\ MaxLines \in Nat /\ since[p] \in 0..MaxLines
  BY JournalAssumption DEF ReaderTypes
<1>1. lines[path] \in Seq(1..MaxLines)
  <2>1. MaxFiles \in Nat /\ files \in 0..MaxFiles /\ path \in 0..files /\ path # 0
    BY JournalAssumption DEF RecordTypes, NoFile
  <2>2. path \in File
    BY <2>1 DEF File
  <2>3. QED
    BY <2>2 DEF RecordTypes
<1>2. PICK newer \in Seq(1..MaxLines) : newer = Newer(p)
  BY <1>1, AfterIsTyped DEF Newer
<1>3. PICK n \in 0..Len(newer) : n = Min({PageLimit, Len(newer)})
  BY <1>0, <1>2 DEF Min
<1>4. PICK page : page = SubSeq(newer, 1, n)
  OBVIOUS
<1>5. page \in Seq(1..MaxLines) /\ page = Page(p)
  <2>1. page = Page(p)
    BY <1>2, <1>3, <1>4 DEF Page
  <2>2. \A i \in 1..n : newer[i] \in 1..MaxLines
    <3>1. \A i \in 1..Len(newer) : newer[i] \in 1..MaxLines
      BY ElementOfSeq
    <3>2. QED
      BY <1>3, <3>1
  <2>3. page = [i \in 1..n |-> newer[i]]
    BY <1>3, <1>4
  <2>4. n \in Nat
    BY <1>3
  <2>5. page \in Seq(1..MaxLines)
    BY <2>2, <2>3, <2>4
  <2>6. QED
    BY <2>1, <2>5
<1>6. ASSUME page # <<>> PROVE page[Len(page)] \in 0..MaxLines
  <2>1. Len(page) \in 1..Len(page)
    BY <1>5, <1>6
  <2>2. page[Len(page)] \in 1..MaxLines
    BY <1>5, <2>1, ElementOfSeq
  <2>3. QED
    BY <1>0, <2>2
<1>7. NewCursor(p) \in 0..MaxLines
  BY <1>0, <1>5, <1>6 DEF NewCursor
<1>8. QED
  BY <1>5, <1>7

LEMMA NextReader ==
  ASSUME RecordTypes, ReaderTypes, [JournalNext]_journalVars
  PROVE  ReaderTypes'
<1>0. MaxPages \in Nat
  BY JournalAssumption
<1> USE DEF Go, Close, Stay, store, reading
<1>1. CASE UNCHANGED <<since, got, pages>>
  BY <1>1 DEF ReaderTypes
<1>2. ASSUME NEW p \in Actor, ReadPath(p) PROVE ReaderTypes'
  <2>1. CASE UNCHANGED <<since, got>>
    BY <1>1, <1>2, <2>1 DEF ReadPath
  <2>2. CASE /\ path # NoFile
             /\ got' = [got EXCEPT ![p] = got[p] \o Page(p)]
             /\ since' = [since EXCEPT ![p] = NewCursor(p)]
    <3>1. PICK page \in Seq(1..MaxLines) : page = Page(p)
      BY <2>2, PageIsTyped
    <3>2. NewCursor(p) \in 0..MaxLines /\ got[p] \in Seq(1..MaxLines)
      BY <2>2, PageIsTyped DEF ReaderTypes
    <3>3. got[p] \o Page(p) \in Seq(1..MaxLines)
      BY <3>1, <3>2
    <3>4. pages' = pages
      BY <1>2 DEF ReadPath
    <3>5. QED
      BY <2>2, <3>2, <3>3, <3>4 DEF ReaderTypes
  <2>3. QED
    BY <1>2, <2>1, <2>2 DEF ReadPath, ReadPage
<1>3. ASSUME NEW p \in Actor, NextPage(p) PROVE ReaderTypes'
  <2>1. /\ UNCHANGED <<since, got>> /\ pages[p] < MaxPages
        /\ pages' = [pages EXCEPT ![p] = pages[p] + 1]
    BY <1>3 DEF NextPage
  <2>2. QED
    BY <1>0, <2>1 DEF ReaderTypes
<1>4. ASSUME NEW p \in Actor, Write(p) \/ Prune(p) \/ KillActor(p) PROVE ReaderTypes'
  BY <1>1, <1>4 DEF Write, Prune, OpenToWrite, LockToWrite, ScanPath, BeginRecord, EndRecord,
     WriteFails, EndWriting, StatJournal, OpenToPrune, LockToPrune, RemoveJournal, KillActor
<1>5. ASSUME NEW p \in Actor, OpenToRead(p) \/ TryShared(p) PROVE ReaderTypes'
  BY <1>1, <1>5 DEF OpenToRead, TryShared
<1>6. CASE AgeJournal
  BY <1>1, <1>6 DEF AgeJournal
<1>7. QED
  BY <1>1, <1>2, <1>3, <1>4, <1>5, <1>6 DEF JournalNext, Read, journalVars

LEMMA NextRecordInv == JournalIInv /\ RecordInv /\ [JournalNext]_journalVars => RecordInv'
  BY NextRecords, NextFlags, NextReader DEF RecordInv

LEMMA JournalIsTyped == JournalIInv /\ RecordInv => JournalTypeOK
  BY DEF JournalIInv, JournalTypes, JournalInv, RecordInv, RecordTypes, FlagTypes, ReaderTypes,
     JournalTypeOK

(* The types of the journal: whatever is torn, pruned and made again, its     *)
(* records, the numbers its writers go on with, and the pages and cursors of  *)
(* its readers are record numbers within the bound.                          *)
THEOREM JournalTypesHold == JournalSpec => []JournalTypeOK
  BY InitJournal, NextJournal, InitRecords, NextRecordInv, JournalIsTyped, PTL DEF JournalSpec

-----------------------------------------------------------------------------
(* The journal of a follow.                                                 *)

LEMMA LastIsNat == JournalingInv => LastEvent \in Nat
  BY SetupAssumption DEF JournalingInv, LastEvent, turn

LEMMA InitJournaling == FollowInit => JournalingInv
<1> SUFFICES ASSUME FollowInit PROVE JournalingInv
  OBVIOUS
<1>1. LastEvent \in Nat
  BY SetupAssumption DEF FollowInit, LastEvent, turn
<1> HIDE DEF LastEvent
<1>2. QED
  BY <1>1 DEF FollowInit, JournalingInv, JournalExact, JournalComplete, Flying, InJournal,
     Active

(* What no step of the follow changes.                                      *)
LEMMA TurnIsFixed ==
  ASSUME setup' = setup
  PROVE  LastEvent' = LastEvent /\ turn' = turn
  BY DEF LastEvent, turn

(* Steps that only leave the place, or end the follow.                      *)
LEMMA JournalingKept ==
  ASSUME JournalingInv,
         UNCHANGED <<setup, cursor, seen, log, stored, runs, first>>,
         sent' \in 0..LastEvent, nxt' \in 1..(LastEvent + 1),
         \/ pc' = pc /\ nxt' = nxt
         \/ pc' \in {"over", "killed"}
         \/ pc = "join" /\ pc' = "listen" /\ nxt' = nxt
         \/ pc \in {"listen", "broken", "retry"} /\ pc' \in {"broken", "retry"}
  PROVE  JournalingInv'
<1> HIDE DEF LastEvent
<1>1. LastEvent \in Nat /\ LastEvent' = LastEvent /\ turn' = turn
  BY LastIsNat, TurnIsFixed
<1>2. \A i : InJournal(i)' <=> InJournal(i)
  BY <1>1 DEF InJournal
<1>3. \A i : Flying(i)' => Flying(i)
  BY DEF Flying
<1>4. JournalExact'
  BY <1>1 DEF JournalingInv, JournalExact, JournalComplete
<1>5. Active' => Active /\ \A i : Flying(i)' <=> Flying(i)
  BY DEF Active, Flying
<1>6. setup.ids' => \A i \in 1..LastEvent' :
        log'[i] <= IF i \in seen' /\ ~Flying(i)' THEN 1 + runs' ELSE runs'
  BY <1>1, <1>3 DEF JournalingInv
<1>7. setup.replays' /\ first' > 0 =>
       /\ pc' \in {"start", "join", "listen", "broken", "retry"} =>
            \A i \in first'..cursor' : InJournal(i)'
       /\ pc' \in {"join", "listen", "append", "persist"} =>
            \A i \in first'..(nxt' - 1) : ~Flying(i)' => InJournal(i)'
  BY <1>1, <1>2 DEF JournalingInv, Flying
<1>8. QED
  BY <1>1, <1>2, <1>4, <1>5, <1>6, <1>7 DEF JournalingInv

LEMMA ObserveEnds ==
  ASSUME NEW from, Observe(from)
  PROVE  pc = from /\ pc' \in {"over", "listen"}
  BY DEF Observe, EndFollow, Pass

LEMMA JoinStep ==
  ASSUME JournalingInv, Subscribe \/ Resubscribe
  PROVE  JournalingInv'
<1> HIDE DEF LastEvent
<1>1. LastEvent \in Nat /\ LastEvent' = LastEvent /\ turn' = turn
  BY LastIsNat, TurnIsFixed DEF Subscribe, Resubscribe
<1>2. /\ UNCHANGED <<setup, sent, seen, cursor, log, stored, runs>>
      /\ pc \in {"start", "retry"} /\ pc' \in {"join", "listen"}
      /\ nxt' \in Positions /\ first' = IF Replayed THEN first ELSE nxt'
  BY DEF Subscribe, Resubscribe, Pass, tracker, durable
<1>3. /\ sent \in 0..LastEvent /\ cursor \in 0..LastEvent /\ stored \in 0..LastEvent
      /\ first \in 0..(LastEvent + 1)
      /\ (cursor = 0 => stored = 0)
      /\ setup.replays /\ first > 0 => \A i \in first..cursor : InJournal(i)
  BY <1>2 DEF JournalingInv
<1>4. nxt' \in 1..(LastEvent + 1) /\ first' \in 0..(LastEvent + 1)
  BY <1>1, <1>2, <1>3 DEF Positions, Replayed
<1>5. \A i : (InJournal(i)' <=> InJournal(i)) /\ ~Flying(i) /\ ~Flying(i)'
  BY <1>1, <1>2 DEF InJournal, Flying
<1>6. setup.replays' /\ first' > 0 =>
        /\ \A i \in first'..cursor' : InJournal(i)'
        /\ \A i \in first'..(nxt' - 1) : InJournal(i)'
        /\ \A i \in first'..stored' : InJournal(i)'
  <2>1. CASE Replayed
    <3>1. /\ first' = first /\ first \in Nat /\ cursor \in Nat
          /\ nxt' = cursor \/ nxt' = cursor + 1
      <4>1. first' = first /\ Positions = {cursor, cursor + 1}
        BY <1>2, <2>1 DEF Positions
      <4>2. QED
        BY <1>1, <1>2, <1>3, <4>1
    <3>2. setup.replays /\ first > 0 => \A i \in first..stored : InJournal(i)
      BY DEF JournalingInv, JournalExact, JournalComplete, InJournal
    <3>3. setup.replays /\ first > 0 =>
            \A i \in first..cursor \cup first..(nxt' - 1) \cup first..stored : InJournal(i)
      <4>1. PICK m \in {cursor, cursor + 1} : m = nxt'
        BY <3>1
      <4>2. cursor \in Nat /\ first \in Nat
        BY <3>1
      <4>3. first..(m - 1) \subseteq first..cursor
        BY <4>2
      <4>4. QED
        BY <1>2, <1>3, <3>2, <4>1, <4>3
    <3>4. setup' = setup /\ first' = first /\ cursor' = cursor /\ stored' = stored
      BY <1>2, <3>1
    <3>5. QED
      BY <1>5, <3>3, <3>4
  <2>2. CASE ~Replayed
    <3> SUFFICES ASSUME setup.replays, NEW i \in first'..cursor \cup first'..(nxt' - 1)
                                                \cup first'..stored
                 PROVE  FALSE
      BY <1>2
    <3>1. PICK m \in Nat \ {0} : m = nxt' /\ m = first'
      BY <1>1, <1>2, <1>4, <2>2
    <3>2. cursor = 0 /\ stored = 0
      BY <1>3, <2>2 DEF Replayed
    <3>3. i \in m..0 \cup m..(m - 1)
      BY <3>1, <3>2
    <3>4. QED
      BY <3>3
  <2>3. QED
    BY <2>1, <2>2
<1>7. JournalExact'
  BY <1>1, <1>2, <1>6 DEF JournalingInv, JournalExact, JournalComplete, InJournal
<1>8. setup.ids' => \A i \in 1..LastEvent' :
        log'[i] <= IF i \in seen' /\ ~Flying(i)' THEN 1 + runs' ELSE runs'
  BY <1>1, <1>2, <1>5 DEF JournalingInv
<1>9. \A i \in seen' : InJournal(i)'
  BY <1>2, <1>5 DEF JournalingInv, Active
<1>10. QED
  BY <1>1, <1>2, <1>3, <1>4, <1>6, <1>7, <1>8, <1>9 DEF JournalingInv

LEMMA DeliverStep ==
  ASSUME JournalingInv, Deliver
  PROVE  JournalingInv'
<1> HIDE DEF LastEvent
<1>1. LastEvent \in Nat /\ LastEvent' = LastEvent /\ turn' = turn
  BY LastIsNat, TurnIsFixed DEF Deliver
<1>2. /\ UNCHANGED <<setup, sent, log, stored, runs, first>>
      /\ pc = "listen" /\ nxt <= sent /\ nxt' = nxt + 1
      /\ cursor' = IF setup.ids THEN nxt ELSE cursor
  BY DEF Deliver, Pass, durable, ghosts
<1>3. /\ sent \in 0..LastEvent /\ nxt \in 1..LastEvent /\ cursor \in 0..LastEvent /\ stored \in 0..LastEvent
      /\ first \in 0..(LastEvent + 1)
      /\ seen \subseteq 1..LastEvent
      /\ (cursor = 0 => stored = 0) /\ (~setup.ids => cursor = 0)
      /\ \A i : ~Flying(i)
      /\ \A i \in seen : InJournal(i)
      /\ setup.replays /\ first > 0 => \A i \in first..(nxt - 1) : InJournal(i)
  BY <1>1, <1>2 DEF JournalingInv, Active, Flying
<1>4. \/ pc' = "listen" /\ InJournal(nxt) /\ \A i \in seen' \ seen : InJournal(i)
      \/ pc' = "append"
  BY <1>3 DEF Deliver, Pass, InJournal
<1>5. /\ seen \subseteq seen' /\ seen' \subseteq seen \cup {nxt}
      /\ pc' = "append" /\ setup.ids => nxt \in seen'
      /\ pc' = "append" => nxt \notin seen
  BY DEF Deliver, Pass
<1>6. \A i : InJournal(i)' <=> InJournal(i)
  BY <1>1, <1>2 DEF InJournal
<1>7. \A i : Flying(i)' <=> (pc' = "append" /\ i = nxt)
  BY <1>2, <1>3 DEF Flying
<1>8. setup.replays' /\ first' > 0 =>
       /\ pc' \in {"start", "join", "listen", "broken", "retry"} =>
            \A i \in first'..cursor' : InJournal(i)'
       /\ pc' \in {"join", "listen", "append", "persist"} =>
            \A i \in first'..(nxt' - 1) : ~Flying(i)' => InJournal(i)'
  BY <1>1, <1>2, <1>3, <1>4, <1>6, <1>7
<1>9. \A i \in seen' : ~Flying(i)' => InJournal(i)'
  BY <1>2, <1>3, <1>4, <1>5, <1>6, <1>7
<1>10. setup.ids' => \A i \in 1..LastEvent' :
        log'[i] <= IF i \in seen' /\ ~Flying(i)' THEN 1 + runs' ELSE runs'
  BY <1>1, <1>2, <1>3, <1>4, <1>5, <1>7 DEF JournalingInv
<1>11. JournalExact'
  BY <1>1, <1>2 DEF JournalingInv, JournalExact, JournalComplete
<1>12. /\ cursor' \in 0..LastEvent' /\ nxt' \in 1..(LastEvent' + 1) /\ seen' \subseteq 1..LastEvent'
       /\ (cursor' = 0 => stored' = 0) /\ (~setup'.ids => cursor' = 0)
       /\ pc' \in {"append", "persist"} => nxt' > 1
       /\ pc' \in {"append", "persist"} /\ setup'.ids => nxt' - 1 \in seen' /\ cursor' = nxt' - 1
  BY <1>1, <1>2, <1>3, <1>4, <1>5
<1>13. QED
  BY <1>1, <1>2, <1>4, <1>8, <1>9, <1>10, <1>11, <1>12 DEF JournalingInv

LEMMA AppendStep ==
  ASSUME JournalingInv, AppendEvent
  PROVE  JournalingInv'
<1> HIDE DEF LastEvent
<1>1. LastEvent \in Nat /\ LastEvent' = LastEvent /\ turn' = turn
  BY LastIsNat, TurnIsFixed DEF AppendEvent
<1>2. /\ UNCHANGED <<setup, sent, seen, nxt, cursor, stored, runs, first>>
      /\ pc = "append" /\ log' = [log EXCEPT ![nxt - 1] = @ + 1]
  BY DEF AppendEvent, connection, ghosts
<1>3. \/ pc' = "persist" /\ setup.ids
      \/ pc' \in {"over", "listen"}
  BY ObserveEnds DEF AppendEvent, Pass, Persists
<1>4. /\ nxt - 1 \in 1..LastEvent /\ nxt \in 1..(LastEvent + 1) /\ cursor \in 0..LastEvent
      /\ stored \in 0..LastEvent /\ first \in 0..(LastEvent + 1) /\ runs \in Nat
      /\ seen \subseteq 1..LastEvent
      /\ log \in [1..LastEvent -> Nat]
      /\ (setup.ids => nxt - 1 \in seen /\ cursor = nxt - 1)
      /\ (~setup.ids => cursor = 0)
      /\ (\A i \in seen : i # nxt - 1 => InJournal(i))
      /\ setup.replays /\ first > 0 =>
           \A i \in first..(nxt - 1) : i # nxt - 1 => InJournal(i)
  BY <1>1, <1>2 DEF JournalingInv, Active, Flying
<1>5. /\ log' \in [1..LastEvent -> Nat] /\ log'[nxt - 1] = log[nxt - 1] + 1
      /\ \A i \in 1..LastEvent : i # nxt - 1 => log'[i] = log[i]
  BY <1>2, <1>4
<1>6. \A i \in 1..LastEvent : i = nxt - 1 \/ InJournal(i) => InJournal(i)'
  <2>1. \A i \in 1..LastEvent : log[i] > 0 => log'[i] > 0
    BY <1>1, <1>4, <1>5
  <2>2. log'[nxt - 1] > 0
    BY <1>1, <1>4, <1>5
  <2>3. QED
    BY <1>1, <1>2, <2>1, <2>2 DEF InJournal
<1>7. \A i : ~Flying(i)'
  BY <1>3 DEF Flying
<1>8. setup.ids => \A i \in 1..LastEvent :
        log'[i] <= IF i \in seen THEN 1 + runs ELSE runs
  <2>1. setup.ids => \A i \in 1..LastEvent :
          log[i] <= IF i \in seen /\ i # nxt - 1 THEN 1 + runs ELSE runs
    BY <1>2 DEF JournalingInv, Flying
  <2>2. QED
    BY <1>1, <1>4, <1>5, <2>1
<1>9. setup.replays /\ first > 0 =>
       /\ \A i \in first..(nxt - 1) : InJournal(i)'
       /\ \A i \in first..cursor : InJournal(i)'
       /\ \A i \in first..stored : InJournal(i)'
  <2>1. setup.replays /\ first > 0 => \A i \in first..stored : InJournal(i)
    BY DEF JournalingInv, JournalExact, JournalComplete, InJournal
  <2>2. setup.replays /\ first > 0 =>
          \A i \in first..(nxt - 1) \cup first..cursor \cup first..stored :
            i \in 1..LastEvent /\ (i = nxt - 1 \/ InJournal(i))
    BY <1>1, <1>4, <2>1
  <2>3. QED
    BY <1>6, <2>2
<1>10. JournalExact'
  <2>1. setup.ids => \A i \in 1..LastEvent : log'[i] <= 1 + runs
    BY <1>1, <1>4, <1>5, <1>8
  <2>2. QED
    BY <1>1, <1>2, <1>9, <2>1 DEF JournalExact, JournalComplete, InJournal
<1>11. \A i \in seen : InJournal(i)'
  BY <1>4, <1>6
<1>12. sent \in 0..LastEvent /\ setup \in Setups /\ (cursor = 0 => stored = 0)
  BY DEF JournalingInv
<1>13. QED
  BY <1>1, <1>2, <1>3, <1>4, <1>5, <1>7, <1>8, <1>9, <1>10, <1>11, <1>12 DEF JournalingInv

LEMMA PersistStep ==
  ASSUME JournalingInv, Persist
  PROVE  JournalingInv'
<1> HIDE DEF LastEvent
<1>1. LastEvent \in Nat /\ LastEvent' = LastEvent /\ turn' = turn
  BY LastIsNat, TurnIsFixed DEF Persist
<1>2. /\ UNCHANGED <<setup, sent, seen, nxt, cursor, log, runs, first>>
      /\ pc = "persist" /\ pc' \in {"over", "listen"} /\ stored' = nxt - 1
  BY ObserveEnds DEF Persist, connection, ghosts
<1>3. /\ nxt - 1 \in 1..LastEvent /\ nxt \in 1..(LastEvent + 1) /\ cursor = nxt - 1
      /\ first \in 0..(LastEvent + 1)
      /\ (setup.replays /\ first > 0 => \A i \in first..(nxt - 1) : InJournal(i))
      /\ \A i \in seen : InJournal(i)
  BY <1>1, <1>2 DEF JournalingInv, Active, Flying
<1>4. \A i : (InJournal(i)' <=> InJournal(i)) /\ ~Flying(i) /\ ~Flying(i)'
  BY <1>1, <1>2 DEF InJournal, Flying
<1>5. JournalExact'
  BY <1>1, <1>2, <1>3 DEF JournalingInv, JournalExact, JournalComplete, InJournal
<1>6. setup.ids' => \A i \in 1..LastEvent' :
        log'[i] <= IF i \in seen' /\ ~Flying(i)' THEN 1 + runs' ELSE runs'
  BY <1>1, <1>2, <1>4 DEF JournalingInv
<1>7. QED
  BY <1>1, <1>2, <1>3, <1>4, <1>5, <1>6 DEF JournalingInv

LEMMA AgainStep ==
  ASSUME JournalingInv, Again
  PROVE  JournalingInv'
<1> HIDE DEF LastEvent
<1>1. LastEvent \in Nat /\ LastEvent' = LastEvent /\ turn' = turn
  BY LastIsNat, TurnIsFixed DEF Again
<1>2. /\ UNCHANGED <<setup, sent, nxt, log, stored, first>>
      /\ pc' = "start" /\ runs' = runs + 1 /\ cursor' = stored /\ seen' = {}
      /\ pc \notin {"append", "persist"}
  BY DEF Again
<1>3. /\ stored \in 0..LastEvent /\ runs \in Nat /\ log \in [1..LastEvent -> Nat]
      /\ (setup.ids => \A i \in 1..LastEvent : log[i] <= 1 + runs)
      /\ setup.replays /\ first > 0 => \A i \in first..stored : InJournal(i)
      /\ ~setup.ids => cursor = 0
  BY DEF JournalingInv, JournalExact, JournalComplete, InJournal
<1>4. \A i : (InJournal(i)' <=> InJournal(i)) /\ ~Flying(i)'
  BY <1>1, <1>2 DEF InJournal, Flying
<1>5. setup.ids => \A i \in 1..LastEvent : log[i] <= 1 + (runs + 1)
  BY <1>1, <1>3
<1>6. JournalExact'
  BY <1>1, <1>2, <1>3, <1>5 DEF JournalExact, JournalComplete, InJournal
<1>7. QED
  BY <1>1, <1>2, <1>3, <1>4, <1>5, <1>6 DEF JournalingInv

LEMMA NextJournaling == JournalingInv /\ [FollowNext]_followVars => JournalingInv'
<1> SUFFICES ASSUME JournalingInv, [FollowNext]_followVars PROVE JournalingInv'
  OBVIOUS
<1> HIDE DEF LastEvent
<1>1. /\ LastEvent \in Nat /\ sent \in 0..LastEvent /\ nxt \in 1..(LastEvent + 1)
      /\ \A n \in 0..LastEvent : n + 1 \in 1..(LastEvent + 1)
  BY LastIsNat DEF JournalingInv
<1> USE DEF tracker, connection, durable, ghosts, Pass, EndFollow
<1>2. CASE UNCHANGED followVars
  BY <1>1, <1>2, JournalingKept DEF followVars
<1>3. CASE Subscribe \/ Resubscribe
  BY <1>3, JoinStep
<1>4. CASE ReadHistory
  BY <1>1, <1>4, JournalingKept DEF ReadHistory
<1>5. CASE Deliver
  BY <1>5, DeliverStep
<1>6. CASE AppendEvent
  BY <1>6, AppendStep
<1>7. CASE Persist
  BY <1>7, PersistStep
<1>8. CASE Reread
  <2>1. /\ UNCHANGED <<setup, sent, cursor, seen, log, stored, runs, first>>
        /\ nxt' \in {sent + 1, nxt} /\ pc = "broken" /\ pc' \in {"over", "retry"}
    BY <1>8 DEF Reread
  <2>2. QED
    BY <1>1, <2>1, JournalingKept
<1>9. CASE JoinFails \/ RecordFails \/ StreamGarbled \/ GiveUp \/ Expire \/ KillFollow
  BY <1>1, <1>9, JournalingKept
     DEF JoinFails, RecordFails, StreamGarbled, GiveUp, Expire, KillFollow
<1>10. CASE StreamEnds
  BY <1>1, <1>10, JournalingKept DEF StreamEnds
<1>11. CASE RereadFails \/ ResubscribeFails
  BY <1>1, <1>11, JournalingKept DEF RereadFails, ResubscribeFails
<1>12. CASE Again
  BY <1>12, AgainStep
<1>13. CASE Emit
  BY <1>1, <1>13, JournalingKept DEF Emit
<1>14. QED
  BY <1>2, <1>3, <1>4, <1>5, <1>6, <1>7, <1>8, <1>9, <1>10, <1>11, <1>12, <1>13
     DEF FollowNext, Progress

(* What a follow has stored is in the journal, and one run journals no event  *)
(* twice, whatever the stream loses, repeats and reorders, wherever the       *)
(* follow is killed and however often it is started again (follow.rs).        *)
THEOREM FollowKeepsJournal == FollowSpec => []JournalExact
<1>1. JournalingInv => JournalExact
  BY DEF JournalingInv
<1>2. QED
  BY <1>1, InitJournaling, NextJournaling, PTL DEF FollowSpec

-----------------------------------------------------------------------------
(* The turn's own messages, and where an idle that ends a chain can be.       *)

LEMMA HistoryAttributes ==
  ASSUME NEW n \in Nat, History(n) # <<>>
  PROVE  \E j \in 1..n : Attributed(turn[j])
<1> SUFFICES ASSUME \A j \in 1..n : ~Attributed(turn[j]) PROVE FALSE
  OBVIOUS
<1>1. {turn[i].step : i \in {j \in 1..n : Attributed(turn[j])}} = {}
  OBVIOUS
<1>2. Max({0} \cup {}) = 0
  BY DEF Max
<1>3. History(n) = [s \in 1..0 |-> Step(n, s)]
  BY <1>1, <1>2 DEF History
<1>4. QED
  BY <1>3

LEMMA EndedByIdle ==
  ASSUME JournalingInv, TrackingInv, pc \in {"append", "persist"},
         event.kind = "idle", chain # <<>>
  PROVE  nxt > LastEvent \/ nxt - 1 <= joined
<1> HIDE DEF LastEvent
<1>1. /\ LastEvent \in Nat /\ nxt \in Nat /\ nxt - 1 \in 1..LastEvent
      /\ cursor \in Nat /\ joined \in Nat
  BY LastIsNat DEF JournalingInv, TrackingInv
<1>2. cursor = nxt - 1 \/ cursor = 0
  BY DEF JournalingInv
<1>3. PICK j \in 1..LastEvent :
        Attributed(turn[j]) /\ (j <= joined \/ j <= cursor \/ (cursor = 0 /\ j < nxt))
  BY DEF TrackingInv
<1>4. j <= joined \/ j <= nxt - 1
  BY <1>1, <1>2, <1>3
<1>5. nxt - 1 < LastEvent => j > nxt - 1
  <2> SUFFICES ASSUME nxt - 1 < LastEvent, j <= nxt - 1 PROVE FALSE
    BY <1>1
  <2>1. nxt - 1 \in 1..(LastEvent - 1) /\ j \in 1..(nxt - 1)
    BY <1>1
  <2>2. turn[j].kind \in {"message", "part"} => turn[j].step = 0
    BY <2>1, SetupAssumption DEF JournalingInv, event, turn, LastEvent
  <2>3. QED
    BY <1>3, <2>2 DEF Attributed
<1>6. QED
  BY <1>1, <1>4, <1>5

LEMMA TrackingKept ==
  ASSUME JournalingInv, TrackingInv,
         UNCHANGED <<setup, nxt, cursor, stored, joined>>, sent' \in Nat, sent <= sent',
         chain' = chain,
         outcome' = outcome \/ (outcome' # "terminal" /\ outcome # "terminal"),
         pc' = "over" \/ outcome # "terminal",
         pc' \in {"join", "listen", "append", "persist"} =>
           pc \in {"join", "listen", "append", "persist"},
         pc' = "broken" => cursor = 0
  PROVE  TrackingInv'
<1> HIDE DEF LastEvent
<1>1. LastEvent \in Nat /\ LastEvent' = LastEvent /\ turn' = turn
  BY LastIsNat, TurnIsFixed
<1>2. /\ sent \in Nat /\ nxt \in Nat /\ cursor \in Nat /\ stored \in Nat /\ joined \in Nat
      /\ LastEvent \in Nat
  BY <1>1 DEF JournalingInv, TrackingInv
<1>3. \A j : Attributed(turn[j])' <=> Attributed(turn[j])
  BY <1>1 DEF Attributed
<1>4. chain' # <<>> =>
        \E j \in 1..LastEvent' : Attributed(turn[j])' /\
          (j <= joined' \/ j <= cursor' \/ (cursor' = 0 /\ j < nxt'))
  BY <1>1, <1>3 DEF TrackingInv
<1>5. joined' \in 0..sent'
  BY <1>2 DEF TrackingInv
<1>6. /\ nxt' <= sent' + 1 /\ cursor' <= sent' /\ stored' <= sent'
      /\ pc' = "broken" => cursor' = 0
  <2>1. nxt <= sent + 1 /\ cursor <= sent /\ stored <= sent
    BY DEF TrackingInv
  <2>2. nxt' = nxt /\ cursor' = cursor /\ stored' = stored
    OBVIOUS
  <2>3. PICK m \in Nat : m = sent' /\ sent <= m
    OBVIOUS
  <2>4. \A n, k, l \in Nat : n <= k + 1 /\ k <= l => n <= l + 1
    OBVIOUS
  <2>5. nxt <= m + 1
    BY <1>2, <2>1, <2>3, <2>4
  <2>6. cursor <= m /\ stored <= m
    BY <1>2, <2>1, <2>3
  <2>7. QED
    BY <2>2, <2>3, <2>5, <2>6
<1>7. pc' \in {"join", "listen", "append", "persist"} => cursor' <= nxt'
  BY DEF TrackingInv
<1>8. /\ outcome' = "terminal" => pc' = "over"
      /\ outcome' = "terminal" /\ ~setup'.classified => nxt' > LastEvent' \/ nxt' - 1 <= joined'
  BY <1>1 DEF TrackingInv
<1>9. QED
  BY <1>4, <1>5, <1>6, <1>7, <1>8 DEF TrackingInv

LEMMA JoinTracks ==
  ASSUME JournalingInv, TrackingInv, Subscribe \/ Resubscribe
  PROVE  TrackingInv'
<1> HIDE DEF LastEvent
<1>1. LastEvent \in Nat /\ LastEvent' = LastEvent /\ turn' = turn
  BY LastIsNat, TurnIsFixed DEF Subscribe, Resubscribe
<1>2. /\ UNCHANGED <<setup, sent, chain, cursor, stored, joined, outcome>>
      /\ pc \in {"start", "retry"} /\ pc' \in {"join", "listen"}
      /\ nxt' \in Positions
  BY DEF Subscribe, Resubscribe, Pass, tracker, durable
<1>3. /\ sent \in Nat /\ nxt \in Nat /\ cursor \in Nat /\ stored \in Nat
      /\ nxt <= sent + 1 /\ cursor <= sent /\ outcome # "terminal"
  BY <1>1, <1>2 DEF JournalingInv, TrackingInv
<1>4. PICK m \in Nat : m = nxt' /\ m \in Positions
  BY <1>2, <1>3 DEF Positions
<1>5. /\ m <= sent + 1 /\ cursor <= m
      /\ cursor = 0 => m = sent + 1 /\ nxt <= m
  BY <1>3, <1>4 DEF Positions, Replayed
<1>6. \A j : Attributed(turn[j])' <=> Attributed(turn[j])
  BY <1>1 DEF Attributed
<1>7. chain' # <<>> =>
        \E j \in 1..LastEvent' : Attributed(turn[j])' /\
          (j <= joined' \/ j <= cursor' \/ (cursor' = 0 /\ j < m))
  <2> SUFFICES ASSUME chain # <<>>
               PROVE  \E j \in 1..LastEvent : Attributed(turn[j]) /\
                        (j <= joined \/ j <= cursor \/ (cursor = 0 /\ j < m))
    BY <1>1, <1>2, <1>6
  <2>1. PICK j \in 1..LastEvent :
          Attributed(turn[j]) /\ (j <= joined \/ j <= cursor \/ (cursor = 0 /\ j < nxt))
    BY DEF TrackingInv
  <2>2. cursor = 0 /\ j < nxt => j < m
    BY <1>1, <1>3, <1>5
  <2>3. QED
    BY <2>1, <2>2
<1>8. QED
  BY <1>1, <1>2, <1>3, <1>4, <1>5, <1>7 DEF TrackingInv

LEMMA HistoryTracks ==
  ASSUME JournalingInv, TrackingInv, ReadHistory
  PROVE  TrackingInv'
<1> HIDE DEF LastEvent
<1>1. LastEvent \in Nat /\ LastEvent' = LastEvent /\ turn' = turn
  BY LastIsNat, TurnIsFixed DEF ReadHistory
<1>2. /\ UNCHANGED <<setup, sent, nxt, cursor, stored>> /\ joined' = sent
      /\ chain' = IF setup.readable THEN History(sent) ELSE <<>>
      /\ pc = "join"
      /\ \/ pc' = "over" /\ setup.classified
         \/ pc' = "listen" /\ outcome' = outcome
  BY DEF ReadHistory, EndFollow, Pass, connection, durable
<1>3. /\ sent \in 0..LastEvent /\ nxt \in Nat /\ cursor \in Nat /\ stored \in Nat
      /\ nxt <= sent + 1 /\ cursor <= sent /\ stored <= sent /\ cursor <= nxt
      /\ outcome # "terminal"
  BY <1>1, <1>2 DEF JournalingInv, TrackingInv
<1>4. \A j : Attributed(turn[j])' <=> Attributed(turn[j])
  BY <1>1 DEF Attributed
<1>5. chain' # <<>> => \E j \in 1..LastEvent' : Attributed(turn[j])' /\ j <= joined'
  BY <1>1, <1>2, <1>3, <1>4, HistoryAttributes
<1>6. QED
  BY <1>1, <1>2, <1>3, <1>5 DEF TrackingInv

LEMMA DeliverTracks ==
  ASSUME JournalingInv, TrackingInv, Deliver
  PROVE  TrackingInv'
<1> HIDE DEF LastEvent
<1>1. LastEvent \in Nat /\ LastEvent' = LastEvent /\ turn' = turn
  BY LastIsNat, TurnIsFixed DEF Deliver
<1>2. /\ UNCHANGED <<setup, sent, chain, stored, joined, outcome>>
      /\ pc = "listen" /\ nxt <= sent /\ nxt' = nxt + 1 /\ pc' \in {"listen", "append"}
      /\ cursor' = IF setup.ids THEN nxt ELSE cursor
  BY DEF Deliver, Pass, durable, ghosts
<1>3. /\ sent \in 0..LastEvent /\ nxt \in Nat \ {0} /\ cursor \in Nat /\ stored \in Nat
      /\ joined \in Nat /\ stored <= sent /\ joined <= sent /\ cursor <= nxt
      /\ cursor <= sent /\ outcome # "terminal" /\ (~setup.ids => cursor = 0)
  BY <1>1, <1>2 DEF JournalingInv, TrackingInv
<1>4. \A j : Attributed(turn[j])' <=> Attributed(turn[j])
  BY <1>1 DEF Attributed
<1>5. \A j \in 1..LastEvent :
        j <= joined \/ j <= cursor \/ (cursor = 0 /\ j < nxt) =>
          j <= joined' \/ j <= cursor' \/ (cursor' = 0 /\ j < nxt')
  BY <1>1, <1>2, <1>3
<1>6. chain' # <<>> =>
        \E j \in 1..LastEvent' : Attributed(turn[j])' /\
          (j <= joined' \/ j <= cursor' \/ (cursor' = 0 /\ j < nxt'))
  BY <1>1, <1>2, <1>4, <1>5 DEF TrackingInv
<1>7. nxt' <= sent' + 1 /\ cursor' <= sent' /\ cursor' <= nxt'
  BY <1>1, <1>2, <1>3
<1>8. QED
  BY <1>1, <1>2, <1>3, <1>6, <1>7 DEF TrackingInv

LEMMA ObserveTracks ==
  ASSUME JournalingInv, TrackingInv, NEW from \in {"append", "persist"}, Observe(from),
         UNCHANGED <<setup, sent, nxt, cursor, joined>>,
         stored' = stored \/ stored' = nxt - 1
  PROVE  TrackingInv'
<1> HIDE DEF LastEvent
<1>1. LastEvent \in Nat /\ LastEvent' = LastEvent /\ turn' = turn
  BY LastIsNat, TurnIsFixed
<1>2. /\ pc = from /\ pc' \in {"over", "listen"}
      /\ outcome' # "terminal" => outcome' = outcome
      /\ outcome' = outcome \/ (pc' = "over" /\ event.kind = "idle" /\ chain # <<>>)
      /\ pc' = "listen" => outcome' = outcome
  BY DEF Observe, EndFollow, Pass, Completed
<1>3. /\ sent \in 0..LastEvent /\ nxt \in Nat /\ nxt - 1 \in 1..LastEvent
      /\ cursor \in Nat /\ stored \in Nat
      /\ joined \in Nat /\ stored <= sent /\ joined <= sent /\ cursor <= nxt
      /\ cursor <= sent /\ outcome # "terminal" /\ nxt <= sent + 1
      /\ cursor = nxt - 1 \/ cursor = 0
  BY <1>1, <1>2 DEF JournalingInv, TrackingInv
<1>4. \A j : Attributed(turn[j])' <=> Attributed(turn[j])
  BY <1>1 DEF Attributed
<1>5. chain' # <<>> => chain # <<>> \/ Attributed(event)
  BY DEF Observe, ObservePart, Has
<1>6. Attributed(event) =>
        \E j \in 1..LastEvent : Attributed(turn[j]) /\
          (j <= joined \/ j <= cursor \/ (cursor = 0 /\ j < nxt))
  BY <1>1, <1>3 DEF event
<1>7. chain' # <<>> =>
        \E j \in 1..LastEvent' : Attributed(turn[j])' /\
          (j <= joined' \/ j <= cursor' \/ (cursor' = 0 /\ j < nxt'))
  BY <1>1, <1>4, <1>5, <1>6 DEF TrackingInv
<1>8. outcome' = "terminal" => pc' = "over" /\ (nxt > LastEvent \/ nxt - 1 <= joined)
  BY <1>2, <1>3, EndedByIdle
<1>9. stored' <= sent'
  BY <1>1, <1>3
<1>10. QED
  BY <1>1, <1>2, <1>3, <1>7, <1>8, <1>9 DEF TrackingInv

LEMMA RereadTracks ==
  ASSUME JournalingInv, TrackingInv, Reread
  PROVE  TrackingInv'
<1> HIDE DEF LastEvent
<1>1. LastEvent \in Nat /\ LastEvent' = LastEvent /\ turn' = turn
  BY LastIsNat, TurnIsFixed DEF Reread
<1>2. /\ UNCHANGED <<setup, sent, cursor, stored>>
      /\ \/ chain' = chain /\ nxt' = nxt /\ joined' = joined
         \/ chain' = History(sent) /\ nxt' = sent + 1 /\ joined' = sent
      /\ pc = "broken"
      /\ \/ pc' = "over" /\ setup.classified
         \/ pc' = "retry" /\ outcome' = outcome
  BY DEF Reread, EndFollow, Pass, durable
<1>3. /\ sent \in 0..LastEvent /\ nxt \in Nat /\ cursor \in Nat /\ stored \in Nat
      /\ joined \in Nat /\ stored <= sent /\ joined <= sent /\ cursor <= sent
      /\ nxt <= sent + 1 /\ outcome # "terminal" /\ cursor = 0
  BY <1>1, <1>2 DEF JournalingInv, TrackingInv
<1>4. \A j : Attributed(turn[j])' <=> Attributed(turn[j])
  BY <1>1 DEF Attributed
<1>5. CASE chain' = chain /\ nxt' = nxt /\ joined' = joined
  BY <1>1, <1>2, <1>3, <1>4, <1>5 DEF TrackingInv
<1>6. CASE chain' = History(sent) /\ nxt' = sent + 1 /\ joined' = sent
  <2>1. chain' # <<>> => \E j \in 1..sent : Attributed(turn[j])
    BY <1>3, <1>6, HistoryAttributes
  <2>2. chain' # <<>> =>
          \E j \in 1..LastEvent' : Attributed(turn[j])' /\ cursor' = 0 /\ j < nxt'
    BY <1>1, <1>2, <1>3, <1>4, <1>6, <2>1
  <2>3. QED
    BY <1>1, <1>2, <1>3, <1>6, <2>2 DEF TrackingInv
<1>7. QED
  BY <1>2, <1>5, <1>6

LEMMA AgainTracks ==
  ASSUME JournalingInv, TrackingInv, Again
  PROVE  TrackingInv'
<1> HIDE DEF LastEvent
<1>1. /\ UNCHANGED <<setup, sent, nxt, stored>> /\ pc' = "start" /\ cursor' = stored
      /\ chain' = <<>> /\ joined' = 0 /\ outcome' = "none"
  BY DEF Again
<1>2. sent \in Nat
  BY LastIsNat DEF JournalingInv
<1>3. QED
  BY <1>1, <1>2 DEF TrackingInv

LEMMA InitTracking == FollowInit => TrackingInv
  BY SetupAssumption DEF FollowInit, TrackingInv

LEMMA NextTracking ==
  JournalingInv /\ TrackingInv /\ [FollowNext]_followVars => TrackingInv'
<1> SUFFICES ASSUME JournalingInv, TrackingInv, [FollowNext]_followVars PROVE TrackingInv'
  OBVIOUS
<1> HIDE DEF LastEvent
<1>1. sent \in Nat /\ (outcome = "terminal" => pc = "over") /\ (pc = "broken" => cursor = 0)
  BY LastIsNat DEF JournalingInv, TrackingInv
<1> USE DEF tracker, connection, durable, ghosts, Pass, EndFollow
<1>2. CASE UNCHANGED followVars
  BY <1>1, <1>2, TrackingKept DEF followVars
<1>3. CASE Subscribe \/ Resubscribe
  BY <1>3, JoinTracks
<1>4. CASE ReadHistory
  BY <1>4, HistoryTracks
<1>5. CASE Deliver
  BY <1>5, DeliverTracks
<1>6. CASE AppendEvent
  <2>1. UNCHANGED <<setup, sent, nxt, cursor, joined, stored>>
    BY <1>6 DEF AppendEvent
  <2>2. CASE Observe("append")
    BY <2>1, <2>2, ObserveTracks
  <2>3. CASE pc = "append" /\ pc' = "persist" /\ UNCHANGED <<chain, pending, outcome>>
    BY <1>1, <2>1, <2>3, TrackingKept
  <2>4. QED
    BY <1>6, <2>2, <2>3 DEF AppendEvent
<1>7. CASE Persist
  BY <1>7, ObserveTracks DEF Persist
<1>8. CASE Reread
  BY <1>8, RereadTracks
<1>9. CASE JoinFails \/ RecordFails \/ StreamGarbled \/ GiveUp \/ Expire \/ KillFollow
  BY <1>1, <1>9, TrackingKept
     DEF JoinFails, RecordFails, StreamGarbled, GiveUp, Expire, KillFollow, Active
<1>10. CASE StreamEnds
  BY <1>1, <1>10, TrackingKept DEF StreamEnds
<1>11. CASE RereadFails \/ ResubscribeFails
  BY <1>1, <1>11, TrackingKept DEF RereadFails, ResubscribeFails
<1>12. CASE Again
  BY <1>12, AgainTracks
<1>13. CASE Emit
  BY <1>1, <1>13, TrackingKept DEF Emit
<1>14. QED
  BY <1>2, <1>3, <1>4, <1>5, <1>6, <1>7, <1>8, <1>9, <1>10, <1>11, <1>12, <1>13
     DEF FollowNext, Progress

-----------------------------------------------------------------------------
(* While the chain is what the history said when it was last read.            *)

LEMMA HistorySteps ==
  ASSUME NEW n, NEW s \in DOMAIN History(n)
  PROVE  History(n)[s].step = s /\ s # 0
<1> DEFINE top == Max({0} \cup {turn[i].step : i \in {j \in 1..n : Attributed(turn[j])}})
<1>1. History(n) = [k \in 1..top |-> Step(n, k)]
  BY DEF History
<1> HIDE DEF top
<1>2. s \in 1..top /\ History(n)[s] = Step(n, s)
  BY <1>1
<1>3. QED
  BY <1>2 DEF Step

LEMMA SameHistory ==
  ASSUME setup' = setup, NEW n
  PROVE  History(n)' = History(n)
  BY DEF History, Attributed, Step, Newest, turn

LEMMA HistoryKept ==
  ASSUME HistoryInv, UNCHANGED <<setup, chain, cursor, joined, nxt>>,
         outcome' = "terminal" => outcome = "terminal",
         pc' \in {"listen", "append", "persist", "broken", "retry"} =>
           pc \in {"listen", "append", "persist", "broken", "retry"},
         pc' = "join" => pc = "join"
  PROVE  HistoryInv'
<1>1. turn' = turn /\ LastEvent' = LastEvent /\ (Replayed' <=> Replayed)
  BY TurnIsFixed DEF Replayed
<1>2. History(joined)' = History(joined)
  BY SameHistory
<1>3. (Untouched' <=> Untouched) /\ LastRead' = LastRead
  BY <1>1, <1>2 DEF Untouched, LastRead
<1>4. QED
  BY <1>1, <1>2, <1>3 DEF HistoryInv

(* Reading it.                                                              *)
LEMMA ReadAnew ==
  ASSUME JournalingInv, setup' = setup, joined' = sent, outcome # "terminal",
         chain' = IF setup.readable THEN History(sent) ELSE <<>>,
         outcome' = "terminal" => chain' # <<>>,
         Replayed' => nxt' <= cursor' + 1
  PROVE  HistoryInv'
<1>1. History(joined)' = History(sent)
  BY DEF History, Attributed, Step, Newest, turn
<1>2. chain' = LastRead'
  BY <1>1 DEF LastRead
<1>3. QED
  BY <1>1, <1>2 DEF HistoryInv

(* An event of the stream, recorded.                                         *)
LEMMA ObserveHistory ==
  ASSUME JournalingInv, TrackingInv, HistoryInv, NEW from \in {"append", "persist"},
         Observe(from), UNCHANGED <<setup, nxt, cursor, joined>>
  PROVE  HistoryInv'
<1> HIDE DEF LastEvent
<1>1. /\ LastEvent \in Nat /\ LastEvent' = LastEvent /\ turn' = turn
      /\ (Replayed' <=> Replayed) /\ setup \in Setups
  BY LastIsNat, TurnIsFixed DEF JournalingInv, Replayed
<1>2. /\ pc = from /\ pc' \in {"over", "listen"} /\ outcome # "terminal"
      /\ outcome' = "terminal" => event.kind = "idle" /\ Completed(chain)
  BY DEF Observe, EndFollow, Pass, TrackingInv
<1>3. /\ nxt \in Nat /\ nxt - 1 \in 1..LastEvent /\ cursor \in {0, nxt - 1}
      /\ event = turn[nxt - 1]
  BY <1>1, <1>2 DEF JournalingInv, event
<1>4. /\ History(joined)' = History(joined) /\ LastRead' = LastRead
      /\ (Untouched' <=> Untouched)
  BY <1>1, SameHistory DEF LastRead, Untouched
<1>5. Untouched => chain = LastRead
  BY <1>2 DEF HistoryInv
<1>6. ASSUME Untouched PROVE chain' = chain
  <2>1. ~(event.kind \in {"message", "part"} /\ event.step # 0)
    BY <1>3, <1>6 DEF Untouched
  <2>2. ~Has(chain, 0)
    <3>1. chain = History(joined) \/ chain = <<>>
      BY <1>5, <1>6 DEF LastRead
    <3>2. QED
      BY <3>1, HistorySteps DEF Has
  <2>3. ~Attributed(event) /\ (event.kind = "part" => event.step = 0)
    BY <2>1 DEF Attributed
  <2>4. CASE event.kind = "part"
    <3>1. ObservePart(event) /\ ~Has(chain, event.step)
      BY <2>2, <2>3, <2>4 DEF Observe
    <3>2. QED
      BY <3>1 DEF ObservePart
  <2>5. CASE event.kind # "part"
    BY <2>3, <2>5 DEF Observe
  <2>6. QED
    BY <2>4, <2>5
<1>7. ASSUME outcome' = "terminal", nxt <= LastEvent PROVE chain' = History(joined)
  <2>1. event.kind = "idle" /\ Completed(chain) /\ nxt - 1 \in 1..(LastEvent - 1)
    BY <1>1, <1>2, <1>3, <1>7
  <2>2. \A j \in 1..(nxt - 1) : turn[j].kind \in {"message", "part"} => turn[j].step = 0
    BY <1>1, <1>3, <2>1, SetupAssumption DEF turn, LastEvent
  <2>3. \A j \in 1..LastEvent : j < nxt \/ j <= cursor => j \in 1..(nxt - 1)
    BY <1>1, <1>3
  <2>4. Untouched
    BY <2>2, <2>3 DEF Untouched
  <2>5. chain # <<>> /\ chain = LastRead /\ chain' = chain
    BY <1>5, <1>6, <2>1, <2>4 DEF Completed
  <2>6. QED
    BY <2>5 DEF LastRead
<1>8. Replayed' => nxt' <= cursor' + 1
  BY <1>1, <1>2 DEF HistoryInv
<1>9. QED
  BY <1>1, <1>2, <1>4, <1>5, <1>6, <1>7, <1>8 DEF HistoryInv

LEMMA InitHistory == FollowInit => HistoryInv
  BY DEF FollowInit, HistoryInv

LEMMA NextHistory ==
  JournalingInv /\ TrackingInv /\ HistoryInv /\ [FollowNext]_followVars => HistoryInv'
<1> SUFFICES ASSUME JournalingInv, TrackingInv, HistoryInv, [FollowNext]_followVars
             PROVE  HistoryInv'
  OBVIOUS
<1> HIDE DEF LastEvent
<1>1. /\ outcome = "terminal" => pc = "over"
      /\ pc = "broken" => cursor = 0
      /\ LastEvent \in Nat /\ sent \in Nat /\ nxt \in Nat /\ cursor \in Nat
      /\ nxt <= sent + 1
      /\ pc = "listen" => cursor <= nxt
  BY LastIsNat DEF JournalingInv, TrackingInv
<1> USE DEF tracker, connection, durable, ghosts, Pass, EndFollow
<1>2. CASE UNCHANGED followVars
  BY <1>2, HistoryKept DEF followVars
<1>3. CASE Subscribe
  <2>1. /\ UNCHANGED <<setup, cursor, outcome>> /\ pc = "start" /\ pc' = "join"
        /\ nxt' \in Positions /\ outcome' # "terminal"
    BY <1>1, <1>3 DEF Subscribe
  <2>2. Replayed' => nxt' <= cursor' + 1
    BY <1>1, <2>1 DEF Positions, Replayed
  <2>3. QED
    BY <2>1, <2>2 DEF HistoryInv
<1>4. CASE ReadHistory
  <2>1. /\ UNCHANGED <<setup, cursor, nxt>> /\ pc = "join" /\ joined' = sent
        /\ chain' = IF setup.readable THEN History(sent) ELSE <<>>
        /\ outcome # "terminal"
        /\ outcome' = "terminal" => chain' # <<>>
    BY <1>1, <1>4 DEF ReadHistory, Completed
  <2>2. Replayed' => nxt' <= cursor' + 1
    BY <2>1 DEF HistoryInv, Replayed
  <2>3. QED
    BY <2>1, <2>2, ReadAnew
<1>5. CASE Deliver
  <2>1. /\ UNCHANGED <<setup, chain, joined, outcome>> /\ pc = "listen"
        /\ nxt' = nxt + 1 /\ pc' \in {"listen", "append"} /\ outcome' # "terminal"
        /\ cursor' = IF setup.ids THEN nxt ELSE cursor
        /\ ~setup.ids => cursor = 0
    BY <1>1, <1>5 DEF Deliver, JournalingInv
  <2>2. /\ turn' = turn /\ LastEvent' = LastEvent
        /\ History(joined)' = History(joined) /\ LastRead' = LastRead
    BY <2>1, TurnIsFixed, SameHistory DEF LastRead
  <2>3. Untouched' => Untouched
    BY <1>1, <2>1, <2>2 DEF Untouched
  <2>4. Replayed' => nxt' <= cursor' + 1
    BY <1>1, <2>1 DEF Replayed
  <2>5. QED
    BY <2>1, <2>2, <2>3, <2>4 DEF HistoryInv
<1>6. CASE AppendEvent
  <2>1. UNCHANGED <<setup, nxt, cursor, joined>>
    BY <1>6 DEF AppendEvent
  <2>2. CASE Observe("append")
    BY <2>1, <2>2, ObserveHistory
  <2>3. CASE pc = "append" /\ pc' = "persist" /\ UNCHANGED <<chain, pending, outcome>>
    BY <2>1, <2>3, HistoryKept
  <2>4. QED
    BY <1>6, <2>2, <2>3 DEF AppendEvent
<1>7. CASE Persist
  BY <1>7, ObserveHistory DEF Persist
<1>8. CASE Reread
  <2>1. /\ UNCHANGED <<setup, cursor>> /\ pc = "broken" /\ outcome # "terminal"
        /\ \/ /\ setup.readable /\ chain' = History(sent) /\ joined' = sent
              /\ outcome' = "terminal" => chain' # <<>>
           \/ /\ UNCHANGED <<chain, joined, nxt, outcome>> /\ pc' = "retry"
    BY <1>1, <1>8 DEF Reread, Completed
  <2>2. ~Replayed'
    BY <1>1, <2>1 DEF Replayed
  <2>3. CASE setup.readable /\ chain' = History(sent) /\ joined' = sent
                /\ (outcome' = "terminal" => chain' # <<>>)
    BY <2>1, <2>2, <2>3, ReadAnew
  <2>4. CASE UNCHANGED <<chain, joined, nxt, outcome>> /\ pc' = "retry"
    BY <2>1, <2>4, HistoryKept
  <2>5. QED
    BY <2>1, <2>3, <2>4
<1>9. CASE JoinFails \/ RecordFails \/ StreamGarbled \/ GiveUp \/ Expire \/ KillFollow
  BY <1>1, <1>9, HistoryKept
     DEF JoinFails, RecordFails, StreamGarbled, GiveUp, Expire, KillFollow
<1>10. CASE StreamEnds \/ RereadFails \/ ResubscribeFails
  BY <1>10, HistoryKept DEF StreamEnds, RereadFails, ResubscribeFails
<1>11. CASE Resubscribe
  <2>1. /\ UNCHANGED <<setup, chain, cursor, joined, outcome>> /\ pc = "retry" /\ pc' = "listen"
        /\ nxt' \in Positions /\ outcome' # "terminal"
    BY <1>1, <1>11 DEF Resubscribe
  <2>2. /\ turn' = turn /\ LastEvent' = LastEvent /\ (Replayed' <=> Replayed)
        /\ History(joined)' = History(joined) /\ LastRead' = LastRead
    BY <2>1, TurnIsFixed, SameHistory DEF LastRead, Replayed
  <2>3. Replayed => nxt <= cursor + 1
    BY <2>1 DEF HistoryInv
  <2>4. \A j \in Nat : j < nxt \/ j <= cursor => j < nxt' \/ j <= cursor
    BY <1>1, <2>1, <2>3 DEF Positions
  <2>5. Untouched' => Untouched
    BY <2>1, <2>2, <2>4 DEF Untouched
  <2>6. Replayed' => nxt' <= cursor' + 1
    BY <1>1, <2>1, <2>2 DEF Positions
  <2>7. QED
    BY <2>1, <2>2, <2>5, <2>6 DEF HistoryInv
<1>12. CASE Again
  BY <1>12 DEF Again, HistoryInv
<1>13. CASE Emit
  BY <1>13, HistoryKept DEF Emit
<1>14. QED
  BY <1>2, <1>3, <1>4, <1>5, <1>6, <1>7, <1>8, <1>9, <1>10, <1>11, <1>12, <1>13
     DEF FollowNext, Progress

-----------------------------------------------------------------------------
(* What the tracker tells of the turn.                                       *)

(* A bounded set of naturals has a greatest one.                             *)
LEMMA Greatest ==
  ASSUME NEW n \in Nat, NEW S \in SUBSET (0..n), S # {}
  PROVE  Max(S) \in S /\ \A y \in S : y <= Max(S)
<1> DEFINE T == {n - x : x \in S}
<1>1. T \in SUBSET Nat /\ T # {}
  <2>1. \A x \in S : x \in 0..n /\ n - x \in Nat
    OBVIOUS
  <2>2. \E x \in S : n - x \in T
    OBVIOUS
  <2>3. \A t \in T : t \in Nat
    BY <2>1
  <2>4. QED
    BY <2>2, <2>3
<1>2. PICK m \in T : \A y \in T : m <= y
  BY <1>1, Least
<1>3. PICK x \in S : m = n - x
  BY <1>2
<1>4. \A y \in S : n - y \in T
  OBVIOUS
<1>5. \A y \in S : x >= y
  BY <1>2, <1>3, <1>4
<1>6. \E z \in S : \A y \in S : z >= y
  BY <1>5
<1>7. Max(S) \in S /\ \A y \in S : Max(S) >= y
  BY <1>6 DEF Max
<1>8. QED
  BY <1>7

LEMMA NewestIs ==
  ASSUME LastEvent \in Nat, NEW n \in 0..LastEvent, NEW which, NEW step
  PROVE  /\ Newest(n, which, step) \in {0} \cup Updates(which, step)
         /\ Newest(n, which, step) \in 0..n
         /\ \A j \in Updates(which, step) : j <= n => j <= Newest(n, which, step)
<1> DEFINE S == {0} \cup {i \in 1..n : turn[i].kind = which /\ turn[i].step = step}
<1>1. n \in Nat /\ S \in SUBSET (0..n) /\ S # {} /\ 0 \in S
  OBVIOUS
<1>2. Max(S) \in S /\ \A y \in S : y <= Max(S)
  BY <1>1, Greatest
<1>3. Newest(n, which, step) = Max(S)
  BY DEF Newest
<1>4. \A j \in Nat : j \in S /\ j # 0 <=> j \in Updates(which, step) /\ j <= n
  BY DEF Updates
<1>5. \A j \in Updates(which, step) : j \in Nat
  BY DEF Updates
<1>6. Max(S) \in 0..n
  BY <1>1, <1>2
<1> HIDE DEF S
<1>7. QED
  BY <1>2, <1>3, <1>4, <1>5, <1>6

(* Once the last update is known, it stays the newest.                       *)
LEMMA NewestKnown ==
  ASSUME LastEvent \in Nat, NEW n \in 0..LastEvent, NEW which, NEW step,
         Updates(which, step) \subseteq 1..n
  PROVE  Newest(n, which, step) = Newest(LastEvent, which, step)
<1>1. {i \in 1..n : turn[i].kind = which /\ turn[i].step = step} =
        {i \in 1..LastEvent : turn[i].kind = which /\ turn[i].step = step}
  BY DEF Updates
<1>2. QED
  BY <1>1 DEF Newest

LEMMA LastIsNewest ==
  ASSUME LastEvent \in Nat, NEW which, NEW step, NEW i \in Updates(which, step),
         Updates(which, step) \subseteq 1..i
  PROVE  Newest(LastEvent, which, step) = i
<1>1. i \in 1..LastEvent
  BY DEF Updates
<1>2. /\ Newest(LastEvent, which, step) \in {0} \cup Updates(which, step)
      /\ Newest(LastEvent, which, step) \in Nat
      /\ i <= Newest(LastEvent, which, step)
  BY <1>1, NewestIs
<1>3. Newest(LastEvent, which, step) \in 1..i
  BY <1>1, <1>2
<1>4. QED
  BY <1>1, <1>2, <1>3

(* The shape of a turn.                                                     *)
LEMMA MessagesInOrder ==
  ASSUME setup \in Setups, NEW i \in 1..LastEvent, Attributed(turn[i])
  PROVE  /\ turn[i].step \in 1..3
         /\ \A step \in 1..turn[i].step : \E j \in Updates("message", step) : j <= i
         /\ \A step \in 1..(turn[i].step - 1) : \E j \in Updates("message", step) : j < i
<1>1. LastEvent \in Nat /\ i \in Nat
  BY SetupAssumption DEF LastEvent, turn
<1>2. /\ turn[i].kind = "message" /\ turn[i].step \in 0..3 /\ turn[i].step # 0
      /\ \A step \in 1..(turn[i].step - 1) :
           \E j \in 1..(i - 1) : turn[j].kind = "message" /\ turn[j].step = step
  <2>1. /\ turn[i].kind \in {"message", "part"} => turn[i].step \in 0..3
        /\ turn[i].kind = "message" => \A step \in 1..(turn[i].step - 1) :
             \E j \in 1..(i - 1) : turn[j].kind = "message" /\ turn[j].step = step
    BY StepAssumption DEF turn, LastEvent
  <2>2. QED
    BY <2>1 DEF Attributed
<1>3. \A step \in 1..(turn[i].step - 1) : \E j \in Updates("message", step) : j < i
  BY <1>1, <1>2 DEF Updates
<1>4. i \in Updates("message", turn[i].step)
  BY <1>2 DEF Updates
<1>5. PICK k \in 1..3 : k = turn[i].step
  BY <1>2
<1>6. \A step \in 1..k : step = k \/ step \in 1..(k - 1)
  OBVIOUS
<1>7. \A step \in 1..k : \E j \in Updates("message", step) : j <= i
  <2> SUFFICES ASSUME NEW step \in 1..k PROVE \E j \in Updates("message", step) : j <= i
    OBVIOUS
  <2>1. CASE step = k
    BY <1>1, <1>4, <1>5, <2>1
  <2>2. CASE step \in 1..(k - 1)
    <3>1. PICK j \in Updates("message", step) : j < i
      BY <1>3, <1>5, <2>2
    <3>2. j \in Nat
      BY <1>1 DEF Updates
    <3>3. QED
      BY <1>1, <3>1, <3>2
  <2>3. QED
    BY <1>6, <2>1, <2>2
<1>8. QED
  BY <1>3, <1>5, <1>7

LEMMA PartsAgain ==
  ASSUME setup \in Setups, NEW i \in 1..LastEvent, turn[i].kind = "part"
  PROVE  /\ turn[i].step \in 0..3
         /\ turn[i].step # 0 => \E k \in Updates("part", turn[i].step) :
              \E j \in Updates("message", turn[i].step) : j < k
<1>1. LastEvent \in Nat /\ i \in Nat
  BY SetupAssumption DEF LastEvent, turn
<1>2. /\ turn[i].step \in 0..3
      /\ turn[i].step # 0 => \E j, k \in 1..LastEvent :
           /\ j < k
           /\ turn[j].kind = "message" /\ turn[j].step = turn[i].step
           /\ turn[k].kind = "part" /\ turn[k].step = turn[i].step
  BY StepAssumption DEF turn, LastEvent
<1>3. ASSUME turn[i].step # 0
      PROVE  \E k \in Updates("part", turn[i].step) :
               \E j \in Updates("message", turn[i].step) : j < k
  <2>1. PICK j, k \in 1..LastEvent :
           /\ j < k
           /\ turn[j].kind = "message" /\ turn[j].step = turn[i].step
           /\ turn[k].kind = "part" /\ turn[k].step = turn[i].step
    BY <1>2, <1>3
  <2>2. j \in Updates("message", turn[i].step) /\ k \in Updates("part", turn[i].step)
    BY <2>1 DEF Updates
  <2>3. QED
    BY <2>1, <2>2
<1>4. QED
  BY <1>2, <1>3

(* What a message says is attributed.                                       *)
LEMMA UpdatesAttributed ==
  ASSUME NEW step \in Nat \ {0}, NEW j \in Updates("message", step)
  PROVE  j \in 1..LastEvent /\ Attributed(turn[j]) /\ turn[j].step = step
  BY DEF Updates, Attributed

LEMMA HistoryTells ==
  ASSUME setup \in Setups, NEW n \in 0..LastEvent
  PROVE  /\ Len(History(n)) \in Nat
         /\ History(n) = [step \in 1..Len(History(n)) |-> Step(n, step)]
         /\ \A step \in 1..Len(History(n)) :
              Newest(n, "message", step) \in Updates("message", step)
         /\ \A j \in 1..n : Attributed(turn[j]) => turn[j].step <= Len(History(n))
<1> DEFINE steps == {turn[i].step : i \in {j \in 1..n : Attributed(turn[j])}}
           S == {0} \cup steps
           k == Max(S)
<1>0. LastEvent \in Nat /\ n \in Nat /\ 1..n \subseteq 1..LastEvent
  BY SetupAssumption DEF LastEvent, turn
<1>1. steps \subseteq 1..3
  BY <1>0, MessagesInOrder
<1>2. k \in S /\ \A y \in S : y <= k
  <2>1. S \in SUBSET (0..3) /\ S # {} /\ 3 \in Nat
    BY <1>1
  <2> HIDE DEF S
  <2>2. QED
    BY <2>1, Greatest
<1>3. k \in Nat
  BY <1>1, <1>2
<1>4. History(n) = [step \in 1..k |-> Step(n, step)]
  BY DEF History
<1>5. Len(History(n)) = k
  <2> HIDE DEF k
  <2> QED BY <1>3, <1>4
<1>6. ASSUME NEW step \in 1..k
      PROVE  Newest(n, "message", step) \in Updates("message", step)
  <2>1. k \in steps
    <3> HIDE DEF k, steps
    <3>1. k # 0
      BY <1>3
    <3>2. QED
      BY <1>2, <3>1
  <2>2. PICK i \in 1..n : Attributed(turn[i]) /\ turn[i].step = k
    BY <2>1
  <2>3. PICK j \in Updates("message", step) : j <= i
    BY <1>0, <1>3, <2>2, MessagesInOrder
  <2>4. j \in 1..LastEvent /\ j <= n
    BY <1>0, <2>2, <2>3 DEF Updates
  <2>5. Newest(n, "message", step) # 0
    BY <1>0, <2>3, <2>4, NewestIs
  <2>6. QED
    BY <1>0, <2>5, NewestIs
<1>7. \A j \in 1..n : Attributed(turn[j]) => turn[j].step <= k
  BY <1>2
<1> HIDE DEF k
<1>8. QED
  BY <1>3, <1>4, <1>5, <1>6, <1>7

(* A history tells the events it knows.                                     *)
LEMMA HistoryIsTold ==
  ASSUME setup \in Setups, NEW n \in 0..LastEvent, NEW events \in SUBSET (1..n)
  PROVE  Tells(History(n), events)
<1>0. LastEvent \in Nat /\ n \in Nat /\ 1..n \subseteq 1..LastEvent
  BY SetupAssumption DEF LastEvent, turn
<1>1. ASSUME NEW step \in 1..Len(History(n)) PROVE Told(History(n)[step], step, events)
  <2>1. History(n)[step] = Step(n, step) /\ Updates("message", step) # {}
    BY HistoryTells
  <2>2. \A which : Updates(which, step) \subseteq events =>
                    Newest(n, which, step) = Newest(LastEvent, which, step)
    BY <1>0, NewestKnown
  <2>3. QED
    BY <2>1, <2>2 DEF Told, Step
<1>2. History(n) = [step \in 1..Len(History(n)) |-> History(n)[step]]
  BY HistoryTells
<1>3. QED
  BY <1>0, <1>1, <1>2, HistoryTells DEF Tells

(* And nothing else tells all of them.                                      *)
LEMMA ToldIsHistory ==
  ASSUME setup \in Setups, NEW steps, Tells(steps, 1..LastEvent)
  PROVE  steps = History(LastEvent)
<1> DEFINE n == LastEvent
<1>0. n \in Nat /\ n \in 0..n
  BY SetupAssumption DEF LastEvent, turn
<1>1. /\ Len(steps) \in Nat /\ steps = [step \in 1..Len(steps) |-> steps[step]]
      /\ \A step \in 1..Len(steps) : Told(steps[step], step, 1..n)
      /\ \A j \in 1..n : Attributed(turn[j]) => turn[j].step <= Len(steps)
  BY DEF Tells
<1>2. /\ Len(History(n)) \in Nat
      /\ History(n) = [step \in 1..Len(History(n)) |-> Step(n, step)]
      /\ \A step \in 1..Len(History(n)) :
           Newest(n, "message", step) \in Updates("message", step)
      /\ \A j \in 1..n : Attributed(turn[j]) => turn[j].step <= Len(History(n))
  BY <1>0, HistoryTells
<1>3. \A step \in 1..Len(History(n)) : step <= Len(steps)
  BY <1>1, <1>2, UpdatesAttributed
<1>4. ASSUME NEW step \in 1..Len(steps)
      PROVE  step <= Len(History(n)) /\ steps[step] = Step(n, step)
  <2>1. \A which : Updates(which, step) \subseteq 1..n
    BY DEF Updates
  <2>2. Told(steps[step], step, 1..n)
    BY <1>1
  <2>3. steps[step] = Step(n, step)
    BY <2>1, <2>2 DEF Told, Step
  <2>4. PICK i \in Updates("message", step) : TRUE
    BY <2>2 DEF Told
  <2>5. i \in 1..n /\ Attributed(turn[i]) /\ turn[i].step = step
    BY <1>1, <2>4, UpdatesAttributed
  <2>6. QED
    BY <1>2, <2>3, <2>5
<1> HIDE DEF n
<1>5. Len(steps) = Len(History(n))
  <2>1. Len(steps) <= Len(History(n))
    BY <1>1, <1>2, <1>4
  <2>2. Len(History(n)) <= Len(steps)
    BY <1>1, <1>2, <1>3
  <2>3. \A k, m \in Nat : k <= m /\ m <= k => k = m
    OBVIOUS
  <2>4. QED
    BY <1>1, <1>2, <2>1, <2>2, <2>3
<1>6. QED
  BY <1>1, <1>2, <1>4, <1>5 DEF n

(* A step as an update of its message tells it.                              *)
Update(i, step, text) ==
  [step |-> step, done |-> turn[i].done, reply |-> turn[i].text, error |-> turn[i].error,
   text |-> text]

(* The entries of a chain are found by their places.                         *)
LEMMA StepsByPlace ==
  ASSUME NEW steps, NEW events, Tells(steps, events)
  PROVE  /\ Len(steps) \in Nat /\ DOMAIN steps = 1..Len(steps)
         /\ \A j \in 1..Len(steps) : steps[j].step = j
         /\ \A s : Has(steps, s) <=> s \in 1..Len(steps)
         /\ \A s \in 1..Len(steps) : Find(steps, s) = steps[s]
         /\ \A s, m : Replaced(steps, s, m) =
              [j \in 1..Len(steps) |-> IF j = s THEN m ELSE steps[j]]
         /\ \A s, m : Len(Replaced(steps, s, m)) = Len(steps)
<1>1. /\ Len(steps) \in Nat /\ DOMAIN steps = 1..Len(steps)
      /\ \A j \in 1..Len(steps) : Told(steps[j], j, events)
  BY DEF Tells
<1>2. \A j \in 1..Len(steps) : steps[j].step = j
  BY <1>1 DEF Told
<1>3. \A s : Has(steps, s) <=> s \in 1..Len(steps)
  BY <1>1, <1>2 DEF Has
<1>4. \A s \in 1..Len(steps) : Find(steps, s) = steps[s]
  BY <1>1, <1>2 DEF Find
<1>5. \A s, m : Replaced(steps, s, m) =
              [j \in 1..Len(steps) |-> IF j = s THEN m ELSE steps[j]]
  BY <1>1, <1>2 DEF Replaced
<1>6. \A s, m : Len(Replaced(steps, s, m)) = Len(steps)
  BY <1>1, <1>5
<1>7. QED
  BY <1>1, <1>2, <1>3, <1>4, <1>5, <1>6

(* Events that tell the tracker nothing.                                     *)
LEMMA TellsFewer ==
  ASSUME NEW steps, NEW events, Tells(steps, events), NEW fewer,
         \A j \in fewer : j \in events \/ turn[j].kind \notin {"message", "part"}
  PROVE  Tells(steps, fewer)
<1>1. \A j \in fewer : Attributed(turn[j]) => j \in events
  BY DEF Attributed
<1>2. \A which \in {"message", "part"} : \A step :
        Updates(which, step) \subseteq fewer => Updates(which, step) \subseteq events
  BY DEF Updates
<1>3. \A m, step : Told(m, step, events) => Told(m, step, fewer)
  BY <1>2 DEF Told
<1>4. QED
  BY <1>1, <1>3 DEF Tells

(* One more event, the newest.                                              *)
LEMMA UpdateTold ==
  ASSUME LastEvent \in Nat, NEW m, NEW step, NEW i \in 1..LastEvent,
         Told(m, step, 1..(i - 1))
  PROVE  /\ i \in Updates("message", step) =>
              Told(Update(i, step, m.text), step, 1..i)
         /\ i \in Updates("part", step) =>
              Told([m EXCEPT !.text = turn[i].text], step, 1..i)
         /\ i \notin Updates("message", step) \cup Updates("part", step) =>
              Told(m, step, 1..i)
<1> DEFINE newest == Step(LastEvent, step)
<1>1. /\ Updates("message", step) # {}
      /\ m = [step |-> step, done |-> m.done, reply |-> m.reply, error |-> m.error,
              text |-> m.text]
      /\ Updates("message", step) \subseteq 1..(i - 1) =>
           m.done = newest.done /\ m.reply = newest.reply /\ m.error = newest.error
      /\ Updates("part", step) \subseteq 1..(i - 1) => m.text = newest.text
  BY DEF Told
<1>2. /\ i \notin Updates("message", step) \/ i \notin Updates("part", step)
      /\ \A S : i \notin S /\ S \subseteq 1..i => S \subseteq 1..(i - 1)
  BY DEF Updates
<1>3. \A which : i \in Updates(which, step) /\ Updates(which, step) \subseteq 1..i =>
        Newest(LastEvent, which, step) = i
  BY LastIsNewest
<1>4. ASSUME i \in Updates("message", step)
      PROVE  Told(Update(i, step, m.text), step, 1..i)
  <2>1. Updates("part", step) \subseteq 1..i => m.text = newest.text
    BY <1>1, <1>2, <1>4
  <2>2. Updates("message", step) \subseteq 1..i =>
          turn[i].done = newest.done /\ turn[i].text = newest.reply /\ turn[i].error = newest.error
    BY <1>3, <1>4 DEF Step
  <2> HIDE DEF newest
  <2>3. QED
    BY <1>1, <2>1, <2>2 DEF Told, newest, Update
<1>5. ASSUME i \in Updates("part", step)
      PROVE  Told([m EXCEPT !.text = turn[i].text], step, 1..i)
  <2>1. Updates("message", step) \subseteq 1..i =>
          m.done = newest.done /\ m.reply = newest.reply /\ m.error = newest.error
    BY <1>1, <1>2, <1>5
  <2>2. Updates("part", step) \subseteq 1..i => turn[i].text = newest.text
    BY <1>3, <1>5 DEF Step
  <2>3. [m EXCEPT !.text = turn[i].text] =
          [step |-> step, done |-> m.done, reply |-> m.reply, error |-> m.error,
           text |-> turn[i].text]
    BY <1>1
  <2> HIDE DEF newest
  <2>4. QED
    BY <1>1, <2>1, <2>2, <2>3 DEF Told, newest
<1>6. ASSUME i \notin Updates("message", step) \cup Updates("part", step)
      PROVE  Told(m, step, 1..i)
  BY <1>1, <1>2, <1>6 DEF Told
<1>7. QED
  BY <1>4, <1>5, <1>6

(* The first message of a step that is not all of its text.                  *)
LEMMA NewTold ==
  ASSUME LastEvent \in Nat, NEW step, NEW i \in Updates("message", step), NEW text,
         Updates("part", step) \subseteq 1..i => Updates("part", step) = {} /\ text = "absent"
  PROVE  Told(Update(i, step, text), step, 1..i)
<1> DEFINE newest == Step(LastEvent, step)
<1>1. Updates("message", step) \subseteq 1..i => Newest(LastEvent, "message", step) = i
  BY LastIsNewest
<1>2. Updates("message", step) \subseteq 1..i =>
        turn[i].done = newest.done /\ turn[i].text = newest.reply /\ turn[i].error = newest.error
  BY <1>1 DEF Step
<1>3. Updates("part", step) = {} => Newest(LastEvent, "part", step) = 0
  BY NewestIs
<1>4. Updates("part", step) \subseteq 1..i => text = newest.text
  BY <1>3 DEF Step
<1> HIDE DEF newest
<1>5. QED
  BY <1>2, <1>4 DEF Told, newest, Update

(* An event of the turn's messages, the newest of the stream.                *)
LEMMA MessageTells ==
  ASSUME setup \in Setups, NEW i \in 1..LastEvent, Attributed(turn[i]),
         NEW steps, Tells(steps, 1..(i - 1)), NEW s, s = turn[i].step,
         NEW text, text # "absent" => Updates("part", s) # {}
  PROVE  /\ s \in 1..3
         /\ Has(steps, s) =>
              Tells(Replaced(steps, s, Update(i, s, Find(steps, s).text)), 1..i)
         /\ ~Has(steps, s) =>
              /\ s = Len(steps) + 1 /\ Len(Append(steps, Update(i, s, text))) = s
              /\ Tells(Append(steps, Update(i, s, text)), 1..i)
<1>0. LastEvent \in Nat /\ i \in Nat 
      /\ \A j \in 1..i : j = i \/ j \in 1..(i - 1)
  BY SetupAssumption DEF LastEvent, turn
<1>1. s \in 1..3 /\ i \in Updates("message", s)
  BY MessagesInOrder DEF Updates, Attributed
<1>2. \A step : step # s => i \notin Updates("message", step) \cup Updates("part", step)
  BY DEF Attributed, Updates
<1>3. /\ Len(steps) \in Nat /\ steps = [j \in 1..Len(steps) |-> steps[j]]
      /\ \A j \in 1..Len(steps) : Told(steps[j], j, 1..(i - 1))
      /\ \A j \in 1..(i - 1) : Attributed(turn[j]) => turn[j].step <= Len(steps)
  BY DEF Tells
<1>4. \A j \in 1..Len(steps) : j # s => Told(steps[j], j, 1..i)
  BY <1>0, <1>2, <1>3, UpdateTold
<1>5. ASSUME Has(steps, s)
      PROVE  Tells(Replaced(steps, s, Update(i, s, Find(steps, s).text)), 1..i)
  <2> DEFINE m == Update(i, s, steps[s].text)
             renewed == [j \in 1..Len(steps) |-> IF j = s THEN m ELSE steps[j]]
  <2>1. s \in 1..Len(steps) /\ Find(steps, s) = steps[s] /\ Replaced(steps, s, m) = renewed
    BY <1>5, StepsByPlace
  <2>2. Told(m, s, 1..i)
    BY <1>0, <1>1, <1>3, <2>1, UpdateTold
  <2> HIDE DEF m
  <2>3. Len(renewed) = Len(steps) /\ renewed = [j \in 1..Len(steps) |-> renewed[j]]
    BY <1>3
  <2>4. \A j \in 1..Len(steps) : Told(renewed[j], j, 1..i)
    BY <1>4, <2>2
  <2>5. \A j \in 1..i : Attributed(turn[j]) => turn[j].step <= Len(steps)
    BY <1>0, <1>3, <2>1
  <2> HIDE DEF renewed
  <2>6. Tells(renewed, 1..i)
    BY <1>3, <2>3, <2>4, <2>5 DEF Tells
  <2>7. QED
    BY <2>1, <2>6 DEF m
<1>6. ASSUME ~Has(steps, s)
      PROVE  /\ s = Len(steps) + 1 /\ Len(Append(steps, Update(i, s, text))) = s
             /\ Tells(Append(steps, Update(i, s, text)), 1..i)
  <2> DEFINE m == Update(i, s, text)
             renewed == [j \in 1..(Len(steps) + 1) |-> IF j = s THEN m ELSE steps[j]]
  <2>1. s \notin 1..Len(steps)
    BY <1>6, StepsByPlace
  <2>2. \A step \in 1..(s - 1) : step <= Len(steps)
    <3> SUFFICES ASSUME NEW step \in 1..(s - 1) PROVE step <= Len(steps)
      OBVIOUS
    <3>1. PICK j \in Updates("message", step) : j < i
      BY MessagesInOrder
    <3>2. j \in 1..LastEvent /\ Attributed(turn[j]) /\ turn[j].step = step
      BY <1>1, <3>1, UpdatesAttributed
    <3>3. j \in 1..(i - 1)
      BY <1>0, <3>1, <3>2
    <3>4. QED
      BY <1>3, <3>2, <3>3
  <2>3. s = Len(steps) + 1
    <3>1. s - 1 >= 1 => s - 1 <= Len(steps)
      BY <1>1, <2>2
    <3>2. QED
      BY <1>1, <1>3, <2>1, <3>1
  <2>4. ASSUME Updates("part", s) \subseteq 1..i PROVE Updates("part", s) = {}
    <3> SUFFICES ASSUME NEW p \in Updates("part", s) PROVE FALSE
      OBVIOUS
    <3>1. p \in 1..LastEvent /\ turn[p].kind = "part" /\ turn[p].step = s
      BY DEF Updates
    <3>2. PICK k \in Updates("part", s) : \E j \in Updates("message", s) : j < k
      BY <1>1, <3>1, PartsAgain
    <3>3. PICK j \in Updates("message", s) : j < k
      BY <3>2
    <3>4. j \in 1..LastEvent /\ Attributed(turn[j]) /\ turn[j].step = s /\ k \in 1..i
      BY <1>1, <2>4, <3>2, <3>3, UpdatesAttributed
    <3>5. j \in 1..(i - 1)
      BY <1>0, <3>3, <3>4
    <3>6. QED
      BY <1>1, <1>3, <2>1, <3>4, <3>5
  <2>5. Told(m, s, 1..i)
    BY <1>0, <1>1, <2>4, NewTold
  <2> HIDE DEF m
  <2>6. Append(steps, m) = renewed
    <3>1. steps \in Seq({steps[j] : j \in 1..Len(steps)} \cup {m})
      BY <1>3
    <3> HIDE DEF renewed
    <3>2. /\ Append(steps, m) \in Seq({steps[j] : j \in 1..Len(steps)} \cup {m})
          /\ Len(Append(steps, m)) = Len(steps) + 1
          /\ \A j \in 1..Len(steps) : Append(steps, m)[j] = steps[j]
          /\ Append(steps, m)[Len(steps) + 1] = m
      BY <3>1, AppendProperties
    <3>3. Append(steps, m) = [j \in 1..(Len(steps) + 1) |-> Append(steps, m)[j]]
      <4>1. PICK q \in Seq({steps[j] : j \in 1..Len(steps)} \cup {m}) :
              q = Append(steps, m) /\ Len(q) = Len(steps) + 1
        BY <3>2
      <4>2. q = [j \in 1..Len(q) |-> q[j]]
        OBVIOUS
      <4>3. QED
        BY <4>1, <4>2
    <3>4. \A j \in 1..(Len(steps) + 1) :
            Append(steps, m)[j] = IF j = s THEN m ELSE steps[j]
      BY <1>3, <2>3, <3>2
    <3>5. QED
      BY <3>3, <3>4 DEF renewed
  <2>7. Len(renewed) = Len(steps) + 1 /\ renewed = [j \in 1..(Len(steps) + 1) |-> renewed[j]]
    BY <1>3
  <2>8. \A j \in 1..(Len(steps) + 1) : Told(renewed[j], j, 1..i)
    BY <1>3, <1>4, <2>3, <2>5
  <2>9. \A j \in 1..i : Attributed(turn[j]) => turn[j].step <= Len(steps) + 1
    <3>1. \A j \in 1..(i - 1) : Attributed(turn[j]) => turn[j].step \in 1..3
      BY <1>0, MessagesInOrder
    <3>2. \A j \in 1..(i - 1) : Attributed(turn[j]) => turn[j].step <= Len(steps) + 1
      BY <1>3, <3>1
    <3>3. \A j \in 1..i : j = i \/ j \in 1..(i - 1)
      BY <1>0
    <3>4. turn[i].step <= Len(steps) + 1
      BY <1>3, <2>3
    <3>5. QED
      BY <3>2, <3>3, <3>4
  <2> HIDE DEF renewed
  <2>10. Tells(renewed, 1..i)
    BY <1>3, <2>7, <2>8, <2>9 DEF Tells
  <2>11. QED
    BY <2>3, <2>6, <2>7, <2>10 DEF m
<1>7. QED
  BY <1>1, <1>5, <1>6

(* An event of a text part.                                                  *)
LEMMA PartTells ==
  ASSUME setup \in Setups, NEW i \in 1..LastEvent, turn[i].kind = "part",
         NEW steps, Tells(steps, 1..(i - 1)), NEW s, s = turn[i].step
  PROVE  /\ s \in 0..3
         /\ Has(steps, s) =>
              Tells(Replaced(steps, s, [Find(steps, s) EXCEPT !.text = turn[i].text]), 1..i)
         /\ ~Has(steps, s) => s \notin 1..Len(steps) /\ Tells(steps, 1..i)
<1>0. LastEvent \in Nat /\ i \in Nat /\ \A j \in 1..i : j = i \/ j \in 1..(i - 1)
  BY SetupAssumption DEF LastEvent, turn
<1>1. s \in 0..3 /\ i \in Updates("part", s) /\ ~Attributed(turn[i])
  BY PartsAgain DEF Updates, Attributed
<1>2. \A step : step # s => i \notin Updates("message", step) \cup Updates("part", step)
  BY DEF Updates
<1>3. /\ Len(steps) \in Nat /\ steps = [j \in 1..Len(steps) |-> steps[j]]
      /\ \A j \in 1..Len(steps) : Told(steps[j], j, 1..(i - 1))
      /\ \A j \in 1..(i - 1) : Attributed(turn[j]) => turn[j].step <= Len(steps)
  BY DEF Tells
<1>4. \A j \in 1..Len(steps) : j # s => Told(steps[j], j, 1..i)
  BY <1>0, <1>2, <1>3, UpdateTold
<1>5. \A j \in 1..i : Attributed(turn[j]) => turn[j].step <= Len(steps)
  BY <1>0, <1>1, <1>3
<1>6. ASSUME Has(steps, s)
      PROVE  Tells(Replaced(steps, s, [Find(steps, s) EXCEPT !.text = turn[i].text]), 1..i)
  <2> DEFINE m == [steps[s] EXCEPT !.text = turn[i].text]
             renewed == [j \in 1..Len(steps) |-> IF j = s THEN m ELSE steps[j]]
  <2>1. s \in 1..Len(steps) /\ Find(steps, s) = steps[s] /\ Replaced(steps, s, m) = renewed
    <3> HIDE DEF m
    <3>1. s \in 1..Len(steps)
      BY <1>6, StepsByPlace
    <3>2. Find(steps, s) = steps[s]
      BY <3>1, StepsByPlace
    <3>3. Replaced(steps, s, m) = renewed
      BY StepsByPlace
    <3>4. QED
      BY <3>1, <3>2, <3>3
  <2>2. Told(m, s, 1..i)
    <3>1. Told(steps[s], s, 1..(i - 1)) /\ i \in Updates("part", s)
      BY <1>1, <1>3, <2>1
    <3>2. QED
      BY <1>0, <3>1, UpdateTold
  <2> HIDE DEF m
  <2>3. Len(renewed) = Len(steps) /\ renewed = [j \in 1..Len(steps) |-> renewed[j]]
    BY <1>3
  <2>4. \A j \in 1..Len(steps) : Told(renewed[j], j, 1..i)
    BY <1>4, <2>2
  <2> HIDE DEF renewed
  <2>5. Tells(renewed, 1..i)
    BY <1>3, <1>5, <2>3, <2>4 DEF Tells
  <2>6. QED
    BY <2>1, <2>5 DEF m
<1>7. ASSUME ~Has(steps, s) PROVE s \notin 1..Len(steps) /\ Tells(steps, 1..i)
  <2>1. s \notin 1..Len(steps)
    BY <1>7, StepsByPlace
  <2>2. \A j \in 1..Len(steps) : Told(steps[j], j, 1..i)
    BY <1>4, <2>1
  <2>3. QED
    BY <1>3, <1>5, <2>1, <2>2 DEF Tells
<1>8. QED
  BY <1>1, <1>6, <1>7

(* An event of neither.                                                      *)
LEMMA OtherTells ==
  ASSUME setup \in Setups, NEW i \in 1..LastEvent,
         ~Attributed(turn[i]), turn[i].kind # "part",
         NEW steps, Tells(steps, 1..(i - 1))
  PROVE  Tells(steps, 1..i)
<1>0. LastEvent \in Nat /\ i \in Nat /\ \A j \in 1..i : j = i \/ j \in 1..(i - 1)
  BY SetupAssumption DEF LastEvent, turn
<1>1. /\ Len(steps) \in Nat /\ steps = [j \in 1..Len(steps) |-> steps[j]]
      /\ \A j \in 1..Len(steps) : Told(steps[j], j, 1..(i - 1))
      /\ \A j \in 1..(i - 1) : Attributed(turn[j]) => turn[j].step <= Len(steps)
  BY DEF Tells
<1>2. \A step \in 1..Len(steps) : i \notin Updates("message", step) \cup Updates("part", step)
  BY <1>1 DEF Updates, Attributed
<1>3. \A j \in 1..Len(steps) : Told(steps[j], j, 1..i)
  BY <1>0, <1>1, <1>2, UpdateTold
<1>4. \A j \in 1..i : Attributed(turn[j]) => turn[j].step <= Len(steps)
  BY <1>0, <1>1
<1>5. QED
  BY <1>1, <1>3, <1>4 DEF Tells

LEMMA TellsPrimed ==
  ASSUME setup' = setup
  PROVE  \A steps, events : Tells(steps, events)' <=> Tells(steps, events)
<1> SUFFICES ASSUME NEW steps, NEW events
             PROVE  Tells(steps, events)' <=> Tells(steps, events)
  OBVIOUS
<1>1. turn' = turn /\ LastEvent' = LastEvent
  BY TurnIsFixed
<1>2. \A which, step : Updates(which, step)' = Updates(which, step)
  BY <1>1 DEF Updates
<1>3. \A n, step : Step(n, step)' = Step(n, step)
  <2>1. \A n, which, step : Newest(n, which, step)' = Newest(n, which, step)
    BY <1>1 DEF Newest
  <2>2. QED
    BY <1>1, <2>1 DEF Step
<1>4. \A m, step : Told(m, step, events)' <=> Told(m, step, events)
  BY <1>1, <1>2, <1>3 DEF Told
<1>5. \A j : Attributed(turn[j])' <=> Attributed(turn[j])
  BY <1>1 DEF Attributed
<1>6. QED
  BY <1>1, <1>4, <1>5 DEF Tells

LEMMA WaitsPrimed ==
  ASSUME setup' = setup
  PROVE  \A texts, steps : Waits(texts, steps)' <=> Waits(texts, steps)
<1>1. turn' = turn /\ LastEvent' = LastEvent
  BY TurnIsFixed
<1>2. \A which, step : Updates(which, step)' = Updates(which, step)
  BY <1>1 DEF Updates
<1>3. QED
  BY <1>2 DEF Waits

LEMMA NothingWaits == \A steps : Waits(NoParts, steps)
  BY DEF Waits, NoParts

(* What the tracker knows may change only as the events behind it do.        *)
LEMMA TellingBy ==
  ASSUME setup' = setup, seen' \subseteq 1..cursor',
         pc' \in {"start", "join"} => seen' = {} /\ pending' = NoParts',
         Tracks' /\ ~gap' =>
           \E steps, events, texts :
             /\ Tells(steps, events) /\ chain' = steps /\ Waits(texts, steps) /\ pending' = texts
             /\ \A j \in Behind' : j \in events \/ turn[j].kind \notin {"message", "part"}
  PROVE  TellingInv'
<1>1. ASSUME Tracks', ~gap' PROVE Tells(chain, Behind)' /\ Waits(pending, chain)'
  <2>1. PICK steps, events, texts :
             /\ Tells(steps, events) /\ chain' = steps /\ Waits(texts, steps) /\ pending' = texts
             /\ \A j \in Behind' : j \in events \/ turn[j].kind \notin {"message", "part"}
    BY <1>1
  <2>2. PICK fewer : fewer = Behind'
    OBVIOUS
  <2>3. Tells(steps, fewer)
    BY <2>1, <2>2, TellsFewer
  <2>4. Tells(steps, fewer)' /\ Waits(texts, steps)'
    BY <2>1, <2>3, TellsPrimed, WaitsPrimed
  <2>5. QED
    BY <2>1, <2>2, <2>4
<1>2. QED
  BY <1>1 DEF TellingInv

(* Steps that leave the tracker alone.                                       *)
LEMMA TellingKept ==
  ASSUME TellingInv, UNCHANGED <<setup, chain, pending>>, seen' \subseteq 1..cursor',
         pc' \in {"start", "join"} => pc \in {"start", "join"} /\ seen' = seen,
         Tracks' /\ ~gap' => Tracks /\ ~gap /\ Behind' \subseteq Behind
  PROVE  TellingInv'
<1>1. NoParts' = NoParts
  BY DEF NoParts
<1>2. pc' \in {"start", "join"} => seen' = {} /\ pending' = NoParts'
  BY <1>1 DEF TellingInv
<1>3. ASSUME Tracks', ~gap'
      PROVE  /\ Tells(chain, Behind) /\ chain' = chain
             /\ \A j \in Behind' : j \in Behind
             /\ Waits(pending, chain) /\ pending' = pending
  BY <1>3 DEF TellingInv
<1>4. QED
  BY <1>2, <1>3, TellingBy

LEMMA BehindKept ==
  ASSUME UNCHANGED <<setup, nxt, seen>>,
         pc' \in {"append", "persist"} <=> pc \in {"append", "persist"}
  PROVE  Behind' = Behind
  BY TurnIsFixed DEF Behind

LEMMA InitTelling == FollowInit => TellingInv
<1> SUFFICES ASSUME FollowInit PROVE TellingInv
  OBVIOUS
<1>1. pc = "start" /\ outcome = "none" /\ seen = {} /\ pending = NoParts
  BY DEF FollowInit
<1>2. QED
  BY <1>1 DEF TellingInv, Tracks

LEMMA JoinTells ==
  ASSUME JournalingInv, TrackingInv, TellingInv, Subscribe \/ Resubscribe
  PROVE  TellingInv'
<1> HIDE DEF LastEvent
<1>1. LastEvent \in Nat /\ LastEvent' = LastEvent /\ turn' = turn
  BY LastIsNat, TurnIsFixed DEF Subscribe, Resubscribe
<1>2. /\ UNCHANGED <<setup, sent, seen, chain, pending, cursor, outcome>>
      /\ \/ pc = "start" /\ pc' = "join"
         \/ pc = "retry" /\ pc' = "listen" /\ gap' = (gap \/ nxt' > nxt)
      /\ nxt' \in Positions
  BY DEF Subscribe, Resubscribe, Pass, tracker, durable
<1>3. outcome # "terminal" /\ seen \subseteq 1..cursor
  BY <1>2 DEF TrackingInv, TellingInv
<1>4. /\ nxt \in Nat /\ nxt' \in Nat
  <2>1. sent \in Nat /\ cursor \in Nat /\ nxt \in Nat
    BY <1>1 DEF JournalingInv
  <2>2. QED
    BY <1>2, <2>1 DEF Positions
<1>5. ASSUME Tracks', ~gap' PROVE Tracks /\ ~gap /\ Behind' \subseteq Behind
  <2>1. pc = "retry" /\ pc' = "listen" /\ ~gap /\ ~(nxt' > nxt)
    BY <1>2, <1>3, <1>5 DEF Tracks
  <2>2. \A j \in 1..LastEvent : j < nxt' => j < nxt
    BY <1>1, <1>4, <2>1
  <2>3. Behind' \subseteq Behind
    BY <1>1, <1>2, <2>1, <2>2 DEF Behind
  <2>4. QED
    BY <2>1, <2>3 DEF Tracks
<1>6. pc' \in {"start", "join"} => pc \in {"start", "join"}
  BY <1>2
<1>7. QED
  BY <1>2, <1>3, <1>5, <1>6, TellingKept

LEMMA NothingTold == Tells(<<>>, {})
<1>1. Len(<<>>) = 0 /\ <<>> = [step \in 1..0 |-> <<>>[step]]
  OBVIOUS
<1>2. QED
  BY <1>1 DEF Tells

LEMMA HistoryStepTells ==
  ASSUME JournalingInv, TrackingInv, TellingInv, ReadHistory
  PROVE  TellingInv'
<1> HIDE DEF LastEvent
<1>1. LastEvent \in Nat /\ LastEvent' = LastEvent /\ turn' = turn
  BY LastIsNat, TurnIsFixed DEF ReadHistory
<1>2. /\ UNCHANGED <<setup, sent, seen, pending, nxt, cursor>>
      /\ chain' = IF setup.readable THEN History(sent) ELSE <<>>
      /\ pc = "join" /\ pc' \in {"over", "listen"}
      /\ gap' = (~setup.readable /\ nxt > 1)
  BY DEF ReadHistory, EndFollow, Pass, connection, durable
<1>3. /\ sent \in 0..LastEvent /\ nxt \in Nat /\ nxt <= sent + 1 /\ setup \in Setups
      /\ seen = {} /\ pending = NoParts /\ seen \subseteq 1..cursor
  BY <1>1, <1>2 DEF JournalingInv, TrackingInv, TellingInv
<1>4. /\ Behind' \subseteq 1..sent
      /\ nxt <= 1 => Behind' = {}
  <2>1. Behind' = {j \in 1..LastEvent : j < nxt}
    BY <1>1, <1>2, <1>3 DEF Behind
  <2>2. QED
    BY <1>1, <1>3, <2>1
<1>5. CASE setup.readable
  <2>1. Tells(History(sent), 1..sent) /\ chain' = History(sent)
    BY <1>2, <1>3, <1>5, HistoryIsTold
  <2>2. QED
    BY <1>2, <1>3, <1>4, <2>1, NothingWaits, TellingBy
<1>6. CASE ~setup.readable
  <2>1. ~gap' => ~(nxt > 1)
    BY <1>2, <1>6, Zenon
  <2>3. ~gap' => Behind' = {}
    BY <1>3, <1>4, <2>1
  <2>2. Tells(<<>>, {}) /\ chain' = <<>>
    BY <1>2, <1>6, NothingTold
  <2>4. QED
    BY <1>2, <1>3, <1>4, <2>2, <2>3, NothingWaits, TellingBy
<1>7. QED
  BY <1>5, <1>6

LEMMA DeliverTells ==
  ASSUME JournalingInv, TrackingInv, TellingInv, Deliver
  PROVE  TellingInv'
<1> HIDE DEF LastEvent
<1>1. LastEvent \in Nat /\ LastEvent' = LastEvent /\ turn' = turn
  BY LastIsNat, TurnIsFixed DEF Deliver
<1>2. /\ UNCHANGED <<setup, sent, chain, pending, gap, outcome>>
      /\ pc = "listen" /\ nxt <= sent /\ nxt' = nxt + 1
      /\ cursor' = IF setup.ids THEN nxt ELSE cursor
      /\ \/ /\ turn[nxt].kind = "foreign" \/ nxt \in seen
            /\ pc' = "listen" /\ seen' = seen
         \/ /\ nxt \notin seen
            /\ pc' = IF turn[nxt].kind = "reasoning" THEN "listen" ELSE "append"
            /\ seen' = IF setup.ids THEN seen \cup {nxt} ELSE seen
  BY DEF Deliver, Pass, durable, ghosts
<1>3. /\ nxt \in Nat \ {0} /\ cursor \in Nat /\ cursor <= nxt /\ seen \subseteq 1..cursor
      /\ setup.ids => seen' \subseteq seen \cup {nxt}
      /\ ~setup.ids => seen' = seen
  BY <1>1, <1>2 DEF JournalingInv, TrackingInv, TellingInv
<1>4. seen' \subseteq 1..cursor'
  <2>1. CASE setup.ids
    <3>1. cursor' = nxt
      BY <1>2, <2>1
    <3>2. seen \cup {nxt} \subseteq 1..nxt
      BY <1>3
    <3>3. QED
      BY <1>3, <2>1, <3>1, <3>2
  <2>2. CASE ~setup.ids
    <3>1. cursor' = cursor
      BY <1>2, <2>2
    <3>2. QED
      BY <1>3, <2>2, <3>1
  <2>3. QED
    BY <2>1, <2>2
<1>5. ASSUME NEW j \in Behind' PROVE j \in Behind \/ turn[j].kind \notin {"message", "part"}
  <2>1. j \in 1..LastEvent /\ (j < nxt + 1 \/ j \in seen') /\ ~(pc' = "append" /\ j = nxt)
    BY <1>1, <1>2, <1>3, <1>5 DEF Behind
  <2>2. \A k \in 1..LastEvent : k < nxt \/ k \in seen => k \in Behind
    BY <1>2 DEF Behind
  <2>3. CASE j = nxt
    BY <1>2, <2>1, <2>2, <2>3
  <2>4. CASE j # nxt
    BY <1>1, <1>2, <1>3, <2>1, <2>2, <2>4
  <2>5. QED
    BY <2>3, <2>4
<1>6. ~gap' => Tells(chain, Behind)
  BY <1>2 DEF TellingInv, Tracks
<1>7. ~gap' => Waits(pending, chain)
  BY <1>2 DEF TellingInv, Tracks
<1>8. QED
  BY <1>2, <1>4, <1>5, <1>6, <1>7, TellingBy

LEMMA RereadTells ==
  ASSUME JournalingInv, TrackingInv, TellingInv, Reread
  PROVE  TellingInv'
<1> HIDE DEF LastEvent
<1>1. LastEvent \in Nat /\ LastEvent' = LastEvent /\ turn' = turn
  BY LastIsNat, TurnIsFixed DEF Reread
<1>2. /\ UNCHANGED <<setup, sent, seen, cursor, gap>>
      /\ \/ setup.readable /\ chain' = History(sent) /\ pending' = NoParts /\ nxt' = sent + 1
         \/ UNCHANGED <<chain, pending, nxt>> /\ pc' = "retry" /\ outcome' = outcome
      /\ pc = "broken" /\ pc' \in {"over", "retry"}
  BY DEF Reread, EndFollow, Pass, durable, ghosts
<1>3. /\ sent \in 0..LastEvent /\ setup \in Setups /\ cursor = 0 /\ seen \subseteq 1..cursor
      /\ outcome # "terminal"
  BY <1>1, <1>2 DEF JournalingInv, TrackingInv, TellingInv
<1>4. CASE setup.readable /\ chain' = History(sent) /\ pending' = NoParts /\ nxt' = sent + 1
  <2>1. Tells(History(sent), 1..sent)
    BY <1>3, HistoryIsTold
  <2>2. Behind' = {j \in 1..LastEvent : j < sent + 1}
    BY <1>1, <1>2, <1>3, <1>4 DEF Behind
  <2>3. \A j \in Behind' : j \in 1..sent
    BY <1>1, <1>3, <2>2
  <2>4. QED
    BY <1>2, <1>3, <1>4, <2>1, <2>3, NothingWaits, TellingBy
<1>5. CASE UNCHANGED <<chain, pending, nxt>> /\ pc' = "retry" /\ outcome' = outcome
  <2>1. Behind' = Behind
    BY <1>2, <1>5, BehindKept
  <2>2. Tracks
    BY <1>2 DEF Tracks
  <2>3. QED
    BY <1>2, <1>3, <1>5, <2>1, <2>2, TellingKept
<1>6. QED
  BY <1>2, <1>4, <1>5

LEMMA ObserveTells ==
  ASSUME JournalingInv, TrackingInv, TellingInv, NEW from \in {"append", "persist"}, Observe(from),
         UNCHANGED <<setup, nxt, cursor, seen, gap>>
  PROVE  TellingInv'
<1> HIDE DEF LastEvent
<1>1. LastEvent \in Nat /\ LastEvent' = LastEvent /\ turn' = turn
  BY LastIsNat, TurnIsFixed
<1>2. pc = from /\ pc' \in {"over", "listen"}
  BY DEF Observe, EndFollow, Pass
<1>3. /\ nxt \in Nat /\ nxt - 1 \in 1..LastEvent /\ seen \subseteq 1..cursor
      /\ cursor = nxt - 1 \/ cursor = 0
      /\ setup \in Setups
  BY <1>1, <1>2 DEF JournalingInv, TellingInv
<1>4. PICK i \in 1..LastEvent : i = nxt - 1
  BY <1>3
<1>5. Behind = 1..(i - 1) /\ Behind' \subseteq 1..i
  <2>1. seen \subseteq 1..i
    BY <1>1, <1>3, <1>4
  <2>2. Behind' \subseteq 1..i
    BY <1>1, <1>2, <1>3, <1>4, <2>1 DEF Behind
  <2>3. Behind = 1..(i - 1)
    BY <1>1, <1>2, <1>3, <1>4, <2>1 DEF Behind
  <2>4. QED
    BY <2>2, <2>3
<1>6. ASSUME ~gap
      PROVE  \E steps, events, texts :
               /\ Tells(steps, events) /\ chain' = steps /\ Waits(texts, steps) /\ pending' = texts
               /\ \A j \in 1..i : j \in events \/ turn[j].kind \notin {"message", "part"}
  <2>1. Tells(chain, 1..(i - 1)) /\ Waits(pending, chain) /\ event = turn[i]
    BY <1>2, <1>4, <1>5, <1>6 DEF TellingInv, Tracks, event
  <2>2. CASE Attributed(turn[i])
    <3>1. ObserveMessage(turn[i])
      <4>1. Attributed(event) => ObserveMessage(event)
        BY DEF Observe, Attributed
      <4>2. QED
        BY <2>1, <2>2, <4>1
    <3>2. PICK s \in 1..3 : s = turn[i].step
      BY <1>3, <2>2, MessagesInOrder
    <3>3. /\ DOMAIN pending = 0..3
          /\ pending[s] # "absent" => s > Len(chain) /\ Updates("part", s) # {}
      BY <2>1 DEF Waits
    <3>4. Tells(chain', 1..i) /\ Waits([pending EXCEPT ![s] = "absent"], chain')
      <4>1. CASE Has(chain, s)
        <5>1. s \in 1..Len(chain)
          BY <2>1, <4>1, StepsByPlace
        <5>2. pending[s] = "absent"
          <6>1. Len(chain) \in Nat
            BY <2>1, StepsByPlace
          <6>2. QED
            BY <3>3, <5>1, <6>1
        <5>3. chain' = Replaced(chain, s, Update(i, s, Find(chain, s).text))
          BY <3>1, <3>2, <4>1, <5>2 DEF ObserveMessage, Update
        <5>4. Tells(chain', 1..i)
          BY <1>3, <2>1, <2>2, <3>2, <4>1, <5>3, MessageTells
        <5>5. Len(chain') = Len(chain)
          BY <2>1, <5>3, StepsByPlace
        <5>6. QED
          BY <2>1, <5>2, <5>4, <5>5 DEF Waits
      <4>2. CASE ~Has(chain, s)
        <5>1. chain' = Append(chain, Update(i, s, pending[s]))
          BY <3>1, <3>2, <4>2 DEF ObserveMessage, Update
        <5>2. Tells(chain', 1..i) /\ s = Len(chain) + 1 /\ Len(chain') = s
          <6>1. PICK text : text = pending[s] /\ (text # "absent" => Updates("part", s) # {})
            BY <3>3
          <6>2. chain' = Append(chain, Update(i, s, text))
            BY <5>1, <6>1
          <6>3. setup \in Setups
            BY <1>3
          <6>4. /\ s = Len(chain) + 1 /\ Len(Append(chain, Update(i, s, text))) = s
                /\ Tells(Append(chain, Update(i, s, text)), 1..i)
            BY <2>1, <2>2, <3>2, <4>2, <6>1, <6>3, MessageTells, ZenonT(60)
          <6>5. QED
            BY <6>2, <6>4
        <5>3. Len(chain) \in Nat
          BY <2>1, StepsByPlace
        <5>4. QED
          BY <2>1, <5>2, <5>3 DEF Waits
      <4>3. QED
        BY <4>1, <4>2
    <3>5. pending' = [pending EXCEPT ![s] = "absent"]
      BY <3>1, <3>2 DEF ObserveMessage
    <3>6. QED
      BY <3>4, <3>5
  <2>3. CASE turn[i].kind = "part"
    <3>1. ObservePart(turn[i])
      BY <2>1, <2>3 DEF Observe, Attributed
    <3>2. PICK s \in 0..3 : s = turn[i].step
      BY <1>3, <2>3, PartsAgain
    <3>3. CASE Has(chain, s)
      <4>1. /\ chain' = Replaced(chain, s, [Find(chain, s) EXCEPT !.text = turn[i].text])
            /\ pending' = pending
        BY <3>1, <3>2, <3>3 DEF ObservePart
      <4>2. Tells(chain', 1..i)
        BY <1>3, <2>1, <2>3, <3>2, <3>3, <4>1, PartTells
      <4>3. Len(chain') = Len(chain)
        BY <2>1, <4>1, StepsByPlace
      <4>4. Waits(pending, chain')
        BY <2>1, <4>3 DEF Waits
      <4>5. QED
        BY <4>1, <4>2, <4>4
    <3>4. CASE ~Has(chain, s)
      <4>1. chain' = chain /\ pending' = [pending EXCEPT ![s] = turn[i].text]
        BY <3>1, <3>2, <3>4 DEF ObservePart
      <4>2. s \notin 1..Len(chain) /\ Tells(chain, 1..i)
        BY <1>3, <2>1, <2>3, <3>2, <3>4, PartTells
      <4>3. i \in Updates("part", s) /\ Len(chain) \in Nat
        BY <2>1, <2>3, <3>2, StepsByPlace DEF Updates
      <4>4. Waits([pending EXCEPT ![s] = turn[i].text], chain)
        <5>1. DOMAIN pending = 0..3 /\ \A step \in 1..3 :
                pending[step] # "absent" => step > Len(chain) /\ Updates("part", step) # {}
          BY <2>1 DEF Waits
        <5>2. s \in 1..3 => s > Len(chain) /\ Updates("part", s) # {}
          BY <4>2, <4>3
        <5>3. QED
          BY <5>1, <5>2 DEF Waits
      <4>5. QED
        BY <4>1, <4>2, <4>4
    <3>5. QED
      BY <3>3, <3>4
  <2>4. CASE ~Attributed(turn[i]) /\ turn[i].kind # "part"
    <3>1. UNCHANGED <<chain, pending>>
      BY <2>1, <2>4 DEF Observe
    <3>2. QED
      BY <1>3, <2>1, <2>4, <3>1, OtherTells
  <2>5. QED
    BY <2>2, <2>3, <2>4
<1>7. QED
  BY <1>2, <1>3, <1>5, <1>6, TellingBy

LEMMA NextTelling ==
  JournalingInv /\ TrackingInv /\ TellingInv /\ [FollowNext]_followVars => TellingInv'
<1> SUFFICES ASSUME JournalingInv, TrackingInv, TellingInv, [FollowNext]_followVars
             PROVE  TellingInv'
  OBVIOUS
<1> HIDE DEF LastEvent
<1>1. (outcome = "terminal" => pc = "over") /\ seen \subseteq 1..cursor
  BY DEF TrackingInv, TellingInv
<1> USE DEF tracker, connection, durable, ghosts, Pass, EndFollow
<1>a. ASSUME UNCHANGED <<setup, nxt, seen, chain, pending, cursor, gap>>,
             pc' \in {"append", "persist"} <=> pc \in {"append", "persist"},
             pc' \in {"start", "join"} => pc \in {"start", "join"},
             Tracks' => Tracks
      PROVE  TellingInv'
  BY <1>1, <1>a, BehindKept, TellingKept
<1>b. ASSUME UNCHANGED <<setup, seen, chain, pending, cursor, gap>>,
             pc' \in {"over", "killed"}, outcome' # "terminal"
      PROVE  TellingInv'
  <2>1. ~Tracks'
    BY <1>b DEF Tracks
  <2>2. QED
    BY <1>1, <1>b, <2>1, TellingKept
<1>2. CASE UNCHANGED followVars
  BY <1>2, <1>a DEF followVars, Tracks
<1>3. CASE Subscribe \/ Resubscribe
  BY <1>3, JoinTells
<1>4. CASE ReadHistory
  BY <1>4, HistoryStepTells
<1>5. CASE Deliver
  BY <1>5, DeliverTells
<1>6. CASE AppendEvent
  <2>1. UNCHANGED <<setup, nxt, cursor, seen, gap>>
    BY <1>6 DEF AppendEvent
  <2>2. CASE Observe("append")
    BY <2>1, <2>2, ObserveTells
  <2>3. CASE pc = "append" /\ pc' = "persist" /\ UNCHANGED <<chain, pending, outcome>>
    BY <2>1, <2>3, <1>a DEF Tracks
  <2>4. QED
    BY <1>6, <2>2, <2>3 DEF AppendEvent
<1>7. CASE Persist
  BY <1>7, ObserveTells DEF Persist
<1>8. CASE Reread
  BY <1>8, RereadTells
<1>9. CASE JoinFails \/ RecordFails \/ StreamGarbled \/ GiveUp \/ Expire
  BY <1>9, <1>b DEF JoinFails, RecordFails, StreamGarbled, GiveUp, Expire
<1>10. CASE KillFollow
  BY <1>1, <1>10, <1>b DEF KillFollow, Active
<1>11. CASE StreamEnds \/ RereadFails \/ ResubscribeFails
  BY <1>11, <1>a, <1>b DEF StreamEnds, RereadFails, ResubscribeFails, Tracks
<1>12. CASE Again
  <2>1. seen' = {} /\ pending' = NoParts' /\ pc' = "start" /\ outcome' = "none" /\ setup' = setup
    BY <1>12 DEF Again, NoParts
  <2>2. ~Tracks'
    BY <2>1 DEF Tracks
  <2>3. QED
    BY <2>1, <2>2, TellingBy
<1>13. CASE Emit
  BY <1>13, <1>a DEF Emit, Tracks
<1>14. QED
  BY <1>2, <1>3, <1>4, <1>5, <1>6, <1>7, <1>8, <1>9, <1>10, <1>11, <1>12, <1>13
     DEF FollowNext, Progress

(* A chain that tells all of the turn is the history of the turn.            *)
LEMMA TellsVerdict ==
  JournalingInv /\ TrackingInv /\ TellingInv /\ HistoryInv => VerdictIsHistory
<1> SUFFICES ASSUME JournalingInv, TrackingInv, TellingInv, HistoryInv,
                    outcome = "terminal", ~gap, nxt > LastEvent
             PROVE  chain = History(LastEvent)
  BY DEF VerdictIsHistory, HistoryInv
<1> HIDE DEF LastEvent
<1>1. LastEvent \in Nat /\ setup \in Setups /\ nxt \in Nat /\ pc = "over"
  BY LastIsNat DEF JournalingInv, TrackingInv
<1>2. Tells(chain, Behind)
  BY DEF TellingInv, Tracks
<1>3. Behind = 1..LastEvent
  BY <1>1 DEF Behind
<1>4. QED
  BY <1>1, <1>2, <1>3, ToldIsHistory

(* What a follow reports is what the history says of the turn: after the       *)
(* turn's own idle the whole history, whatever the stream repeats and however *)
(* it is replaced, unless it left an event out; before it, by a history that  *)
(* was complete between two steps or by an earlier turn's idle, exactly what  *)
(* the history said when it was last read (TurnTracker and the reconnection   *)
(* of follow.rs).                                                            *)
THEOREM FollowTells == FollowSpec => []VerdictIsHistory
  BY InitJournaling, NextJournaling, InitTracking, NextTracking, InitTelling, NextTelling,
     InitHistory, NextHistory, TellsVerdict, PTL DEF FollowSpec

-----------------------------------------------------------------------------
(* The types of a follow, and why the journal counts no event too often when  *)
(* events have no ids: then nothing is delivered twice.                      *)
TypedChain(steps) ==
  /\ steps \in Seq(Attribution)
  /\ \A i, j \in DOMAIN steps : steps[i].step = steps[j].step => i = j

PlacesTyped ==
  /\ pc \in {"start", "join", "listen", "append", "persist", "broken",
             "retry", "over", "killed"}
  /\ outcome \in {"none", "terminal", "timeout", "server_unreachable",
                  "refused", "events_corrupt"}
  /\ reread \in BOOLEAN /\ failing \in BOOLEAN /\ resumed \in BOOLEAN /\ gap \in BOOLEAN
  /\ faults \in 0..MaxFaults /\ runs \in 0..faults

CountedOnce ==
  ~setup.ids => \A i \in 1..LastEvent : log[i] <= IF i < nxt /\ ~Flying(i) THEN 1 ELSE 0

TrackerTyped == TypedChain(chain) /\ pending \in [0..3 -> Texts]

TypingInv == PlacesTyped /\ CountedOnce /\ TrackerTyped

LEMMA EmptyIsTyped == TypedChain(<<>>) /\ NoParts \in [0..3 -> Texts]
  BY DEF TypedChain, NoParts, Texts

LEMMA EventTypes ==
  ASSUME setup \in Setups, NEW i \in 1..LastEvent
  PROVE  /\ turn[i].kind = "message" =>
              turn[i].done \in BOOLEAN /\ turn[i].error \in BOOLEAN /\ turn[i].text \in Texts
         /\ turn[i].kind = "part" => turn[i].text \in Texts
  BY EventAssumption DEF turn, LastEvent

LEMMA HistoryIsTyped ==
  ASSUME setup \in Setups, NEW n \in 0..LastEvent
  PROVE  TypedChain(History(n))
<1>0. LastEvent \in Nat
  BY SetupAssumption DEF LastEvent, turn
<1>1. /\ Len(History(n)) \in Nat
      /\ History(n) = [step \in 1..Len(History(n)) |-> Step(n, step)]
      /\ \A step \in 1..Len(History(n)) :
           Newest(n, "message", step) \in Updates("message", step)
  BY HistoryTells
<1>2. ASSUME NEW step \in 1..Len(History(n)) PROVE Step(n, step) \in Attribution
  <2>1. PICK i \in Updates("message", step) : i = Newest(n, "message", step)
    BY <1>1
  <2>2. i \in 1..LastEvent /\ turn[i].kind = "message" /\ turn[i].step = step
    BY <2>1 DEF Updates
  <2>3. step \in 1..3
    BY <1>0, <1>1, <2>2, MessagesInOrder DEF Attributed
  <2>4. turn[i].done \in BOOLEAN /\ turn[i].error \in BOOLEAN /\ turn[i].text \in Texts
    BY <2>2, EventTypes
  <2>5. ASSUME Newest(n, "part", step) # 0
        PROVE  turn[Newest(n, "part", step)].text \in Texts
    <3>1. PICK k \in Updates("part", step) : k = Newest(n, "part", step)
      BY <1>0, <2>5, NewestIs
    <3>2. k \in 1..LastEvent /\ turn[k].kind = "part"
      BY <3>1 DEF Updates
    <3>3. QED
      BY <3>1, <3>2, EventTypes
  <2>6. PICK text \in Texts :
          text = IF Newest(n, "part", step) = 0 THEN "absent"
                 ELSE turn[Newest(n, "part", step)].text
    BY <2>5 DEF Texts
  <2>7. Step(n, step) = [step |-> step, done |-> turn[i].done, reply |-> turn[i].text,
                         error |-> turn[i].error, text |-> text]
    BY <2>1, <2>6 DEF Step
  <2>8. QED
    BY <2>3, <2>4, <2>7 DEF Attribution
<1>3. \A step \in 1..Len(History(n)) : Step(n, step).step = step
  BY DEF Step
<1>4. PICK k \in Nat : k = Len(History(n))
  BY <1>1
<1>5. PICK h : h = History(n)
  OBVIOUS
<1>6. h = [step \in 1..k |-> Step(n, step)]
  BY <1>1, <1>4, <1>5
<1>7. h \in Seq(Attribution)
  BY <1>2, <1>4, <1>6
<1>8. \A i, j \in DOMAIN h : h[i].step = h[j].step => i = j
  BY <1>3, <1>4, <1>6
<1>9. QED
  BY <1>5, <1>7, <1>8 DEF TypedChain

(* The entry of a step in a typed chain.                                     *)
LEMMA FoundIsTyped ==
  ASSUME NEW steps, TypedChain(steps), NEW s, Has(steps, s)
  PROVE  Find(steps, s) \in Attribution /\ Find(steps, s).step = s
<1>1. PICK i \in DOMAIN steps : steps[i].step = s
  BY DEF Has
<1>2. PICK k \in DOMAIN steps : steps[k].step = s /\ Find(steps, s) = steps[k]
  BY <1>1 DEF Find
<1>3. steps[k] \in Attribution
  BY <1>2 DEF TypedChain
<1>4. QED
  BY <1>2, <1>3

LEMMA ReplacedIsTyped ==
  ASSUME NEW steps, TypedChain(steps), NEW m \in Attribution
  PROVE  TypedChain(Replaced(steps, m.step, m))
<1>1. PICK k \in Nat : k = Len(steps)
  BY DEF TypedChain
<1>2. steps \in [1..k -> Attribution]
  BY <1>1 DEF TypedChain
<1>3. PICK renewed : renewed = Replaced(steps, m.step, m)
  OBVIOUS
<1>4. renewed = [i \in 1..k |-> IF steps[i].step = m.step THEN m ELSE steps[i]]
  BY <1>2, <1>3 DEF Replaced
<1>5. renewed \in Seq(Attribution)
  BY <1>2, <1>4
<1>6. DOMAIN renewed = 1..k /\ \A i \in 1..k : renewed[i].step = steps[i].step
  BY <1>4
<1>7. QED
  BY <1>2, <1>3, <1>5, <1>6 DEF TypedChain

LEMMA AppendedIsTyped ==
  ASSUME NEW steps, TypedChain(steps), NEW m \in Attribution, ~Has(steps, m.step)
  PROVE  TypedChain(Append(steps, m))
<1>1. PICK k \in Nat : k = Len(steps)
  BY DEF TypedChain
<1>2. steps \in Seq(Attribution) /\ DOMAIN steps = 1..k
  BY <1>1 DEF TypedChain
<1>3. PICK longer : longer = Append(steps, m)
  OBVIOUS
<1>4. /\ longer \in Seq(Attribution) /\ DOMAIN longer = 1..(k + 1)
      /\ longer[k + 1] = m /\ \A i \in 1..k : longer[i] = steps[i]
  BY <1>1, <1>2, <1>3
<1>5. \A i \in 1..k : longer[i].step # m.step
  BY <1>2, <1>4 DEF Has
<1>6. \A i \in 1..(k + 1) : i = k + 1 \/ i \in 1..k
  OBVIOUS
<1>7. \A i, j \in 1..k : longer[i].step = longer[j].step => i = j
  BY <1>2, <1>4 DEF TypedChain
<1>8. QED
  BY <1>3, <1>4, <1>5, <1>6, <1>7 DEF TypedChain

LEMMA ObserveTypes ==
  ASSUME JournalingInv, TrackerTyped, nxt > 1, NEW from, Observe(from)
  PROVE  TypedChain(chain') /\ pending' \in [0..3 -> Texts]
<1> HIDE DEF LastEvent
<1>0. /\ setup \in Setups /\ LastEvent \in Nat /\ nxt \in 1..(LastEvent + 1)
      /\ TypedChain(chain) /\ pending \in [0..3 -> Texts]
  BY LastIsNat DEF JournalingInv, TrackerTyped
<1>1. PICK i \in 1..LastEvent : i = nxt - 1
  BY <1>0
<1>2. event = turn[i]
  BY <1>1 DEF event
<1>3. CASE UNCHANGED <<chain, pending>>
  BY <1>0, <1>3
<1>4. CASE Attributed(event) /\ ObserveMessage(event)
  <2> DEFINE s == event.step
             text == IF pending[s] = "absent" /\ Has(chain, s) THEN Find(chain, s).text
                     ELSE pending[s]
             m == [step |-> s, done |-> event.done, reply |-> event.text,
                   error |-> event.error, text |-> text]
  <2>1. s \in 1..3 /\ event.kind = "message"
    BY <1>0, <1>2, <1>4, MessagesInOrder DEF Attributed
  <2>2. event.done \in BOOLEAN /\ event.error \in BOOLEAN /\ event.text \in Texts
    BY <1>0, <1>2, <2>1, EventTypes
  <2>3. text \in Texts
    <3>1. Has(chain, s) => Find(chain, s).text \in Texts
      BY <1>0, FoundIsTyped DEF Attribution
    <3>2. QED
      BY <1>0, <2>1, <3>1
  <2>4. /\ chain' = IF Has(chain, s) THEN Replaced(chain, s, m) ELSE Append(chain, m)
        /\ pending' = [pending EXCEPT ![s] = "absent"]
    BY <1>4 DEF ObserveMessage
  <2> HIDE DEF text
  <2>5. m \in Attribution /\ m.step = s
    BY <2>1, <2>2, <2>3 DEF Attribution
  <2> HIDE DEF m
  <2>6. TypedChain(chain')
    BY <1>0, <2>4, <2>5, ReplacedIsTyped, AppendedIsTyped
  <2>7. pending' \in [0..3 -> Texts]
    BY <1>0, <2>4 DEF Texts
  <2>8. QED
    BY <2>6, <2>7
<1>5. CASE event.kind = "part" /\ ObservePart(event)
  <2>1. event.text \in Texts
    BY <1>0, <1>2, <1>5, EventTypes
  <2>2. CASE Has(chain, event.step)
    <3> DEFINE found == Find(chain, event.step)
               m == [found EXCEPT !.text = event.text]
    <3>1. found \in Attribution /\ found.step = event.step
      BY <1>0, <2>2, FoundIsTyped
    <3>2. chain' = Replaced(chain, event.step, m) /\ UNCHANGED pending
      BY <1>5, <2>2 DEF ObservePart
    <3> HIDE DEF found
    <3>3. m \in Attribution /\ m.step = event.step
      BY <2>1, <3>1 DEF Attribution
    <3> HIDE DEF m
    <3>4. QED
      BY <1>0, <3>2, <3>3, ReplacedIsTyped
  <2>3. CASE ~Has(chain, event.step)
    BY <1>0, <1>5, <2>1, <2>3 DEF ObservePart
  <2>4. QED
    BY <2>2, <2>3
<1>6. QED
  BY <1>3, <1>4, <1>5 DEF Observe

LEMMA NextTracker ==
  ASSUME JournalingInv, TrackingInv, TrackerTyped, [FollowNext]_followVars
  PROVE  TrackerTyped'
<1> HIDE DEF LastEvent
<1> SUFFICES TypedChain(chain') /\ pending' \in [0..3 -> Texts]
  BY DEF TrackerTyped, TypedChain, Attribution, Texts, States
<1>0. /\ setup \in Setups /\ sent \in 0..LastEvent
      /\ TypedChain(chain) /\ pending \in [0..3 -> Texts]
      /\ (pc \in {"append", "persist"} => nxt > 1)
  BY DEF JournalingInv, TrackerTyped
<1> USE DEF tracker, connection, durable, ghosts
<1>1. CASE UNCHANGED <<chain, pending>>
  BY <1>0, <1>1
<1>2. CASE ReadHistory
  BY <1>0, <1>2, HistoryIsTyped, EmptyIsTyped DEF ReadHistory
<1>3. CASE AppendEvent \/ Persist
  <2>1. CASE Observe("append") \/ Observe("persist")
    BY <1>0, <2>1, ObserveEnds, ObserveTypes
  <2>2. QED
    BY <1>1, <1>3, <2>1 DEF AppendEvent, Persist
<1>4. CASE Reread
  BY <1>0, <1>4, HistoryIsTyped, EmptyIsTyped DEF Reread
<1>5. CASE Again
  BY <1>5, EmptyIsTyped DEF Again
<1>6. CASE Subscribe \/ Deliver \/ Resubscribe
  BY <1>1, <1>6 DEF Subscribe, Deliver, Resubscribe
<1>7. CASE JoinFails \/ RecordFails \/ StreamEnds \/ StreamGarbled \/ RereadFails
             \/ GiveUp \/ ResubscribeFails \/ Expire \/ KillFollow \/ Emit
  BY <1>1, <1>7 DEF JoinFails, RecordFails, StreamEnds, StreamGarbled, RereadFails, GiveUp,
     ResubscribeFails, Expire, KillFollow, Emit
<1>8. QED
  BY <1>1, <1>2, <1>3, <1>4, <1>5, <1>6, <1>7 DEF FollowNext, Progress, followVars

LEMMA NextPlaces ==
  ASSUME PlacesTyped, [FollowNext]_followVars
  PROVE  PlacesTyped'
<1>0. MaxFaults \in Nat
  BY FaultAssumption
<1> USE DEF tracker, connection, durable, ghosts, Pass, EndFollow
<1>1. CASE UNCHANGED followVars
  BY <1>1 DEF followVars, PlacesTyped
<1>2. faults' \in 0..MaxFaults /\ runs' \in 0..faults'
  <2>1. CASE UNCHANGED <<faults, runs>>
    BY <2>1 DEF PlacesTyped
  <2>2. CASE Fault /\ runs' \in {runs, runs + 1}
    BY <1>0, <2>2 DEF Fault, PlacesTyped
  <2>3. QED
    BY <2>1, <2>2 DEF FollowNext, Progress, followVars, Subscribe, ReadHistory, Deliver,
       AppendEvent, Persist, Reread, Resubscribe, JoinFails, RecordFails, StreamEnds,
       StreamGarbled, RereadFails, GiveUp, ResubscribeFails, Expire, KillFollow, Again, Emit
<1>3. CASE Subscribe \/ Emit
  BY <1>2, <1>3 DEF Subscribe, Emit, PlacesTyped
<1>a. CASE Deliver
  <2>1. pc' \in {"listen", "append"} /\ failing' = FALSE
        /\ UNCHANGED <<outcome, reread, resumed, gap>>
    BY <1>a DEF Deliver
  <2>2. QED
    BY <1>2, <2>1 DEF PlacesTyped
<1>b. CASE Resubscribe
  BY <1>2, <1>b DEF Resubscribe, PlacesTyped
<1>4. CASE ReadHistory
  BY <1>2, <1>4 DEF ReadHistory, PlacesTyped
<1>5. CASE AppendEvent \/ Persist
  <2>1. UNCHANGED <<reread, failing, resumed, gap>>
    BY <1>5 DEF AppendEvent, Persist
  <2>2. pc' \in {"persist", "over", "listen"} /\ outcome' \in {outcome, "terminal"}
    BY <1>5 DEF AppendEvent, Persist, Observe
  <2>3. QED
    BY <1>2, <2>1, <2>2 DEF PlacesTyped
<1>6. CASE Reread
  BY <1>2, <1>6 DEF Reread, PlacesTyped
<1>7. CASE JoinFails \/ RecordFails \/ StreamGarbled \/ GiveUp
  BY <1>2, <1>7 DEF JoinFails, RecordFails, StreamGarbled, GiveUp, PlacesTyped
<1>8. CASE StreamEnds \/ RereadFails \/ ResubscribeFails
  BY <1>2, <1>8 DEF StreamEnds, RereadFails, ResubscribeFails, PlacesTyped
<1>9. CASE Expire \/ KillFollow \/ Again
  BY <1>2, <1>9 DEF Expire, KillFollow, Again, PlacesTyped
<1>10. QED
  BY <1>1, <1>3, <1>a, <1>b, <1>4, <1>5, <1>6, <1>7, <1>8, <1>9 DEF FollowNext, Progress

(* Without ids a stream begins behind everything that was emitted.           *)
LEMMA NextCount ==
  ASSUME JournalingInv, TrackingInv, CountedOnce, [FollowNext]_followVars
  PROVE  CountedOnce'
<1> HIDE DEF LastEvent
<1> SUFFICES ASSUME ~setup'.ids, NEW i \in 1..LastEvent'
             PROVE  log'[i] <= IF i < nxt' /\ ~Flying(i)' THEN 1 ELSE 0
  BY DEF CountedOnce
<1> USE DEF tracker, connection, durable, ghosts, Pass, EndFollow
<1>1. setup' = setup
  BY DEF FollowNext, Progress, followVars, Subscribe, ReadHistory, Deliver,
     AppendEvent, Persist, Reread, Resubscribe, JoinFails, RecordFails, StreamEnds,
     StreamGarbled, RereadFails, GiveUp, ResubscribeFails, Expire, KillFollow, Again, Emit
<1>2. /\ LastEvent \in Nat /\ LastEvent' = LastEvent /\ ~setup.ids /\ i \in Nat
      /\ nxt \in Nat \ {0} /\ sent \in Nat /\ cursor = 0 /\ nxt <= sent + 1
      /\ log \in [1..LastEvent -> Nat] /\ pc # "persist"
      /\ (pc = "append" => nxt > 1)
      /\ log[i] <= IF i < nxt /\ ~Flying(i) THEN 1 ELSE 0
  BY <1>1, LastIsNat, TurnIsFixed DEF JournalingInv, TrackingInv, CountedOnce
<1>3. log[i] \in Nat
  BY <1>1, <1>2
<1>4. CASE UNCHANGED log /\ nxt' \in Nat /\ nxt' >= nxt /\ ~Flying(i)'
  BY <1>2, <1>3, <1>4
<1>5. CASE UNCHANGED <<log, nxt>> /\ (pc' = pc \/ pc' # "append")
  BY <1>2, <1>3, <1>5 DEF Flying
<1>6. CASE Subscribe \/ Resubscribe
  <2>1. nxt' = sent + 1 /\ pc' # "append" /\ UNCHANGED log
    BY <1>2, <1>6 DEF Subscribe, Resubscribe, Positions, Replayed
  <2>2. QED
    BY <1>2, <1>4, <2>1 DEF Flying
<1>7. CASE Deliver
  <2>1. UNCHANGED log /\ nxt' = nxt + 1 /\ pc = "listen"
    BY <1>7 DEF Deliver
  <2>2. CASE i = nxt
    BY <1>2, <1>3, <2>1, <2>2 DEF Flying
  <2>3. CASE i # nxt
    BY <1>2, <1>3, <2>1, <2>3 DEF Flying
  <2>4. QED
    BY <2>2, <2>3
<1>8. CASE AppendEvent
  <2>1. /\ pc = "append" /\ log' = [log EXCEPT ![nxt - 1] = @ + 1] /\ nxt' = nxt
        /\ pc' # "append"
    BY <1>2, <1>8 DEF AppendEvent, Persists, Observe
  <2>2. CASE i = nxt - 1
    BY <1>1, <1>2, <1>3, <2>1, <2>2 DEF Flying
  <2>3. CASE i # nxt - 1
    BY <1>1, <1>2, <1>3, <2>1, <2>3 DEF Flying
  <2>4. QED
    BY <2>2, <2>3
<1>9. CASE Persist
  BY <1>2, <1>9 DEF Persist, Observe
<1>10. CASE Reread
  <2>1. nxt' \in {nxt, sent + 1} /\ pc' # "append" /\ UNCHANGED log
    BY <1>10 DEF Reread
  <2>2. nxt' \in Nat /\ nxt' >= nxt
    BY <1>2, <2>1
  <2>3. ~Flying(i)'
    BY <2>1 DEF Flying
  <2>4. QED
    BY <1>4, <2>1, <2>2, <2>3
<1>11. CASE ReadHistory \/ JoinFails \/ RecordFails \/ StreamEnds \/ StreamGarbled
            \/ RereadFails \/ GiveUp \/ ResubscribeFails \/ Expire \/ KillFollow \/ Again
            \/ Emit \/ UNCHANGED followVars
  BY <1>5, <1>11 DEF ReadHistory, JoinFails, RecordFails, StreamEnds, StreamGarbled,
     RereadFails, GiveUp, ResubscribeFails, Expire, KillFollow, Again, Emit, followVars
<1>12. QED
  BY <1>6, <1>7, <1>8, <1>9, <1>10, <1>11 DEF FollowNext, Progress

LEMMA InitTyping == FollowInit => TypingInv
<1> SUFFICES ASSUME FollowInit PROVE TypingInv
  OBVIOUS
<1>1. PlacesTyped
  <2>1. /\ pc = "start" /\ outcome = "none" /\ faults = 0 /\ runs = 0
        /\ reread = FALSE /\ failing = FALSE /\ resumed = FALSE /\ gap = FALSE
    BY DEF FollowInit
  <2>2. /\ reread \in BOOLEAN /\ failing \in BOOLEAN /\ resumed \in BOOLEAN
        /\ gap \in BOOLEAN
    BY <2>1
  <2>3. MaxFaults \in Nat /\ faults \in 0..MaxFaults /\ runs \in 0..faults
    BY <2>1, FaultAssumption
  <2>4. QED
    BY <2>1, <2>2, <2>3 DEF PlacesTyped
<1>2. CountedOnce
  <2>1. \A i \in 1..LastEvent : log[i] = 0
    BY DEF FollowInit
  <2>2. QED
    BY <2>1 DEF CountedOnce
<1>3. TrackerTyped
  BY EmptyIsTyped DEF FollowInit, TrackerTyped
<1>4. QED
  BY <1>1, <1>2, <1>3 DEF TypingInv

LEMMA NextTyping ==
  JournalingInv /\ TrackingInv /\ TypingInv /\ [FollowNext]_followVars => TypingInv'
  BY NextPlaces, NextCount, NextTracker DEF TypingInv

LEMMA FollowIsTyped ==
  JournalingInv /\ TrackingInv /\ TellingInv /\ TypingInv => FollowTypeOK
<1> SUFFICES ASSUME JournalingInv, TrackingInv, TellingInv, TypingInv PROVE FollowTypeOK
  OBVIOUS
<1> HIDE DEF LastEvent
<1>1. /\ setup \in Setups /\ LastEvent \in Nat /\ sent \in 0..LastEvent /\ sent \in Nat
      /\ nxt \in 1..(LastEvent + 1) /\ first \in 0..(LastEvent + 1)
      /\ cursor \in 0..LastEvent /\ stored \in 0..LastEvent /\ seen \subseteq 1..cursor
      /\ cursor <= sent /\ stored <= sent /\ joined \in 0..sent
  BY LastIsNat DEF JournalingInv, TrackingInv, TellingInv
<1>2. cursor \in 0..sent /\ stored \in 0..sent /\ seen \subseteq 1..sent
      /\ joined \in 0..LastEvent
  BY <1>1
<1>3. MaxFaults \in Nat /\ faults \in 0..MaxFaults /\ runs \in 0..MaxFaults
  BY FaultAssumption DEF TypingInv, PlacesTyped
<1>4. log \in [1..LastEvent -> 0..(MaxFaults + 1)]
  <2>1. log \in [1..LastEvent -> Nat]
    BY DEF JournalingInv
  <2>2. ASSUME NEW i \in 1..LastEvent PROVE log[i] <= MaxFaults + 1
    <3>1. CASE setup.ids
      <4>1. log[i] <= 1 + runs
        BY <3>1 DEF JournalingInv, JournalExact
      <4>2. QED
        BY <1>3, <2>1, <4>1
    <3>2. CASE ~setup.ids
      <4>1. log[i] <= 1
        BY <2>1, <3>2 DEF TypingInv, CountedOnce
      <4>2. QED
        BY <1>3, <2>1, <4>1
    <3>3. QED
      BY <3>1, <3>2
  <2>3. \A i \in 1..LastEvent : log[i] \in 0..(MaxFaults + 1)
    BY <1>3, <2>1, <2>2
  <2>4. QED
    BY <2>1, <2>3
<1>5. QED
  BY <1>1, <1>2, <1>3, <1>4 DEF TypingInv, PlacesTyped, TrackerTyped, TypedChain, FollowTypeOK

(* The types of a follow, for any turn, any faults and any number of runs: no *)
(* step is in a chain twice, and the journal has no event more often than the *)
(* faults account for, also of a server whose events have no ids.            *)
THEOREM FollowTypes == FollowSpec => []FollowTypeOK
  BY InitJournaling, NextJournaling, InitTracking, NextTracking, InitTelling, NextTelling,
     InitTyping, NextTyping, FollowIsTyped, PTL DEF FollowSpec

-----------------------------------------------------------------------------
(* The helper's display.                                                    *)

LEMMA HeadedFollows == [HeadedNext]_headedVars => [FollowNext]_followVars \/ UNCHANGED following
<1> SUFFICES ASSUME [HeadedNext]_headedVars
             PROVE  [FollowNext]_followVars \/ UNCHANGED following
  OBVIOUS
<1>1. CASE UNCHANGED headedVars
  BY <1>1 DEF headedVars
<1>2. CASE stage = "follow" /\ FollowNext /\ UNCHANGED screenVars
  BY <1>2
<1>3. CASE stage # "follow" /\ (Emit \/ KillFollow) /\ UNCHANGED screenVars
  BY <1>3 DEF FollowNext
<1>4. CASE (ScreenStep \/ Killer) /\ UNCHANGED following
  BY <1>4
<1>5. QED
  BY <1>1, <1>2, <1>3, <1>4 DEF HeadedNext

LEMMA HelperFollows ==
  JournalingInv /\ TrackingInv /\ [HeadedNext]_headedVars => JournalingInv' /\ TrackingInv'
<1>1. JournalingInv /\ TrackingInv /\ UNCHANGED following => JournalingInv' /\ TrackingInv'
  <2> SUFFICES ASSUME JournalingInv, TrackingInv, UNCHANGED following
               PROVE  JournalingInv' /\ TrackingInv'
    OBVIOUS
  <2> HIDE DEF LastEvent
  <2> USE DEF following, tracker, connection, durable, ghosts
  <2>1. /\ LastEvent \in Nat /\ LastEvent' = LastEvent /\ sent \in 0..LastEvent /\ sent \in Nat
        /\ nxt \in 1..(LastEvent + 1)
        /\ (outcome = "terminal" => pc = "over") /\ (pc = "broken" => cursor = 0)
    BY LastIsNat, TurnIsFixed DEF JournalingInv, TrackingInv
  <2>2. JournalingInv'
    BY <2>1, JournalingKept
  <2>3. TrackingInv'
    BY <2>1, TrackingKept
  <2>4. QED
    BY <2>2, <2>3
<1>2. QED
  BY <1>1, HeadedFollows, NextJournaling, NextTracking

THEOREM HelperInvariant == HeadedSpec => [](JournalingInv /\ TrackingInv)
<1>1. HeadedInit => JournalingInv /\ TrackingInv
  BY InitJournaling, InitTracking DEF HeadedInit
<1>2. QED
  BY <1>1, HelperFollows, PTL DEF HeadedSpec

(* The same of the helper's follow, beside its display and `oca k`.           *)
THEOREM HelperKeepsJournal == HeadedSpec => []JournalExact
<1>1. JournalingInv => JournalExact
  BY DEF JournalingInv
<1>2. QED
  BY <1>1, HelperInvariant, PTL

(* The helper's follow tells of the turn what any follow does.               *)
LEMMA HelperKeepsTelling ==
  JournalingInv /\ TrackingInv /\ TellingInv /\ [HeadedNext]_headedVars => TellingInv'
<1>1. TellingInv /\ UNCHANGED following => TellingInv'
  <2> SUFFICES ASSUME TellingInv, UNCHANGED following PROVE TellingInv'
    OBVIOUS
  <2> USE DEF following, tracker, connection, durable, ghosts
  <2>1. Behind' = Behind /\ (Tracks' <=> Tracks)
    BY BehindKept DEF Tracks
  <2>2. QED
    BY <2>1, TellingKept DEF TellingInv
<1>2. QED
  BY <1>1, HeadedFollows, NextTelling

LEMMA HelperKeepsHistory ==
  JournalingInv /\ TrackingInv /\ HistoryInv /\ [HeadedNext]_headedVars => HistoryInv'
<1>1. HistoryInv /\ UNCHANGED following => HistoryInv'
  <2> SUFFICES ASSUME HistoryInv, UNCHANGED following PROVE HistoryInv'
    OBVIOUS
  <2> USE DEF following, tracker, connection, durable, ghosts
  <2>1. UNCHANGED <<setup, nxt, cursor, chain, joined, pc, outcome>>
    OBVIOUS
  <2>2. QED
    BY <2>1, HistoryKept
<1>2. QED
  BY <1>1, HeadedFollows, NextHistory

(* And of what it marks the display with.                                    *)
THEOREM HelperTells == HeadedSpec => []VerdictIsHistory
<1>1. HeadedInit => TellingInv /\ HistoryInv
  BY InitTelling, InitHistory DEF HeadedInit
<1>2. QED
  BY <1>1, HelperInvariant, HelperKeepsTelling, HelperKeepsHistory, TellsVerdict, PTL
     DEF HeadedSpec

(* Before the follow, the turn's chain and outcome do not change.             *)
LEMMA InitDisplay == HeadedInit => DisplayInv
  BY DEF HeadedInit, FollowInit, DisplayInv, ClosedWhenDone, NoForgottenScreen, Display

LEMMA NextDisplay == DisplayInv /\ [HeadedNext]_headedVars => DisplayInv'
<1> SUFFICES ASSUME DisplayInv, [HeadedNext]_headedVars PROVE DisplayInv'
  OBVIOUS
<1>1. UNCHANGED setup
  BY DEF HeadedNext, headedVars, followVars, following, FollowNext, Progress, Subscribe,
     ReadHistory, Deliver, AppendEvent, Persist, Reread, Resubscribe, JoinFails, RecordFails,
     StreamEnds, StreamGarbled, RereadFails, GiveUp, ResubscribeFails, Expire, KillFollow,
     Again, Emit
<1>2. Display' = Display /\ CloseOnDone' = CloseOnDone /\ Display \in {"none", "herdr", "tmux"}
  BY <1>1, DisplayAssumption DEF DisplayInv, Display, CloseOnDone
<1>3. UNCHANGED following => UNCHANGED <<outcome, pc>> /\ (ShouldClose' <=> ShouldClose)
        /\ MarkerFromChain(chain)' = MarkerFromChain(chain)
  BY <1>2 DEF following, tracker, ShouldClose, MarkerFromChain, TerminalFromChain
<1> HIDE DEF Display, CloseOnDone
<1> USE <1>1, <1>2, <1>3 DEF DisplayInv, ClosedWhenDone, NoForgottenScreen
<1>4. CASE UNCHANGED headedVars
  BY <1>4 DEF headedVars, followVars, screenVars, following
<1>5. CASE stage = "follow" /\ FollowNext /\ UNCHANGED screenVars
  BY <1>5 DEF screenVars
<1>6. CASE stage # "follow" /\ (Emit \/ KillFollow) /\ UNCHANGED screenVars
  <2>1. UNCHANGED <<outcome, chain>>
    BY <1>6 DEF Emit, KillFollow, tracker
  <2>2. (ShouldClose' <=> ShouldClose) /\ MarkerFromChain(chain)' = MarkerFromChain(chain)
    BY <2>1 DEF ShouldClose, MarkerFromChain, TerminalFromChain
  <2>3. QED
    BY <1>6, <2>1, <2>2 DEF screenVars
<1> USE DEF Stage, Answered, Unanswered
<1>7. CASE OpenScreen /\ UNCHANGED following
  BY <1>7 DEF OpenScreen
<1>8. CASE StartAgent /\ UNCHANGED following
  BY <1>8 DEF StartAgent
<1>9. CASE PatchTab /\ UNCHANGED following
  BY <1>9 DEF PatchTab
<1>10. CASE CreateJournal /\ UNCHANGED following
  BY <1>10 DEF CreateJournal
<1>11. CASE UndoScreen /\ UNCHANGED following
  BY <1>11 DEF UndoScreen, CloseScreen
<1>12. CASE FollowEnds /\ UNCHANGED following
  BY <1>12 DEF FollowEnds
<1>13. CASE MarkScreen /\ UNCHANGED following
  BY <1>13 DEF MarkScreen
<1>14. CASE CloseAtEnd /\ UNCHANGED following
  BY <1>14 DEF CloseAtEnd, CloseScreen, ShouldClose
<1>15. CASE Killer /\ UNCHANGED following
  BY <1>15 DEF Killer, AbortReads, AbortCloses, CloseScreen
<1>16. QED
  BY <1>4, <1>5, <1>6, <1>7, <1>8, <1>9, <1>10, <1>11, <1>12, <1>13, <1>14, <1>15
     DEF HeadedNext, ScreenStep

THEOREM DisplayInvariant == HeadedSpec => []DisplayInv
  BY InitDisplay, NextDisplay, PTL DEF HeadedSpec

(* The helper closes a recorded tab only after a terminal outcome with a      *)
(* `done` reply, never because following failed or the display did; and only  *)
(* when the stream has brought the turn's idle, or the idle of an earlier turn *)
(* that the history it had read made it take for this turn's.                *)
THEOREM LiveTabIsKept == HeadedSpec => []LiveTabKept
<1>1. DisplayInv /\ TrackingInv => LiveTabKept
  <2> SUFFICES ASSUME DisplayInv, TrackingInv PROVE LiveTabKept
    OBVIOUS
  <2>1. ClosedWhenDone
    BY DEF DisplayInv
  <2>2. ASSUME closer = "helper", saved
        PROVE  nxt > LastEvent \/ nxt - 1 <= joined
    <3>1. outcome = "terminal" /\ ~setup.classified
      BY <2>1, <2>2, DisplayAssumption DEF ClosedWhenDone, DisplayInv, Display
    <3>2. QED
      BY <3>1 DEF TrackingInv
  <2>3. QED
    BY <2>1, <2>2 DEF LiveTabKept
<1>2. QED
  BY <1>1, DisplayInvariant, HelperInvariant, PTL

(* A screen that is open when its helper has ended is in the record, or its   *)
(* follow lost the server, unless a call to open, mark or close it failed or  *)
(* had no answer.                                                            *)
THEOREM ScreensAreFound == HeadedSpec => []NoForgottenScreen
<1>1. DisplayInv => NoForgottenScreen
  BY DEF DisplayInv
<1>2. QED
  BY <1>1, DisplayInvariant, PTL

-----------------------------------------------------------------------------
(* The types of the helper.                                                  *)
ScreenTyped ==
  /\ stage \in {"open", "agent", "options", "patch", "journal", "undo", "follow", "mark",
                "close", "clean", "ended"}
  /\ screen \in {"none", "open", "marked", "closed"}
  /\ saved \in BOOLEAN /\ known \in BOOLEAN
  /\ killer \in {"none", "read", "done"}
  /\ closer \in {"nobody", "helper", "k"}
  /\ lost \in BOOLEAN

LEMMA NextScreen ==
  ASSUME ScreenTyped, [HeadedNext]_headedVars
  PROVE  ScreenTyped'
<1> USE DEF ScreenTyped, Stage, Answered, Unanswered, CloseScreen
<1>1. CASE UNCHANGED screenVars
  BY <1>1 DEF screenVars
<1>2. CASE OpenScreen \/ StartAgent
  BY <1>2 DEF OpenScreen, StartAgent
<1>3. CASE PatchTab \/ CreateJournal
  BY <1>3 DEF PatchTab, CreateJournal
<1>4. CASE UndoScreen \/ CloseAtEnd
  BY <1>4 DEF UndoScreen, CloseAtEnd
<1>5. CASE FollowEnds \/ MarkScreen
  BY <1>5 DEF FollowEnds, MarkScreen
<1>6. CASE AbortReads \/ AbortCloses
  BY <1>6 DEF AbortReads, AbortCloses
<1>7. QED
  BY <1>1, <1>2, <1>3, <1>4, <1>5, <1>6 DEF HeadedNext, headedVars, ScreenStep, Killer

LEMMA HelperKeepsTypes ==
  JournalingInv /\ TrackingInv /\ TypingInv /\ ScreenTyped /\ [HeadedNext]_headedVars =>
    TypingInv' /\ ScreenTyped'
<1> SUFFICES ASSUME JournalingInv, TrackingInv, TypingInv, ScreenTyped,
                    [HeadedNext]_headedVars
             PROVE  TypingInv'
  BY NextScreen
<1>1. CASE [FollowNext]_followVars
  BY <1>1, NextTyping
<1>2. CASE UNCHANGED following
  <2>1. MaxFaults \in Nat /\ faults' \in {faults, faults + 1} /\ (faults' # faults => faults < MaxFaults)
    BY <1>2, FaultAssumption DEF HeadedNext, headedVars, followVars, ScreenStep, Killer, FollowNext,
       Progress, Fault, Answered, Unanswered, CloseScreen, OpenScreen, StartAgent, PatchTab,
       CreateJournal, UndoScreen, FollowEnds, MarkScreen, CloseAtEnd, AbortReads, AbortCloses,
       KillFollow, Emit, Subscribe, ReadHistory, Deliver, AppendEvent, Persist, Reread,
       Resubscribe, JoinFails, RecordFails, StreamEnds, StreamGarbled, RereadFails, GiveUp,
       ResubscribeFails, Expire, Again
  <2> USE DEF following, tracker, connection, durable, ghosts
  <2>2. faults' \in 0..MaxFaults /\ runs \in 0..faults'
    BY <2>1 DEF TypingInv, PlacesTyped
  <2>3. PlacesTyped'
    BY <1>2, <2>2 DEF TypingInv, PlacesTyped
  <2>4. CountedOnce'
    BY <1>2, TurnIsFixed DEF TypingInv, CountedOnce, Flying
  <2>5. TrackerTyped'
    BY <1>2 DEF TypingInv, TrackerTyped, TypedChain, Attribution, Texts, States
  <2>6. QED
    BY <2>3, <2>4, <2>5 DEF TypingInv
<1>3. QED
  BY <1>1, <1>2, HeadedFollows

(* The types of the helper: its follow's, those of its display and of `oca k`. *)
THEOREM HelperTypes == HeadedSpec => []HeadedTypeOK
<1>1. HeadedInit => JournalingInv /\ TrackingInv /\ TellingInv /\ TypingInv /\ ScreenTyped
  BY InitJournaling, InitTracking, InitTelling, InitTyping DEF HeadedInit, ScreenTyped
<1>2. JournalingInv /\ TrackingInv /\ TellingInv /\ TypingInv /\ ScreenTyped => HeadedTypeOK
  BY FollowIsTyped DEF HeadedTypeOK, ScreenTyped
<1>3. QED
  BY <1>1, <1>2, HelperFollows, HelperKeepsTelling, HelperKeepsTypes, PTL DEF HeadedSpec
=============================================================================

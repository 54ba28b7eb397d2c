-------------------------------- MODULE Replies --------------------------------
(***************************************************************************)
(* What a worker's reply has to be (crates/oca-core/src/reply.rs and           *)
(* reply_decode.rs). The worker is given a JSON schema; oca judges the reply   *)
(* with a decoder written beside that schema and then with a floor that the    *)
(* schema does not state. A text is its number of characters, words and        *)
(* sentences, and whether it names or characterizes a change. The shape of     *)
(* the JSON (field names, types, no other field) is that of the sets of replies. *)
(***************************************************************************)
EXTENDS Naturals, Sequences

CONSTANTS MaxLine,      \* the largest u32
          Null          \* the JSON null of a review's note, or its absence

WorkerState == {"done", "blocked", "partial"}
Severity == {"blocker", "major", "minor", "note"}

Text == [chars : Nat, words : Nat, sentences : Nat, tells : BOOLEAN]
ReportedFile == [chars : Nat, absolute : BOOLEAN]
ImplReply == [status : WorkerState, files : Seq(ReportedFile), note : Text]
ReviewFinding == [file : Nat, line : Nat, severity : STRING, summary : Text, fix : Text]
ReviewReply == [status : WorkerState, findings : Seq(ReviewFinding), note : Text \cup {Null}]

----------------------------------------------------------------------------
(* The schemas: what the worker is told. A review's note is a text where it is *)
(* given.                                                                    *)
FileAllowed(file) == file.chars \in 1..512 /\ ~file.absolute

FindingAllowed(finding) ==
  /\ finding.file <= 512
  /\ finding.severity \in Severity
  /\ finding.summary.chars <= 200
  /\ finding.fix.chars <= 400

ImplSchema(reply) ==
  /\ Len(reply.files) <= 64
  /\ \A i \in DOMAIN reply.files : FileAllowed(reply.files[i])
  /\ reply.note.chars <= 900

ReviewSchema(reply) ==
  /\ Len(reply.findings) <= 100
  /\ \A i \in DOMAIN reply.findings : FindingAllowed(reply.findings[i])
  /\ reply.note # Null => reply.note.chars <= 900

----------------------------------------------------------------------------
(* The decoder: the first field that it refuses, or none.                     *)
FileRefused(file) == file.chars = 0 \/ file.absolute \/ file.chars > 512

ImplRefused(reply) ==
  IF Len(reply.files) > 64 THEN "files"
  ELSE IF \E i \in DOMAIN reply.files : FileRefused(reply.files[i]) THEN "file"
  ELSE IF reply.note.chars > 900 THEN "note"
  ELSE "nothing"

FindingRefused(finding) ==
  \/ finding.line > MaxLine
  \/ finding.file > 512
  \/ finding.severity \notin Severity
  \/ finding.summary.chars > 200
  \/ finding.fix.chars > 400

ReviewRefused(reply) ==
  IF Len(reply.findings) > 100 THEN "findings"
  ELSE IF \E i \in DOMAIN reply.findings : FindingRefused(reply.findings[i]) THEN "finding"
  ELSE IF reply.note # Null /\ reply.note.chars > 900 THEN "note"
  ELSE "nothing"

----------------------------------------------------------------------------
(* validate_reply_floor: what a reply has to say before anything is finalized. *)
ImplFloor(reply) ==
  /\ reply.status \in {"done", "partial"} => reply.note.words >= 25 /\ reply.note.sentences >= 2
  /\ reply.status = "blocked" => reply.note.words >= 10
  /\ reply.files # <<>> => reply.note.tells

ReviewFloor(reply) ==
  /\ \A i \in DOMAIN reply.findings :
       reply.findings[i].summary.words >= 6 /\ reply.findings[i].fix.words >= 6
  /\ reply.findings = <<>> /\ reply.status = "done" => reply.note # Null /\ reply.note.words >= 15

=============================================================================

------------------------------ MODULE Failures ------------------------------
(***************************************************************************)
(* How a failure travels: from the HTTP exchange to the error of the client *)
(* facade, from there to the error code of `oca`, and to its exit code.     *)
(***************************************************************************)
EXTENDS Naturals

(* The table of codes of oca-core.                                          *)
ErrorCode ==
  {"invalid_usage", "invalid_model", "effort_required", "effort_conflict",
   "effort_unsupported", "model_unsupported_tooled", "ref_not_found",
   "session_not_found", "worker_busy", "server_unavailable",
   "server_start_timeout", "server_unreachable", "protocol_mismatch",
   "rate_limited", "contract_invalid", "worktree_conflict", "worktree_dirty",
   "worktree_empty", "out_of_scope", "zero_byte_output", "prompt_uncertain",
   "publish_disabled", "publish_branch_forbidden", "publish_remote_missing",
   "publish_failed", "events_corrupt", "follow_timeout", "interrupted"}

UsageCodes ==
  {"invalid_usage", "invalid_model", "effort_required", "effort_conflict",
   "effort_unsupported", "model_unsupported_tooled", "publish_branch_forbidden"}
ServerCodes ==
  {"server_unavailable", "server_start_timeout", "server_unreachable"}

ExitCode(code) ==
  CASE code \in UsageCodes -> 2
    [] code \in ServerCodes -> 5
    [] code = "interrupted" -> 130
    [] OTHER -> 1

-----------------------------------------------------------------------------
(* The facade: an exchange fails before anything was sent, after, or with a *)
(* status; a success status that is not the expected one is a mismatch.     *)

Status == {200, 204, 404, 429, 500}
Success(status) == status \in 200..299

OpenCodeFailure ==
  [kind : {"transport"}, stage : {"before", "possibly"}]
    \cup [kind : {"protocol", "rate"}]
    \cup [kind : {"server"}, status : Status \ {200, 204, 429}]

(* Whether a client that could not get a response has sent something.       *)
TransportError(connecting) ==
  [kind |-> "transport", stage |-> IF connecting THEN "before" ELSE "possibly"]

ServerError(status) ==
  IF status = 429 THEN [kind |-> "rate"] ELSE [kind |-> "server", status |-> status]

StatusError(status) ==
  IF Success(status) THEN [kind |-> "protocol"] ELSE ServerError(status)

-----------------------------------------------------------------------------
(* From the facade to the codes.                                            *)

OpenCodeErrorCode(failure) ==
  CASE failure.kind = "protocol" -> "protocol_mismatch"
    [] failure.kind = "rate" -> "rate_limited"
    [] failure.kind = "server" ->
         IF failure.status \in 400..499 THEN "protocol_mismatch"
         ELSE "server_unavailable"
    [] failure.kind = "transport" -> "server_unreachable"

(* A prompt whose response was lost may have been admitted.                 *)
PromptErrorCode(failure) ==
  IF failure.kind = "transport" /\ failure.stage = "possibly"
  THEN "prompt_uncertain"
  ELSE OpenCodeErrorCode(failure)

(* Session creation may be repeated after any transport failure: a second   *)
(* empty session is harmless.                                               *)
SessionFailure(failure) ==
  IF failure.kind = "transport" THEN "connection" ELSE "application"

StartupStage == {"availability", "spawn", "readiness"}

StartupErrorCode(diagnostics) ==
  IF diagnostics \cap {"spawn", "readiness"} # {}
  THEN "server_unreachable" ELSE "server_start_timeout"
=============================================================================

--------------------------------- MODULE Turns ---------------------------------
(***************************************************************************)
(* The events of a turn: updates of a message (`step` 0 is a message that    *)
(* the turn does not have), of its text or its thoughts, the idle, and       *)
(* events of other sessions.  A message has one text part; an update brings  *)
(* the whole part.                                                           *)
(***************************************************************************)

States == {"done", "partial", "blocked"}
Texts == States \cup {"absent", "invalid"}

Message(step, done, reply, error) ==
  [kind |-> "message", step |-> step, done |-> done, text |-> reply, error |-> error]
Open(step) == Message(step, FALSE, "absent", FALSE)
Closed(step) == Message(step, TRUE, "absent", FALSE)
Part(step, text) == [kind |-> "part", step |-> step, text |-> text]
Reasoning(step) == [kind |-> "reasoning", step |-> step]
Idle == [kind |-> "idle"]
Foreign == [kind |-> "foreign"]

-----------------------------------------------------------------------------
(* Turns worth following: two steps, of which the first one only calls tools  *)
(* and the second one has a text before its message; a short one; one that    *)
(* begins with an earlier turn's idle, with two steps; a worker that fails; a *)
(* structured reply.                                                         *)

TwoSteps == <<Open(1), Part(1, "invalid"), Closed(1), Part(2, "partial"),
              Open(2), Part(2, "done"), Closed(2), Idle>>
Short == <<Open(1), Foreign, Part(1, "partial"), Closed(1), Idle>>
AfterIdle == <<Idle, Closed(1), Open(2), Part(2, "done"), Closed(2), Idle>>
Failing == <<Open(1), Message(1, TRUE, "absent", TRUE), Idle>>
Structured == <<Open(0), Open(1), Message(1, TRUE, "partial", FALSE), Reasoning(1),
                Message(2, TRUE, "invalid", FALSE), Idle>>
=============================================================================

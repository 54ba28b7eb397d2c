------------------------------ MODULE MessageIds ------------------------------
(***************************************************************************)
(* The clock and counter of a message id (crates/oca-core/src/message_id.rs). *)
(* OpenCode sorts messages by id, and what a session has seen is looked up by  *)
(* it: the ids that one process mints for a session have to ascend.           *)
(***************************************************************************)
EXTENDS Integers

(* Ids of one millisecond that fit beside the clock (0x1000), and readings of *)
(* the clock that fit into 48 bits with them: 2^36, about 2.2 years.  Unix    *)
(* time is well beyond, so that the prefix tells a reading within its window. *)
Ticks == 4096
Clocks == Ticks * Ticks * Ticks
Window(reading) == reading \div Clocks

(* MessageIdGenerator: the last reading, and how often it was used. The prefix *)
(* keeps the low 48 bits of clock and counter.                               *)
Fresh == [last |-> -1, counter |-> 0]      \* None: no reading is negative
Count(generator, now) == IF generator.last = now THEN generator.counter + 1 ELSE 1
Minted(generator, now) == [last |-> now, counter |-> Count(generator, now)]
Prefix(generator) == (generator.last * Ticks + generator.counter) % (Ticks * Clocks)

(* is_opencode_message_id refuses the zero prefix.                           *)
Valid(prefix) == prefix \in 1..(Ticks * Clocks - 1)
=============================================================================

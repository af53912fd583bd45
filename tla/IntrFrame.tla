----------------------------- MODULE IntrFrame -----------------------------
(* The way into and out of an interrupt on one core, on its own.           *)

CONSTANTS Raised, Thread    \* of IntrEntry

VARIABLES cpu, stack, step, vector, int_no, running, saved, own

Entry == INSTANCE IntrEntry

ASSUME EntryAssumption == Entry!Possible

(* Whatever interrupts a thread, with or without an error code and with    *)
(* whatever thread changes in between, the handlers are called for the     *)
(* vector that was raised, and the thread goes on with every register as   *)
(* it was, on the stack that it had.                                       *)
FrameRestored == Entry!FrameRestored

=============================================================================

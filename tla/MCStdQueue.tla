----------------------------- MODULE MCStdQueue -----------------------------
(***************************************************************************)
(* Small instances of StdQueue: the constants of its run.                  *)
(***************************************************************************)
EXTENDS StdQueue, TLC

CONSTANTS producer, consumer, v1, v2, zero

Actors == {producer, consumer}

(* The lock-free use of the queue, and one caller that uses all three      *)
(* functions in turn, as the page allocator does.                          *)
Spsc1 == producer :> {"enqueue"} @@ consumer :> {"dequeue"}
Solo  == producer :> OpName @@ consumer :> {}

SpscOrSolo == {Spsc1, Solo}

Values == {zero, v1, v2}

=============================================================================

----------------------------- MODULE Allocator -----------------------------
(***************************************************************************)
(* What the users of a heap rely on: a block that is handed out lies in    *)
(* the heap's area and overlaps no block that anybody holds.  Nothing is   *)
(* promised about when a request fails, nor about which memory is used     *)
(* again.                                                                  *)
(***************************************************************************)
EXTENDS Integers

CONSTANTS
  Caller,
  AreaSize,   \* the bytes of the area, which are numbered from 0
  Sizes       \* the sizes that are asked for

VARIABLE held   \* the blocks each caller holds: [addr, size]

Block == [addr : 0 .. AreaSize - 1, size : Sizes]

Apart(b, d) == b.addr + b.size <= d.addr \/ d.addr + d.size <= b.addr

Init == held = [c \in Caller |-> {}]

Malloc(c) ==
  \E b \in Block :
    /\ b.addr + b.size <= AreaSize
    /\ \A d \in Caller : \A e \in held[d] : Apart(b, e)
    /\ held' = [held EXCEPT ![c] = @ \cup {b}]

Free(c) == \E b \in held[c] : held' = [held EXCEPT ![c] = @ \ {b}]

Next == \E c \in Caller : Malloc(c) \/ Free(c)

Spec == Init /\ [][Next]_held

=============================================================================

------------------------------ MODULE PageSort ------------------------------
(***************************************************************************)
(* The in-place quicksort phys_mem.c runs over its ring before it merges   *)
(* neighbouring blocks.  lo and hi are positions that may lie past the end *)
(* of the ring; every access wraps them.                                   *)
(***************************************************************************)
EXTENDS PageEntry, Loops, FiniteSetsExt

CONSTANT Sz    \* the number of slots of the ring

Ring == [0 .. Sz - 1 -> Nat]

AddrAt(data, i) == GetAddr(data[i % Sz])

(* Three XORs, which exchange the words because i and j are distinct slots.*)
Swap(data, i, j) ==
  [data EXCEPT ![i % Sz] = data[j % Sz], ![j % Sz] = data[i % Sz]]

(* The two scans of partition_pgs, from j down and from i up.              *)
Down(data, pivot, lo, j) == Max({k \in lo .. j - 1 : AddrAt(data, k) <= pivot})
Up(data, pivot, hi, i)   == Min({k \in i + 1 .. hi : AddrAt(data, k) >= pivot})

(* One turn of its loop: both scans, and an exchange unless they have met. *)
PartitionTurn(s, pivot, lo, hi) ==
  LET j == Down(s.data, pivot, lo, s.j)
      i == Up(s.data, pivot, hi, s.i)
  IN  CASE s.met -> s
        [] ~s.met /\ i >= j -> [s EXCEPT !.met = TRUE, !.j = j]
        [] ~s.met /\ i < j ->
             [data |-> Swap(s.data, i, j), i |-> i, j |-> j, met |-> FALSE]

(* partition_pgs, around the middle block's address.  Each turn brings the *)
(* scans nearer, so that there are no more turns than positions.           *)
PartitionPgs(data0, lo, hi) ==
  LET pivot      == AddrAt(data0, (lo + hi) \div 2)
      Turn(s, k) == PartitionTurn(s, pivot, lo, hi)
      end        == Loop(hi - lo + 1, Turn,
                         [data |-> data0, i |-> lo - 1, j |-> hi + 1, met |-> FALSE])
  IN  [data |-> end.data, at |-> end.j]

(* Mutant of Recursed: the pivot's position is taken for sorted.           *)
Recursed_SkipsPivot(lo, hi, at) ==
  IF at - lo > hi - at THEN <<lo, at - 1>> ELSE <<at + 1, hi>>

(* The part quicksort_pgs hands to its recursive call, and the part its    *)
(* loop goes on with.                                                      *)
Recursed(lo, hi, at) == IF at - lo > hi - at THEN <<lo, at>> ELSE <<at + 1, hi>>
Kept(lo, hi, at)     == IF at - lo > hi - at THEN <<at + 1, hi>> ELSE <<lo, at>>

(* quicksort_pgs: the ring after sorting positions lo0 to hi0 by address.  *)
(* No part is longer than the whole.                                       *)
QuicksortPgs(data0, lo0, hi0) ==
  LET sort[s \in Ring \X {w \in Int \X Int : w[2] - w[1] <= hi0 - lo0}] ==
        LET lo == s[2][1]
            hi == s[2][2]
            Both(part) ==
              sort[<<sort[<<part.data, Recursed(lo, hi, part.at)>>],
                     Kept(lo, hi, part.at)>>]
        IN  IF hi <= lo THEN s[1] ELSE Both(PartitionPgs(s[1], lo, hi))
  IN  sort[<<data0, <<lo0, hi0>>>>]

=============================================================================

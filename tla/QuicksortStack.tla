--------------------------- MODULE QuicksortStack ---------------------------
(***************************************************************************)
(* quicksort_pgs as it runs: a stack of calls, each looping over the part  *)
(* of the ring it still has to sort.                                       *)
(***************************************************************************)
EXTENDS PageSort, Sequences

CONSTANTS
  Words,    \* the words a slot may hold
  First,    \* the positions the sorted window may start at
  Length    \* the number of blocks in the window, at most Sz

VARIABLES
  data,    \* the ring
  calls,   \* the stack of calls, the running one last: <<lo, hi>> each
  input,   \* the ring as it was handed in, never changed
  window   \* the call compact_queue makes: <<lo, hi>>

vars == <<data, calls, input, window>>

(* compact_queue hands in a window of one slot or more that fits the ring. *)
WindowFits == Words \subseteq Nat /\ First \subseteq Nat /\ Length \in 1 .. Sz

Init ==
  /\ input \in [0 .. Sz - 1 -> Words]
  /\ window \in {<<lo, lo + Length - 1>> : lo \in First}
  /\ data = input
  /\ calls = <<window>>

lo == calls[Len(calls)][1]
hi == calls[Len(calls)][2]

(* Mutant of Turn: the loop runs while lo <= hi.                           *)
Turn_Inclusive ==
  /\ calls # << >> /\ hi >= lo
  /\ LET part == PartitionPgs(data, lo, hi)
     IN  /\ data' = part.data
         /\ calls' = Append([calls EXCEPT ![Len(calls)] = Kept(lo, hi, part.at)],
                            Recursed(lo, hi, part.at))
  /\ UNCHANGED <<input, window>>

(* One turn of the loop: partition, keep one part, call for the other.     *)
Turn ==
  /\ calls # << >> /\ hi > lo
  /\ LET part == PartitionPgs(data, lo, hi)
     IN  /\ data' = part.data
         /\ calls' = Append([calls EXCEPT ![Len(calls)] = Kept(lo, hi, part.at)],
                            Recursed(lo, hi, part.at))
  /\ UNCHANGED <<input, window>>

Return ==
  /\ calls # << >> /\ hi <= lo
  /\ calls' = SubSeq(calls, 1, Len(calls) - 1)
  /\ UNCHANGED <<data, input, window>>

Next == Turn \/ Return

Spec == Init /\ [][Next]_vars /\ WF_vars(Next)

-----------------------------------------------------------------------------
Span(w) == w[1] .. w[2]

(* No turn loses, duplicates or invents a block, and none touches a slot   *)
(* outside the window compact_queue asked for (partition_pgs' XOR swaps    *)
(* through % sz): each word occurs as often in the window as it did.       *)
Permuted ==
  LET inWindow == {i % Sz : i \in Span(window)}
  IN  /\ \A s \in (0 .. Sz - 1) \ inWindow : data[s] = input[s]
      /\ \A w \in Words : Cardinality({s \in inWindow : data[s] = w})
                        = Cardinality({s \in inWindow : input[s] = w})

(* When the last call has returned the window is in address order, and the *)
(* ring is what the function QuicksortPgs computes.                        *)
Sorted ==
  calls = << >> =>
    /\ \A i, j \in Span(window) : i < j => AddrAt(data, i) <= AddrAt(data, j)
    /\ data = QuicksortPgs(input, window[1], window[2])

(* quicksort_pgs sorts the window of blocks compact_queue hands it, in     *)
(* place, whatever the order of its turns: both of the above.              *)
SortsInPlace == Permuted /\ Sorted

(* The sort ends: no partition returns the whole part it was given.        *)
Terminates == <>(calls = << >>)

=============================================================================

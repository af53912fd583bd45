------------------------------ MODULE RingSort ------------------------------
(* The sort of the page stack on its own, for any window of any ring.      *)
EXTENDS PageSort

CONSTANTS Words, First, Length    \* of QuicksortStack

VARIABLES data, calls, input, window

Sort == INSTANCE QuicksortStack

ASSUME SortAssumption == Sort!WindowFits

(* quicksort_pgs sorts any window of blocks in place, whatever the order   *)
(* of its turns: no word is lost, duplicated or invented, no slot outside  *)
(* the window is touched, and in the end the window is in address order.   *)
SortsInPlace == Sort!SortsInPlace

=============================================================================

------------------------------- MODULE Loops -------------------------------
(***************************************************************************)
(* C loops whose number of turns is known before they start.               *)
(***************************************************************************)
EXTENDS Integers

(* What for (k = 1; k <= n; k++) makes of s0, a turn making Body(s, k) of  *)
(* s: after[k] is the set of the one state behind turn k.                  *)
Loop(n, Body(_, _), s0) ==
  LET after[k \in 0 .. n] == IF k = 0 THEN {s0} ELSE {Body(s, k) : s \in after[k - 1]}
  IN  IF n > 0 THEN CHOOSE s \in after[n] : TRUE ELSE s0

=============================================================================

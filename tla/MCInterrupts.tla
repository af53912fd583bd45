---------------------------- MODULE MCInterrupts ----------------------------
(***************************************************************************)
(* Two cores and six vectors, of which 0 and 1 are exceptions (1 stands    *)
(* for the page fault) and 2 to 5 can be searched.                         *)
(***************************************************************************)
EXTENDS Interrupts

CONSTANTS bsp, ap, h1, h2

Handlers == {h1, h2}

Reg(v, h)            == [op |-> "register", v |-> v, h |-> h]
Unreg(v, h)          == [op |-> "unregister", v |-> v, h |-> h]
Alloc(base, cnt, fl) == [op |-> "allocate", base |-> base, cnt |-> cnt, flags |-> fl]

(* A handler comes and goes while its vector fires, and exclusive          *)
(* reservations overlap: one wished for and then searched for, and a fixed *)
(* block that reaches into it.                                             *)
SomeRequests ==
  {Reg(2, h1), Unreg(2, h1), Reg(1, h2),
   Alloc(4, 1, {"exclusive"}), Alloc(3, 2, {"exclusive", "fixed"})}

(* The bootstrap processor is interrupted; the other core, which has       *)
(* interrupts off, runs into the page fault, whose handler halts.          *)
BspSources == {<<bsp, 2>>}
PageFaults == {<<ap, 1>>}

=============================================================================

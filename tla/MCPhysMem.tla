----------------------------- MODULE MCPhysMem -----------------------------
(***************************************************************************)
(* Small memories for PhysMem.  A page is two bytes, so a DMA size of 3 is *)
(* a page and a half.  Pages 0 and 1 stand for the first 2 MiB, which the  *)
(* memory map never offers.                                                *)
(***************************************************************************)
EXTENDS PhysMem

(* Five pages, more than one word of the queue can hold, and after a hole  *)
(* one more.  Memory below 2 MiB counts in MemorySize although no region   *)
(* offers it, so the ring has room for four blocks, the least with which a *)
(* compaction reaches a pair of blocks behind the first.                   *)
TwoRegions == <<[addr |-> 4, len |-> 10], [addr |-> 16, len |-> 2]>>

(* Eight pages in a row, with room for four blocks.                        *)
EightPages == <<[addr |-> 4, len |-> 16]>>

=============================================================================

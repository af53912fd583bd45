----------------------------- MODULE MCVirtMem -----------------------------
(* Three levels of four entries; pages of 1 and of 4 at the two lower      *)
(* ones; the kernel has pages 32 to 63, spaces have 0 to 31.               *)
EXTENDS VirtMem, TLC

CONSTANTS c1, c2, v1, v2, none

ThreeLevels == <<16, 4, 1>>

Map(virt, phys, size) == [virt |-> virt, phys |-> phys, size |-> size]

(* Physical memory from 0, in one large page.                              *)
PhysMap == Map(32, 0, 4)

(* A large page behind the physical map.                                   *)
AllKernelMaps == {Map(48, 4, 4)}

(* Large pages over two top-level entries, the first at physical address   *)
(* 0; a page in their midst; and pages over two top-level entries, of      *)
(* which vmem_map_st leaves one out.                                       *)
AllUserMaps == {Map(12, 0, 8), Map(14, 9, 1), Map(13, 9, 5)}

Symmetry == Permutations(Vms)

=============================================================================

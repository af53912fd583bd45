------------------------------ MODULE BootInfo ------------------------------
(***************************************************************************)
(* The memory map: set_bootinfo (kernel/src/boot_info.c) copies what the   *)
(* boot loader reports, entry by entry, cutting off what the kernel needs, *)
(* and pmem_init (kernel/src/memory/phys_mem.c) frees every region of the  *)
(* copy to the page allocator.  Addresses are in bytes, BtmLevel of them   *)
(* to a page.  The copy is allocated in zeroed memory, which is what       *)
(* regions that were counted but never written are read as.                *)
(***************************************************************************)
EXTENDS Integers, Sequences

CONSTANTS
  MemoryMaps,   \* the maps that may be found: sequences of [addr, len, type]
  Available,    \* MULTIBOOT_MEMORY_AVAILABLE, MemoryRegionType_Free
  LowEnd,       \* the 2 MiB that are reserved
  KernelStart, KernelEnd,
  BtmLevel      \* the bytes of a page

VARIABLES
  mmap,         \* the memory map tag
  entry,        \* the entry that the loop is at
  MemoryMap, MemoryMapCount, MemorySize,  \* bootInfo
  freed         \* the pages pmem_init frees, in its order

vars == <<mmap, entry, MemoryMap, MemoryMapCount, MemorySize, freed>>

Init ==
  /\ mmap \in MemoryMaps
  /\ entry = 1
  /\ MemoryMap = <<>> /\ MemoryMapCount = 0 /\ MemorySize = 0
  /\ freed = <<>>

(* What lies in front of from is cut off.                                  *)
From(e, from) == [e EXCEPT !.addr = from, !.len = @ - (from - e.addr)]

(* Nothing below 2 MiB is used: <<>> skips the entry.                      *)
AboveLow(e) ==
  IF e.addr >= LowEnd THEN <<e>>
  ELSE IF LowEnd - e.addr >= e.len THEN <<>> ELSE <<From(e, LowEnd)>>

(* Mutant of AboveKernel: a region that the kernel starts in is kept.      *)
AboveKernel_Keeps(e) ==
  IF e.addr < KernelStart \/ e.addr >= KernelEnd THEN <<e>>
  ELSE IF e.addr + e.len < KernelEnd THEN <<>> ELSE <<e>>

(* Nor is the kernel itself, provided that no region begins below it.      *)
AboveKernel(e) ==
  IF e.addr < KernelStart THEN <<e>>
  ELSE IF e.addr + e.len < KernelEnd THEN <<>>
  ELSE IF e.addr < KernelEnd THEN <<From(e, KernelEnd)>> ELSE <<e>>

Kept(e) == LET a == AboveLow(e) IN IF a = <<>> THEN <<>> ELSE AboveKernel(a[1])

CopyEntry ==
  /\ entry <= Len(mmap)
  /\ MemorySize' = MemorySize +
       (IF mmap[entry].type = Available THEN mmap[entry].len ELSE 0)
  /\ MemoryMap' = MemoryMap \o Kept(mmap[entry])
  /\ entry' = entry + 1
  /\ UNCHANGED <<mmap, MemoryMapCount, freed>>

(* The entries that were skipped are counted as well.                      *)
CopyDone ==
  /\ entry = Len(mmap) + 1 /\ MemoryMapCount = 0
  /\ MemoryMapCount' = Len(mmap)
  /\ UNCHANGED <<mmap, entry, MemoryMap, MemorySize, freed>>

Copied == MemoryMapCount = Len(mmap)

Region(i) == IF i <= Len(MemoryMap) THEN MemoryMap[i]
             ELSE [addr |-> 0, len |-> 0, type |-> 0]

(* The start is rounded up and the length down, each for itself.           *)
PagesOf(r) ==
  LET first == (r.addr + BtmLevel - 1) \div BtmLevel
  IN  first .. first + (r.len \div BtmLevel) - 1

(* pmem_init, of every region whatever its type.                           *)
FreeRegions ==
  /\ Copied /\ freed = <<>>
  /\ freed' = [i \in 1 .. MemoryMapCount |-> PagesOf(Region(i))]
  /\ UNCHANGED <<mmap, entry, MemoryMap, MemoryMapCount, MemorySize>>

Next == CopyEntry \/ CopyDone \/ FreeRegions

-----------------------------------------------------------------------------
Page(p) == p * BtmLevel .. (p + 1) * BtmLevel - 1

Within(p, e) == Page(p) \subseteq e.addr .. e.addr + e.len - 1

(* The pages handed to the allocator are, once each, those of the regions  *)
(* of the boot loader's map that lie behind the first 2 MiB and behind the *)
(* kernel, for a map of page-aligned regions that do not overlap.          *)
RegionsFreedOnce ==
  freed # <<>> =>
    /\ \A i, j \in DOMAIN freed : i # j => freed[i] \cap freed[j] = {}
    /\ \A p \in (UNION {PagesOf(mmap[i]) : i \in DOMAIN mmap})
               \cup (UNION {freed[i] : i \in DOMAIN freed}) :
         (\E i \in DOMAIN freed : p \in freed[i]) <=>
           /\ p * BtmLevel >= LowEnd /\ p * BtmLevel >= KernelEnd
           /\ \E i \in DOMAIN mmap : Within(p, mmap[i])

(* Only memory that the boot loader reports as available is handed out:    *)
(* boot_info.h calls a region of type MemoryRegionType_Free free, and no   *)
(* other.                                                                  *)
OnlyFreeRegions ==
  \A i \in DOMAIN freed : \A p \in freed[i] :
    \E j \in DOMAIN mmap : mmap[j].type = Available /\ Within(p, mmap[j])

-----------------------------------------------------------------------------
(* What RegionsFreedOnce rests on: each region of the copy is what is kept *)
(* of an entry of its own, and nothing that is kept of an entry is lost.   *)
Origin(k, j) == Kept(mmap[j]) = <<MemoryMap[k]>>

CopyInv ==
  /\ mmap \in MemoryMaps /\ entry \in Nat /\ 1 <= entry /\ entry <= Len(mmap) + 1
  /\ Len(MemoryMap) < entry
  /\ MemoryMapCount = 0 \/ (MemoryMapCount = Len(mmap) /\ entry = Len(mmap) + 1)
  /\ \A k \in DOMAIN MemoryMap : \E j \in 1 .. entry - 1 : Origin(k, j)
  /\ \A j \in 1 .. entry - 1 : Kept(mmap[j]) # <<>> =>
       \E k \in DOMAIN MemoryMap : Origin(k, j)
  /\ \A k, l \in DOMAIN MemoryMap : k # l =>
       \E i, j \in 1 .. entry - 1 : i # j /\ Origin(k, i) /\ Origin(l, j)
  /\ freed # <<>> =>
       /\ Copied /\ entry = Len(mmap) + 1
       /\ freed = [i \in 1 .. MemoryMapCount |-> PagesOf(Region(i))]

=============================================================================

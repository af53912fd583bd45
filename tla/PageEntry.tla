----------------------------- MODULE PageEntry -----------------------------
(***************************************************************************)
(* The words the physical page allocator keeps in its queue                *)
(* (kernel/src/memory/phys_mem.c): a block of pages packed into a uint64,  *)
(* its first page above its length minus one.  Addresses are counted in    *)
(* pages of BTM_LEVEL bytes, and MaxEntries is the C MAX_ENTRIES, 2^20.    *)
(***************************************************************************)
EXTENDS Integers

CONSTANT MaxEntries

ASSUME MaxEntriesAssumption == MaxEntries \in Nat \ {0}

BuildEntry(page, pages) == (page * MaxEntries) + ((pages - 1) % MaxEntries)

GetAddr(e)  == e \div MaxEntries
GetPgCnt(e) == (e % MaxEntries) + 1

(* The pages of the block a word stands for.                               *)
PagesOf(e) == GetAddr(e) .. GetAddr(e) + GetPgCnt(e) - 1

=============================================================================

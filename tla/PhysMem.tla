------------------------------ MODULE PhysMem ------------------------------
(***************************************************************************)
(* The physical page allocator, kernel/src/memory/phys_mem.c: a ring queue *)
(* of free blocks that allocations rotate through, splitting the first     *)
(* block that is large enough, and that is sorted and merged in place when *)
(* it is full or nothing fits.                                             *)
(*                                                                         *)
(* The allocator takes no lock and its callers run one at a time, so each  *)
(* call is one step here.  Addresses and lengths of the memory map are in  *)
(* bytes, BtmLevel to a page; inside the queue everything is in pages.     *)
(*                                                                         *)
(* PANIC prints and executes hlt once: before interrupts are enabled that  *)
(* is the end, afterwards the next interrupt resumes the code behind it.   *)
(***************************************************************************)
EXTENDS PageSort, Sequences, Bags

CONSTANTS
  MemoryMap,    \* bootInfo.MemoryMap: a sequence of [addr, len]
  MemorySize,   \* bootInfo.MemorySize: the bytes of available memory
  BtmLevel,     \* BTM_LEVEL: the bytes of a page
  DmaSizes      \* the sizes in bytes callers ask pmem_allocdma for

AlignUp(n)   == ((n + BtmLevel - 1) \div BtmLevel) * BtmLevel
PagesIn(len) == len \div BtmLevel

(* The pages that pmem_init puts into the queue for a region.              *)
RegionPages(r) ==
  LET first == PagesIn(AlignUp(MemoryMap[r].addr))
  IN  first .. first + PagesIn(MemoryMap[r].len) - 1

(* pmem_init sizes the ring from the memory size.                          *)
ASSUME RingSizeAssumption ==
  /\ BtmLevel \in Nat \ {0} /\ MemorySize \in Nat
  /\ Sz = PagesIn(AlignUp(MemorySize)) \div 2 + 1

(* boot_info.c offers no region twice, and none below 2 MiB.               *)
ASSUME MemoryMapAssumption ==
  /\ MemoryMap \in Seq([addr : Nat, len : Nat])
  /\ \A r \in DOMAIN MemoryMap : 0 \notin RegionPages(r)
  /\ \A r, s \in DOMAIN MemoryMap : r # s => RegionPages(r) \cap RegionPages(s) = {}

ASSUME DmaSizesAssumption == DmaSizes \subseteq Nat \ {0}

VARIABLES
  btm_level,   \* the queue: [slot, head, tail, ent_cnt], and whether the
               \* operation in progress has reached a PANIC
  free_mem,    \* bytes free, as the allocator counts them
  region,      \* the next entry of the memory map pmem_init frees
  phase,       \* "init", "running" or, after a PANIC nothing resumes, "halted"
  held,        \* a bag of [page, size]: what callers were given and still have
  lossy,       \* a merge has dropped a block other than the one at head
  paniced      \* a PANIC has been executed

vars == <<btm_level, free_mem, region, phase, held, lossy, paniced>>

Next1(i) == (i + 1) % Sz

-----------------------------------------------------------------------------
(* The ring, as stdqueue.c leaves it when each call runs alone.            *)

Full(q)  == q.head = Next1(q.tail)
Empty(q) == q.head = q.tail

Put(q, e) ==
  [q EXCEPT !.slot[q.tail] = e, !.tail = Next1(q.tail), !.ent_cnt = @ + 1]

PutFront(q, e) ==
  LET h == IF q.head > 0 THEN (q.head - 1) % Sz ELSE Sz - 1
  IN  [q EXCEPT !.slot[h] = e, !.head = h, !.ent_cnt = @ + 1]

Take(q) ==
  [q EXCEPT !.slot[q.head] = 0, !.head = Next1(q.head), !.ent_cnt = @ - 1]

Panic(q) == [q EXCEPT !.panic = TRUE]

-----------------------------------------------------------------------------
(* compact_queue                                                           *)

(* Mutant of MergeAt: the merged block is left in the ring.                *)
MergeAt_KeepsFirst(q, at) ==
  LET e     == q.slot[at % Sz]
      n     == q.slot[Next1(at)]
      pages == GetPgCnt(e) + GetPgCnt(n)
  IN  IF GetAddr(e) + GetPgCnt(e) = GetAddr(n) /\ pages < MaxEntries
        THEN [q EXCEPT !.slot[Next1(at)] = BuildEntry(GetAddr(e), pages),
                       !.lossy = @ \/ at % Sz # q.head]
        ELSE q

(* Merge position at into the one after it if they are neighbours.  The    *)
(* first of the two is cleared and head moves on by one, whichever slot    *)
(* head is at.                                                             *)
MergeAt(q, at) ==
  LET e     == q.slot[at % Sz]
      n     == q.slot[Next1(at)]
      pages == GetPgCnt(e) + GetPgCnt(n)
  IN  IF GetAddr(e) + GetPgCnt(e) = GetAddr(n) /\ pages < MaxEntries
        THEN [q EXCEPT !.slot[Next1(at)] = BuildEntry(GetAddr(e), pages),
                       !.slot[at % Sz] = 0,
                       !.head = Next1(q.head),
                       !.ent_cnt = @ - 1,
                       !.lossy = @ \/ at % Sz # q.head]
        ELSE q

(* Sort the ring, then merge each pair in turn but the last one.  An empty *)
(* queue has hi behind lo and is taken for a ring with every slot in use.  *)
Compact(q) ==
  LET lo == q.head
      hi == IF q.tail - 1 < lo THEN q.tail - 1 + Sz ELSE q.tail - 1
      sorted == [q EXCEPT !.slot = QuicksortPgs(q.slot, lo, hi)]
      Merge(r, k) == MergeAt(r, lo + k - 1)
  IN  Loop(hi - 1 - lo, Merge, sorted)

(* insert_queue and insert_queue_front: a full ring is compacted once.     *)
InsertWith(q, e, Store(_, _)) ==
  LET Retry(c) == IF Full(c) THEN Panic(c) ELSE Store(c, e)
  IN  IF Full(q) THEN Retry(Compact(q)) ELSE Store(q, e)

Insert(q, e)      == InsertWith(q, e, Put)
InsertFront(q, e) == InsertWith(q, e, PutFront)

-----------------------------------------------------------------------------
(* One turn of pagealloc_free: at most MaxEntries pages become a block.    *)
InsertChunk(q, page, pages, k) ==
  LET done == (k - 1) * MaxEntries
  IN  Insert(q, BuildEntry(page + done, Min({MaxEntries, pages - done})))

(* Mutant of FreePages: the last, shorter chunk is left out.               *)
FreePages_Truncated(q, page, pages) ==
  LET Turn(r, k) == InsertChunk(r, page, pages, k)
  IN  Loop(pages \div MaxEntries, Turn, q)

(* pagealloc_free, a long run of pages in several chunks.                  *)
FreePages(q, page, pages) ==
  LET Turn(r, k) == InsertChunk(r, page, pages, k)
  IN  Loop((pages + MaxEntries - 1) \div MaxEntries, Turn, q)

FreeBytes(q, addr, size) ==
  LET misaligned == addr % BtmLevel # 0 \/ size % BtmLevel # 0
  IN  FreePages(IF misaligned THEN Panic(q) ELSE q, addr \div BtmLevel, PagesIn(size))

(* Mutant of Visit: a block that fits exactly is passed over.              *)
Visit_Strict(s, pages) ==
  LET e    == IF Empty(s.q) THEN 0 ELSE s.q.slot[s.q.head]
      rest == IF Empty(s.q) THEN Panic(s.q) ELSE Take(s.q)
      left == GetPgCnt(e) - pages
  IN  CASE s.found -> s
        [] ~s.found /\ left <= 0 -> [s EXCEPT !.q = Insert(rest, e)]
        [] ~s.found /\ left > 0 ->
             [found |-> TRUE, page |-> GetAddr(e),
              q |-> InsertFront(rest, BuildEntry(GetAddr(e) + pages, left))]

(* One turn of pagealloc_alloc's inner loop, unless it has returned.  A    *)
(* dequeue that fails PANICs and leaves deq at 0.                          *)
Visit(s, pages) ==
  LET e    == IF Empty(s.q) THEN 0 ELSE s.q.slot[s.q.head]
      rest == IF Empty(s.q) THEN Panic(s.q) ELSE Take(s.q)
      left == GetPgCnt(e) - pages
  IN  CASE s.found -> s
        [] ~s.found /\ left < 0 -> [s EXCEPT !.q = Insert(rest, e)]
        [] ~s.found /\ left >= 0 ->
             [found |-> TRUE, page |-> GetAddr(e),
              q |-> IF left = 0 THEN rest
                    ELSE InsertFront(rest, BuildEntry(GetAddr(e) + pages, left))]

(* The inner loop, over as many blocks as the queue counts before it.      *)
ScanPass(q, pages) ==
  LET Turn(s, k) == Visit(s, pages)
  IN  Loop(q.ent_cnt, Turn, [found |-> FALSE, page |-> 0, q |-> q])

(* pagealloc_alloc: two passes, each followed by a compaction if it fails. *)
(* The flags parameter is overwritten with 0, so the 32-bit test is never  *)
(* made.                                                                   *)
Alloc(q, pages) ==
  LET Retry(s) == IF s.found THEN s ELSE ScanPass(Compact(s.q), pages)
      Tidy(s)  == IF s.found THEN s ELSE [s EXCEPT !.q = Compact(@)]
  IN  Tidy(Retry(ScanPass(q, pages)))

-----------------------------------------------------------------------------
(* What an operation leaves behind: the queue with its own flags cleared,  *)
(* and a kernel that stops, or goes on, after a PANIC.                     *)
Settle(q, resumes) ==
  /\ btm_level' = [q EXCEPT !.panic = FALSE, !.lossy = FALSE]
  /\ lossy'   = (lossy \/ q.lossy)
  /\ paniced' = (paniced \/ q.panic)
  /\ IF q.panic /\ ~resumes THEN phase' = "halted"
     ELSE \/ phase' = phase
          \/ q.panic /\ phase' = "halted"

Init ==
  /\ btm_level = [slot |-> [i \in 0 .. Sz - 1 |-> 0], head |-> 0, tail |-> 0,
                  ent_cnt |-> 0, panic |-> FALSE, lossy |-> FALSE]
  /\ free_mem = 0
  /\ region = 1
  /\ phase = "init"
  /\ held = EmptyBag
  /\ lossy = FALSE
  /\ paniced = FALSE

(* One turn of pmem_init's loop: the start is rounded up, the length down, *)
(* each on its own.  Interrupts are off: a PANIC here is final.            *)
PmemInitRegion ==
  /\ phase = "init" /\ region <= Len(MemoryMap)
  /\ LET addr == AlignUp(MemoryMap[region].addr)
         len  == PagesIn(MemoryMap[region].len) * BtmLevel
     IN  /\ Settle(FreeBytes(btm_level, addr, len), FALSE)
         /\ free_mem' = free_mem + len
  /\ region' = region + 1
  /\ UNCHANGED held

PmemInitDone ==
  /\ phase = "init" /\ region > Len(MemoryMap)
  /\ phase' = "running"
  /\ UNCHANGED <<btm_level, free_mem, region, held, lossy, paniced>>

(* Mutant of Grant: free_mem goes down by the size that was asked for.     *)
Grant_Unrounded(size, result) ==
  /\ Settle(result.q, TRUE)
  /\ IF result.found
       THEN /\ free_mem' = free_mem - size
            /\ held' = held (+) SetToBag({[page |-> result.page, size |-> size]})
       ELSE UNCHANGED <<free_mem, held>>

(* What the caller of an allocation of size bytes gets.                    *)
Grant(size, result) ==
  /\ Settle(result.q, TRUE)
  /\ IF result.found
       THEN /\ free_mem' = free_mem - AlignUp(size)
            /\ held' = held (+) SetToBag({[page |-> result.page, size |-> size]})
       ELSE UNCHANGED <<free_mem, held>>

Allocate(size) ==
  /\ phase = "running"
  /\ Grant(size, Alloc(btm_level, PagesIn(AlignUp(size))))
  /\ UNCHANGED region

PmemAllocPage == Allocate(BtmLevel)
PmemAllocDma  == \E size \in DmaSizes : Allocate(size)

(* Callers free what they were given, with the size they asked for.        *)
Release(b) ==
  /\ phase = "running"
  /\ Settle(FreeBytes(btm_level, b.page * BtmLevel, b.size), TRUE)
  /\ free_mem' = free_mem + b.size
  /\ held' = held (-) SetToBag({b})
  /\ UNCHANGED region

PmemFree    == \E b \in BagToSet(held) : b.size = BtmLevel /\ Release(b)
PmemFreeDma == \E b \in BagToSet(held) : b.size \in DmaSizes /\ Release(b)

Next == \/ PmemInitRegion \/ PmemInitDone
        \/ PmemAllocPage \/ PmemAllocDma \/ PmemFree \/ PmemFreeDma

Spec == Init /\ [][Next]_vars

-----------------------------------------------------------------------------
(* The positions in use, the pages they stand for, and who has a page.     *)

InUse == {(btm_level.head + k) % Sz : k \in 0 .. ((btm_level.tail - btm_level.head) % Sz) - 1}

HeldPages(b) == b.page .. b.page + PagesIn(AlignUp(b.size)) - 1

(* The pages pmem_init has put into the queue so far.                      *)
Managed == UNION {RegionPages(r) : r \in 1 .. region - 1}

(* Who has page p: the positions whose blocks contain it, and the callers  *)
(* whose grants do, each copy of a grant for itself.                       *)
Owners(p) ==
  {<<i>> : i \in {j \in InUse : p \in PagesOf(btm_level.slot[j])}}
  \cup UNION {{<<b, n>> : n \in 1 .. held[b]} :
              b \in {c \in BagToSet(held) : p \in HeldPages(c)}}

(* ent_cnt is the number of blocks in the ring, which the passes of        *)
(* pagealloc_alloc count on.                                               *)
CountExact == btm_level.ent_cnt = (btm_level.tail - btm_level.head) % Sz

(* Until a merge elsewhere than at the head, the count is right after      *)
(* every call, whatever compact_queue did to head behind the queue         *)
(* functions' back: each pass of pagealloc_alloc visits each block once    *)
(* and never reaches its "Out of Memory!" PANIC.  And unless an insertion  *)
(* is given up, free_mem is exactly what the blocks of the ring add up to. *)
(*                                                                         *)
(* Such a merge leaves the block that it drops in its slot, behind the     *)
(* window.  Three of them, two being neighbours, are enough for the        *)
(* compaction of an empty queue to merge two and to count down to -1.      *)
CountsExact ==
  ~lossy =>
    /\ CountExact
    /\ ~paniced =>
         free_mem = BtmLevel * Cardinality(UNION {PagesOf(btm_level.slot[i]) : i \in InUse})

(* No page that pmem_init was given is ever in two free blocks, held by    *)
(* two callers, or free while a caller holds it, through any history of    *)
(* splits, rotations, sorts, merges and PANICs that resume.                *)
NoSharedPage ==
  phase # "halted" => \A p \in Managed : \A x, y \in Owners(p) : x = y

(* As long as compact_queue has merged only at the head of the ring and no *)
(* insertion has been given up, no page is lost either: every page is in a *)
(* free block or with a caller, also after allocations that fail.          *)
NoLostPage ==
  ~lossy /\ ~paniced => \A p \in Managed : \E x \in Owners(p) : Owners(p) = {x}

(* pmem_allocpage and pmem_allocdma return -1 only when no block in the    *)
(* queue was large enough when they were called, provided that ent_cnt     *)
(* counts the blocks: rotating the queue, twice and with compactions       *)
(* between, never steps over one that fits.                                *)
AllocFindsFit ==
  [][\A size \in DmaSizes \cup {BtmLevel} :
       CountExact /\ Allocate(size) /\ held' = held =>
         \A i \in InUse : GetPgCnt(btm_level.slot[i]) < PagesIn(AlignUp(size))]_vars

-----------------------------------------------------------------------------
(* The inductive invariant behind NoSharedPage.  It is about every slot of *)
(* the ring: what a merge drops stays in its slot, behind the window, and  *)
(* comes back when an empty queue is sorted.  Page 0 is left out, which a  *)
(* cleared word reads as.                                                  *)

Span(first, n) == (first .. first + n - 1) \ {0}

WordPages(e)  == Span(GetAddr(e), GetPgCnt(e))
GrantPages(b) == Span(b.page, PagesIn(AlignUp(b.size)))
Granted       == UNION {GrantPages(b) : b \in BagToSet(held)}

(* The rings, and the queues, whose words stand for pages of A, each word  *)
(* for pages of its own.                                                   *)
Rings(A) ==
  {d \in Ring : /\ \A i \in 0 .. Sz - 1 : WordPages(d[i]) \subseteq A
                /\ \A i, j \in 0 .. Sz - 1 :
                     i # j => WordPages(d[i]) \cap WordPages(d[j]) = {}}

Queues(A) ==
  [slot : Rings(A), head : 0 .. Sz - 1, tail : 0 .. Sz - 1, ent_cnt : Int,
   panic : BOOLEAN, lossy : BOOLEAN]

(* Callers hold pages of the memory map, each for itself, and the words of *)
(* the ring stand for others.                                              *)
OwnersInv ==
  /\ region \in 1 .. Len(MemoryMap) + 1
  /\ phase = "init" => held = EmptyBag
  /\ BagToSet(held) \subseteq [page : Nat, size : DmaSizes \cup {BtmLevel}]
  /\ \A b \in BagToSet(held) : /\ held[b] \in Nat \ {0}
                               /\ GrantPages(b) \subseteq Managed
                               /\ GrantPages(b) # {} => held[b] = 1
  /\ \A b, c \in BagToSet(held) : b # c => GrantPages(b) \cap GrantPages(c) = {}
  /\ btm_level \in Queues(Managed \ Granted)

(* And the one behind NoLostPage and CountsExact, for as long as no merge  *)
(* has dropped a block: nothing lies behind the window, ent_cnt counts it, *)
(* and, until an insertion is given up, every page that is not with a      *)
(* caller is in it.                                                        *)

Apart(i, j) == IF i <= j THEN j - i ELSE j - i + Sz

TightAt(d, h, t, n) ==
  /\ n = Apart(h, t)
  /\ \A i \in 0 .. Sz - 1 :
       IF Apart(h, i) < Apart(h, t) THEN GetAddr(d[i]) # 0 ELSE d[i] = 0

CoversAt(A, d) == \A p \in A : \E i \in 0 .. Sz - 1 : p \in WordPages(d[i])

TallyInv ==
  ~lossy =>
    /\ TightAt(btm_level.slot, btm_level.head, btm_level.tail, btm_level.ent_cnt)
    /\ \A b \in BagToSet(held) : b.page # 0
    /\ ~paniced => /\ CoversAt(Managed \ Granted, btm_level.slot)
                   /\ IsFiniteSet(Managed \ Granted)
                   /\ free_mem = BtmLevel * Cardinality(Managed \ Granted)

-----------------------------------------------------------------------------
(* boot_info.c:80: "Reserve everything below 2M": what the memory map does *)
(* not offer is never handed out.                                          *)
OnlyManagedPages == \A b \in BagToSet(held) : HeldPages(b) \subseteq Managed

=============================================================================

---------------------------- MODULE Boot_proofs ----------------------------
(***************************************************************************)
(* What the bootstrap processor makes of the memory map and of the PCI     *)
(* buses, for any map of page-aligned regions that do not overlap and any  *)
(* buses and tables.  Either argument follows a copying loop: each entry   *)
(* of the copy has an origin of its own, and nothing before the cursor is  *)
(* lost.                                                                   *)
(***************************************************************************)
EXTENDS Boot, SequenceTheorems, FiniteSetTheorems, WellFoundedInduction, TLAPS

(* Multiples and quotients of a number that is not 0.                      *)
LEMMA Multiples ==
  ASSUME NEW n \in Nat \ {0}, NEW a \in Int, NEW b \in Int
  PROVE  a * n < b * n <=> a < b
<1>1. ASSUME NEW c \in Int, NEW d \in Int, c < d PROVE c * n < d * n
  <2>1. PICK k \in Nat \ {0} : d = c + k
    BY <1>1
  <2>2. d * n = c * n + k * n
    BY <2>1
  <2>3. k * n > 0
    OBVIOUS
  <2> QED BY <2>2, <2>3
<1>2. CASE a < b
  BY <1>1, <1>2
<1>3. CASE b < a
  <2>1. b * n < a * n
    BY <1>1, <1>3
  <2> QED BY <1>3, <2>1
<1>4. CASE a = b
  BY <1>4
<1> QED BY <1>2, <1>3, <1>4

LEMMA Quotient ==
  ASSUME NEW n \in Nat \ {0}, NEW x \in Nat
  PROVE  /\ x \div n \in Nat /\ x % n \in Nat /\ x % n < n
         /\ (x \div n) * n <= x /\ x < (x \div n) * n + n
         /\ x = (x \div n) * n + (x % n)
<1>1. /\ x \div n \in Int /\ x % n \in Nat /\ x % n < n
      /\ x = (x \div n) * n + (x % n)
  OBVIOUS
<1>2. PICK q \in Int : q = x \div n
  BY <1>1
<1>3. q * n <= x /\ x < q * n + n
  BY <1>1, <1>2
<1>4. q >= 0
  <2> SUFFICES ASSUME q + 1 <= 0 PROVE FALSE
    OBVIOUS
  <2>1. (q + 1) * n <= 0
    OBVIOUS
  <2> QED BY <1>3, <2>1
<1> QED BY <1>1, <1>2, <1>3, <1>4

LEMMA QuotientIs ==
  ASSUME NEW n \in Nat \ {0}, NEW q \in Nat, NEW r \in Nat, r < n
  PROVE  (q * n + r) \div n = q /\ (q * n + r) % n = r
<1>1. PICK x \in Nat : x = q * n + r
  OBVIOUS
<1>2. PICK d \in Nat : d = x \div n /\ d * n <= x /\ x < d * n + n /\ x = d * n + (x % n)
  BY Quotient
<1>3. d * n < (q + 1) * n /\ q * n < (d + 1) * n
  BY <1>1, <1>2
<1>4. d < q + 1 /\ q < d + 1
  BY <1>3, Multiples
<1>5. d = q
  BY <1>4
<1> QED BY <1>1, <1>2, <1>5

-----------------------------------------------------------------------------
(* The memory map.                                                         *)

MapEntry == [addr : Nat, len : Nat, type : Nat]

Aligned(e) == e.addr % BtmLevel = 0 /\ e.len % BtmLevel = 0

(* The pages of an entry that lie behind what the kernel needs.            *)
Usable(e) ==
  {p \in Int : /\ LowEnd <= p * BtmLevel /\ KernelEnd <= p * BtmLevel
               /\ e.addr <= p * BtmLevel /\ (p + 1) * BtmLevel <= e.addr + e.len}

(* A region that ends on a page is freed from the first page that begins   *)
(* in it up to its end: rounding its start up and its length down agree.   *)
LEMMA PagesFreed ==
  ASSUME NEW r \in MapEntry, NEW last \in Nat, r.addr + r.len = last * BtmLevel
  PROVE  B!PagesOf(r) = {p \in Int : r.addr <= p * BtmLevel /\ p < last}
<1>1. PICK n \in Nat \ {0}, x \in Nat, l \in Nat :
        n = BtmLevel /\ x = r.addr /\ l = r.len /\ x + l = last * n
  BY MapsAssumption DEF MapEntry
<1>2. PICK f \in Nat : f = (x + n - 1) \div n /\ f * n <= x + n - 1 /\ x + n - 1 < f * n + n
  <2>1. x + n - 1 \in Nat
    OBVIOUS
  <2> QED BY <2>1, Quotient
<1>3. PICK k \in Nat : k = l \div n /\ k * n <= l /\ l < k * n + n
  BY Quotient
<1>4. f + k = last
  <2>1. (f + k) * n = f * n + k * n /\ (last + 1) * n = last * n + n /\ (last - 1) * n = last * n - n
    OBVIOUS
  <2>2. (f + k) * n < (last + 1) * n /\ (last - 1) * n < (f + k) * n
    <3>1. PICK u \in Int, v \in Int, w \in Int : u = f * n /\ v = k * n /\ w = last * n
      OBVIOUS
    <3>2. /\ u <= x + n - 1 /\ x + n - 1 < u + n /\ v <= l /\ l < v + n /\ x + l = w
          /\ (f + k) * n = u + v /\ (last + 1) * n = w + n /\ (last - 1) * n = w - n
      BY <1>1, <1>2, <1>3, <2>1, <3>1
    <3>3. u + v < w + n /\ w - n < u + v
      BY <3>2
    <3> QED BY <3>2, <3>3
  <2>3. f + k < last + 1 /\ last - 1 < f + k
    BY <2>2, Multiples
  <2> QED BY <2>3
<1>5. ASSUME NEW p \in Int PROVE f <= p <=> x <= p * n
  <2>1. (f - 1) * n < x /\ x <= f * n
    <3>1. (f - 1) * n = f * n - n
      OBVIOUS
    <3> QED BY <1>2, <3>1
  <2>2. CASE f <= p
    <3>1. ~(p * n < f * n)
      BY <2>2, Multiples
    <3> QED BY <2>1, <2>2, <3>1
  <2>3. CASE p < f
    <3>1. p < f - 1 \/ p = f - 1
      BY <2>3
    <3>2. p * n <= (f - 1) * n
      BY <3>1, Multiples
    <3> QED BY <2>1, <2>3, <3>2
  <2> QED BY <2>2, <2>3
<1>6. B!PagesOf(r) = f .. f + k - 1
  BY <1>1, <1>2, <1>3 DEF B!PagesOf
<1>7. \A p \in Int : p \in f .. f + k - 1 <=> x <= p * n /\ p < last
  BY <1>4, <1>5
<1>8. \A p \in Int : r.addr <= p * BtmLevel <=> x <= p * n
  BY <1>1
<1>9. f .. f + k - 1 \subseteq Int
  OBVIOUS
<1> QED BY <1>6, <1>7, <1>8, <1>9

(* What is left of an entry ends where it ended.                           *)
LEMMA KeptRegion ==
  ASSUME NEW e \in MapEntry
  PROVE  \/ /\ B!Kept(e) = <<>>
            /\ e.addr + e.len <= LowEnd \/ e.addr + e.len < KernelEnd
         \/ \E r \in MapEntry :
              /\ B!Kept(e) = <<r>> /\ r.addr + r.len = e.addr + e.len
              /\ LowEnd <= r.addr /\ KernelEnd <= r.addr /\ e.addr <= r.addr
              /\ r.addr \in {e.addr, LowEnd, KernelEnd}
<1>1. PICK x \in Nat, l \in Nat : x = e.addr /\ l = e.len
  BY DEF MapEntry
<1>2. /\ LowEnd \in Nat /\ KernelStart \in Nat /\ KernelEnd \in Nat /\ KernelStart <= LowEnd
  BY MapsAssumption
<1>3. ASSUME NEW d \in MapEntry, NEW from \in Nat, d.addr <= from, from <= d.addr + d.len
      PROVE  /\ B!From(d, from) \in MapEntry /\ B!From(d, from).addr = from
             /\ B!From(d, from).addr + B!From(d, from).len = d.addr + d.len
  <2>1. PICK y \in Nat, m \in Nat : y = d.addr /\ m = d.len
    BY DEF MapEntry
  <2>2. m - (from - y) \in Nat /\ from + (m - (from - y)) = y + m
    BY <1>3, <2>1
  <2>3. /\ B!From(d, from).addr = from /\ B!From(d, from).len = m - (from - y)
        /\ B!From(d, from) \in MapEntry
    BY <2>1, <2>2 DEF B!From, MapEntry
  <2> QED BY <2>1, <2>2, <2>3
<1>4. CASE x < LowEnd /\ LowEnd - x >= l
  <2>1. B!AboveLow(e) = <<>>
    BY <1>1, <1>2, <1>4 DEF B!AboveLow
  <2>2. x + l <= LowEnd
    BY <1>2, <1>4
  <2> QED BY <1>1, <2>1, <2>2 DEF B!Kept
<1>5. CASE ~(x < LowEnd /\ LowEnd - x >= l)
  <2>1. PICK a \in MapEntry :
          /\ B!AboveLow(e) = <<a>> /\ a.addr + a.len = x + l
          /\ LowEnd <= a.addr /\ x <= a.addr /\ a.addr \in {x, LowEnd}
    <3>1. CASE x >= LowEnd
      <4>1. B!AboveLow(e) = <<e>>
        BY <1>1, <3>1 DEF B!AboveLow
      <4> QED BY <1>1, <3>1, <4>1
    <3>2. CASE x < LowEnd
      <4>1. B!AboveLow(e) = <<B!From(e, LowEnd)>>
        BY <1>1, <1>2, <1>5, <3>2 DEF B!AboveLow
      <4>2. x <= LowEnd /\ LowEnd <= x + l
        BY <1>2, <1>5, <3>2
      <4>3. /\ B!From(e, LowEnd) \in MapEntry /\ B!From(e, LowEnd).addr = LowEnd
            /\ B!From(e, LowEnd).addr + B!From(e, LowEnd).len = x + l
        BY <1>1, <1>2, <1>3, <4>2
      <4> QED BY <1>2, <4>1, <4>2, <4>3
    <3> QED BY <1>2, <3>1, <3>2
  <2>2. PICK y \in Nat, m \in Nat : y = a.addr /\ m = a.len
    BY DEF MapEntry
  <2>3. B!Kept(e) = B!AboveKernel(a)
    BY <2>1 DEF B!Kept
  <2>4. ~(y < KernelStart)
    BY <1>2, <2>1, <2>2
  <2>5. CASE y + m < KernelEnd
    <3>1. B!AboveKernel(a) = <<>>
      BY <2>2, <2>4, <2>5 DEF B!AboveKernel
    <3> QED BY <1>1, <2>1, <2>2, <2>3, <2>5, <3>1
  <2>6. CASE ~(y + m < KernelEnd) /\ y < KernelEnd
    <3>1. B!AboveKernel(a) = <<B!From(a, KernelEnd)>>
      BY <2>2, <2>4, <2>6 DEF B!AboveKernel
    <3>2. y <= KernelEnd /\ KernelEnd <= y + m
      BY <1>2, <2>6
    <3>3. /\ B!From(a, KernelEnd) \in MapEntry /\ B!From(a, KernelEnd).addr = KernelEnd
          /\ B!From(a, KernelEnd).addr + B!From(a, KernelEnd).len = y + m
      BY <1>2, <1>3, <2>2, <3>2
    <3>4. LowEnd <= KernelEnd /\ x <= KernelEnd
      BY <1>2, <2>1, <2>2, <3>2
    <3>5. \E r \in MapEntry :
            /\ B!Kept(e) = <<r>> /\ r.addr + r.len = x + l
            /\ LowEnd <= r.addr /\ KernelEnd <= r.addr /\ x <= r.addr
            /\ r.addr \in {x, LowEnd, KernelEnd}
      <4> DEFINE r == B!From(a, KernelEnd)
      <4>1. /\ r \in MapEntry /\ r.addr = KernelEnd /\ r.addr + r.len = x + l
            /\ B!Kept(e) = <<r>>
        BY <2>1, <2>2, <2>3, <3>1, <3>3
      <4>2. LowEnd <= r.addr /\ KernelEnd <= r.addr /\ x <= r.addr
        BY <1>2, <3>4, <4>1
      <4> HIDE DEF r
      <4> QED BY <4>1, <4>2
    <3> QED BY <1>1, <3>5
  <2>7. CASE ~(y + m < KernelEnd) /\ ~(y < KernelEnd)
    <3>1. B!AboveKernel(a) = <<a>>
      BY <2>2, <2>4, <2>7 DEF B!AboveKernel
    <3>2. KernelEnd <= y
      BY <1>2, <2>7
    <3> QED BY <1>1, <2>1, <2>2, <2>3, <3>1, <3>2
  <2> QED BY <2>5, <2>6, <2>7
<1> QED BY <1>4, <1>5

LEMMA KeptPages ==
  ASSUME NEW e \in MapEntry, Aligned(e)
  PROVE  /\ B!Kept(e) = <<>> => Usable(e) = {}
         /\ B!Kept(e) # <<>> => /\ B!Kept(e) = <<B!Kept(e)[1]>>
                                /\ B!PagesOf(B!Kept(e)[1]) = Usable(e)
<1>1. PICK n \in Nat \ {0}, x \in Nat, l \in Nat, low \in Nat, ke \in Nat :
        n = BtmLevel /\ x = e.addr /\ l = e.len /\ low = LowEnd /\ ke = KernelEnd
  BY MapsAssumption DEF MapEntry
<1>2. PICK last \in Nat : x + l = last * n
  <2>1. x = (x \div n) * n /\ l = (l \div n) * n /\ x \div n \in Nat /\ l \div n \in Nat
    <3>1. x % n = 0 /\ l % n = 0
      BY <1>1 DEF Aligned
    <3>2. x = (x \div n) * n + (x % n) /\ l = (l \div n) * n + (l % n)
          /\ x \div n \in Nat /\ l \div n \in Nat
      BY Quotient
    <3> QED BY <3>1, <3>2
  <2>2. PICK a \in Nat, b \in Nat : x = a * n /\ l = b * n
    BY <2>1
  <2>3. x + l = (a + b) * n
    BY <2>2
  <2>4. a + b \in Nat
    OBVIOUS
  <2> QED BY <2>3, <2>4
<1>3. ASSUME NEW p \in Int PROVE (p + 1) * n <= x + l <=> p < last
  <2>1. last * n < (p + 1) * n <=> last < p + 1
    BY Multiples
  <2> QED BY <1>2, <2>1
<1>4. Usable(e) = {p \in Int : low <= p * n /\ ke <= p * n /\ x <= p * n /\ p < last}
  BY <1>1, <1>3 DEF Usable
<1>5. CASE B!Kept(e) = <<>>
  <2>1. x + l <= low \/ x + l < ke
    <3>1. \A r : B!Kept(e) # <<r>>
      BY <1>5
    <3>2. e.addr + e.len <= LowEnd \/ e.addr + e.len < KernelEnd
      BY <3>1, KeptRegion
    <3> QED BY <1>1, <3>2
  <2>2. ASSUME NEW p \in Int, low <= p * n, ke <= p * n, p < last PROVE FALSE
    <3>1. p * n < last * n
      BY <2>2, Multiples
    <3> QED BY <1>2, <2>1, <2>2, <3>1
  <2> QED BY <1>4, <1>5, <2>2
<1>6. CASE B!Kept(e) # <<>>
  <2>1. PICK r \in MapEntry :
          /\ B!Kept(e) = <<r>> /\ r.addr + r.len = x + l
          /\ low <= r.addr /\ ke <= r.addr /\ x <= r.addr /\ r.addr \in {x, low, ke}
    BY <1>1, <1>6, KeptRegion
  <2>2. B!PagesOf(r) = {p \in Int : r.addr <= p * n /\ p < last}
    BY <1>1, <1>2, <2>1, PagesFreed
  <2>3. PICK y \in Nat : y = r.addr
    BY DEF MapEntry
  <2>4. \A p \in Int : y <= p * n <=> low <= p * n /\ ke <= p * n /\ x <= p * n
    BY <2>1, <2>3
  <2>5. B!PagesOf(r) = Usable(e)
    BY <1>4, <2>2, <2>3, <2>4
  <2> QED BY <1>6, <2>1, <2>5
<1> QED BY <1>5, <1>6

(* Usable pages lie in one region alone.                                   *)
LEMMA UsableOnce ==
  ASSUME NEW m \in MemoryMaps, NEW i \in DOMAIN m, NEW j \in DOMAIN m, i # j
  PROVE  Usable(m[i]) \cap Usable(m[j]) = {}
<1>1. m \in Seq(MapEntry)
  BY MapsAssumption DEF MapEntry
<1>2. m[i] \in MapEntry /\ m[j] \in MapEntry
  BY <1>1
<1>3. PICK x \in Nat, k \in Nat, y \in Nat, l \in Nat, n \in Nat \ {0} :
        x = m[i].addr /\ k = m[i].len /\ y = m[j].addr /\ l = m[j].len /\ n = BtmLevel
  BY <1>2, MapsAssumption DEF MapEntry
<1>4. x + k <= y \/ y + l <= x
  BY <1>3, MapsAssumption
<1>5. ASSUME NEW p \in Int, x <= p * n, (p + 1) * n <= x + k, y <= p * n, (p + 1) * n <= y + l
      PROVE  FALSE
  <2>1. PICK u \in Int : u = p * n
    OBVIOUS
  <2>2. (p + 1) * n = u + n
    BY <2>1
  <2> QED BY <1>4, <1>5, <2>1, <2>2
<1> QED BY <1>3, <1>5 DEF Usable

LEMMA MapEntries ==
  ASSUME NEW m \in MemoryMaps
  PROVE  Len(m) \in Nat /\ DOMAIN m = 1 .. Len(m)
         /\ \A i \in DOMAIN m : m[i] \in MapEntry /\ Aligned(m[i])
<1>1. m \in Seq(MapEntry)
  BY MapsAssumption DEF MapEntry
<1>2. \A i \in DOMAIN m : Aligned(m[i])
  BY MapsAssumption DEF Aligned
<1> QED BY <1>1, <1>2

LEMMA InitCopies == Init => CopyInv
<1> SUFFICES ASSUME Init PROVE B!CopyInv
  BY DEF CopyInv
<1>1. /\ mmap \in MemoryMaps /\ entry = 1 /\ MemoryMap = <<>> /\ MemoryMapCount = 0
      /\ freed = <<>>
  BY DEF Init, B!Init
<1>2. Len(mmap) \in Nat
  BY <1>1, MapEntries
<1> QED BY <1>1, <1>2 DEF B!CopyInv

(* What is kept of an entry depends on the map alone.                      *)
LEMMA MapAlike ==
  ASSUME UNCHANGED mmap
  PROVE  \A j : B!Kept(mmap[j])' = B!Kept(mmap[j])
<1>1. \A j : B!AboveLow(mmap[j])' = B!AboveLow(mmap[j])
  BY DEF B!AboveLow, B!From
<1> QED BY <1>1 DEF B!Kept, B!AboveKernel, B!From

LEMMA CopyEntryKeeps == CopyInv /\ B!CopyEntry => CopyInv'
<1> SUFFICES ASSUME B!CopyInv, B!CopyEntry PROVE B!CopyInv'
  BY DEF CopyInv
<1> DEFINE kept == B!Kept(mmap[entry])
           n == Len(MemoryMap)
<1>1. /\ entry <= Len(mmap) /\ MemoryMap' = MemoryMap \o kept /\ entry' = entry + 1
      /\ UNCHANGED <<mmap, MemoryMapCount, freed>>
  BY DEF B!CopyEntry
<1>2. /\ mmap \in MemoryMaps /\ entry \in Nat /\ 1 <= entry /\ n < entry
      /\ MemoryMapCount = 0 \/ (MemoryMapCount = Len(mmap) /\ entry = Len(mmap) + 1)
      /\ Len(mmap) \in Nat /\ entry \in DOMAIN mmap
  BY <1>1, MapEntries DEF B!CopyInv
<1>3. /\ MemoryMapCount = 0 /\ freed = <<>>
  BY <1>1, <1>2 DEF B!CopyInv
<1>4. \A k, j : B!Origin(k, j) <=> B!Kept(mmap[j]) = <<MemoryMap[k]>>
  BY DEF B!Origin
<1>0. \A j : B!Kept(mmap[j])' = B!Kept(mmap[j])
  BY <1>1, MapAlike
<1>5. \A k, j : B!Origin(k, j)' <=> B!Kept(mmap[j]) = <<MemoryMap'[k]>>
  BY <1>0 DEF B!Origin
<1> SUFFICES
      /\ Len(MemoryMap') < entry'
      /\ \A k \in DOMAIN MemoryMap' : \E j \in 1 .. entry : B!Origin(k, j)'
      /\ \A j \in 1 .. entry : B!Kept(mmap[j]) # <<>> =>
           \E k \in DOMAIN MemoryMap' : B!Origin(k, j)'
      /\ \A k, l \in DOMAIN MemoryMap' : k # l =>
           \E i, j \in 1 .. entry : i # j /\ B!Origin(k, i)' /\ B!Origin(l, j)'
  <2>1. entry' - 1 = entry
    BY <1>1, <1>2
  <2> QED BY <1>0, <1>1, <1>2, <1>3, <2>1 DEF B!CopyInv
<1>6. CASE kept = <<>>
  <2>1. MemoryMap' = MemoryMap
    BY <1>1, <1>6
  <2>2. \A k, j : B!Origin(k, j)' <=> B!Origin(k, j)
    BY <1>4, <1>5, <2>1
  <2> QED BY <1>1, <1>2, <1>6, <2>1, <2>2 DEF B!CopyInv
<1>7. CASE kept # <<>>
  <2>1. kept = <<kept[1]>>
    BY <1>2, <1>7, KeptPages, MapEntries
  <2>2. /\ Len(MemoryMap') = n + 1 /\ MemoryMap'[n + 1] = kept[1]
        /\ \A k \in DOMAIN MemoryMap : MemoryMap'[k] = MemoryMap[k]
        /\ DOMAIN MemoryMap' = DOMAIN MemoryMap \cup {n + 1}
    BY <1>1, <2>1
  <2>3. \A k \in DOMAIN MemoryMap : \A j : B!Origin(k, j)' <=> B!Origin(k, j)
    BY <1>4, <1>5, <2>2
  <2>4. kept = <<MemoryMap'[n + 1]>>
    BY <2>1, <2>2
  <2>5. PICK m \in Nat, c \in Nat : m = n + 1 /\ c = entry /\ B!Origin(m, c)'
    <3>1. PICK m \in Nat, c \in Nat : m = n + 1 /\ c = entry
      BY <1>2
    <3>2. B!Origin(m, c)'
      BY <1>5, <2>4, <3>1
    <3> QED BY <3>1, <3>2
  <2>6. ASSUME NEW k \in DOMAIN MemoryMap
        PROVE  \E j \in 1 .. entry - 1 : B!Origin(k, j)'
    BY <2>3 DEF B!CopyInv
  <2>7. ASSUME NEW j \in 1 .. entry - 1, B!Kept(mmap[j]) # <<>>
        PROVE  \E k \in DOMAIN MemoryMap' : B!Origin(k, j)'
    <3>1. PICK k \in DOMAIN MemoryMap : B!Origin(k, j)
      BY <2>7 DEF B!CopyInv
    <3> QED BY <2>2, <2>3, <3>1
  <2>8. ASSUME NEW k \in DOMAIN MemoryMap', NEW l \in DOMAIN MemoryMap', k # l
        PROVE  \E i, j \in 1 .. entry : i # j /\ B!Origin(k, i)' /\ B!Origin(l, j)'
    <3>1. CASE k \in DOMAIN MemoryMap /\ l \in DOMAIN MemoryMap
      <4>1. PICK i \in 1 .. entry - 1, j \in 1 .. entry - 1 :
              i # j /\ B!Origin(k, i) /\ B!Origin(l, j)
        BY <2>8, <3>1 DEF B!CopyInv
      <4> QED BY <1>2, <2>3, <3>1, <4>1
    <3>2. CASE k = n + 1
      <4>1. l \in DOMAIN MemoryMap
        BY <2>2, <2>8, <3>2
      <4>2. PICK j \in 1 .. entry - 1 : B!Origin(l, j)'
        BY <2>6, <4>1
      <4> QED BY <1>2, <2>5, <2>8, <3>2, <4>2
    <3>3. CASE l = n + 1
      <4>1. k \in DOMAIN MemoryMap
        BY <2>2, <2>8, <3>3
      <4>2. PICK j \in 1 .. entry - 1 : B!Origin(k, j)'
        BY <2>6, <4>1
      <4> QED BY <1>2, <2>5, <2>8, <3>3, <4>2
    <3> QED BY <2>2, <2>8, <3>1, <3>2, <3>3
  <2>9. Len(MemoryMap') < entry'
    BY <1>1, <1>2, <2>2
  <2>10. 1 .. entry = (1 .. entry - 1) \cup {entry}
    BY <1>2
  <2>11. ASSUME NEW k \in DOMAIN MemoryMap' PROVE \E j \in 1 .. entry : B!Origin(k, j)'
    BY <2>2, <2>5, <2>6, <2>10
  <2>12. ASSUME NEW j \in 1 .. entry, B!Kept(mmap[j]) # <<>>
         PROVE  \E k \in DOMAIN MemoryMap' : B!Origin(k, j)'
    BY <2>2, <2>5, <2>7, <2>10, <2>12
  <2> HIDE DEF n, kept
  <2> QED BY <2>8, <2>9, <2>11, <2>12
<1> QED BY <1>6, <1>7

(* Where the regions come from depends on the map and on its copy alone.   *)
LEMMA CopiesAlike ==
  ASSUME UNCHANGED <<mmap, MemoryMap>>
  PROVE  /\ \A k, j : B!Origin(k, j)' <=> B!Origin(k, j)
         /\ \A j : B!Kept(mmap[j])' = B!Kept(mmap[j])
<1>1. \A j : B!Kept(mmap[j])' = B!Kept(mmap[j])
  BY MapAlike
<1> QED BY <1>1 DEF B!Origin

LEMMA CopyDoneKeeps == CopyInv /\ B!CopyDone => CopyInv'
<1> SUFFICES ASSUME B!CopyInv, B!CopyDone PROVE B!CopyInv'
  BY DEF CopyInv
<1>1. /\ entry = Len(mmap) + 1 /\ MemoryMapCount' = Len(mmap) /\ MemoryMapCount = 0
      /\ UNCHANGED <<mmap, entry, MemoryMap, freed>>
  BY DEF B!CopyDone
<1>2. mmap \in MemoryMaps /\ Len(mmap) \in Nat
  BY MapEntries DEF B!CopyInv
<1>3. freed = <<>>
  <2> SUFFICES ASSUME freed # <<>> PROVE FALSE
    OBVIOUS
  <2>1. freed = [i \in 1 .. 0 |-> B!PagesOf(B!Region(i))]
    BY <1>1 DEF B!CopyInv
  <2> QED BY <2>1
<1>4. /\ \A k, j : B!Origin(k, j)' <=> B!Origin(k, j)
      /\ \A j : B!Kept(mmap[j])' = B!Kept(mmap[j])
  BY <1>1, CopiesAlike
<1>5. /\ mmap' = mmap /\ entry' = entry /\ MemoryMap' = MemoryMap /\ freed' = <<>>
      /\ MemoryMapCount' = Len(mmap)
  BY <1>1, <1>3
<1> QED BY <1>1, <1>2, <1>4, <1>5 DEF B!CopyInv

LEMMA FreeRegionsKeeps == CopyInv /\ B!FreeRegions => CopyInv'
<1> SUFFICES ASSUME B!CopyInv, B!FreeRegions PROVE B!CopyInv'
  BY DEF CopyInv
<1>1. /\ B!Copied /\ freed' = [i \in 1 .. MemoryMapCount |-> B!PagesOf(B!Region(i))]
      /\ UNCHANGED <<mmap, entry, MemoryMap, MemoryMapCount>>
  BY DEF B!FreeRegions
<1>2. B!Copied' /\ freed' = [i \in 1 .. MemoryMapCount' |-> B!PagesOf(B!Region(i))']
  <2>1. \A i : B!PagesOf(B!Region(i))' = B!PagesOf(B!Region(i))
    BY <1>1 DEF B!PagesOf, B!Region
  <2> QED BY <1>1, <2>1 DEF B!Copied
<1>3. freed' # <<>> => entry = Len(mmap) + 1
  <2>1. CASE MemoryMapCount = 0
    <3>1. freed' = <<>>
      BY <1>1, <2>1
    <3> QED BY <3>1
  <2>2. CASE MemoryMapCount # 0
    BY <2>2 DEF B!CopyInv
  <2> QED BY <2>1, <2>2
<1>4. /\ \A k, j : B!Origin(k, j)' <=> B!Origin(k, j)
      /\ \A j : B!Kept(mmap[j])' = B!Kept(mmap[j])
  BY <1>1, CopiesAlike
<1>5. /\ mmap' = mmap /\ entry' = entry /\ MemoryMap' = MemoryMap
      /\ MemoryMapCount' = MemoryMapCount
  BY <1>1
<1> QED BY <1>2, <1>3, <1>4, <1>5 DEF B!CopyInv

LEMMA CopyStep == CopyInv /\ [Next]_vars => CopyInv'
<1> SUFFICES ASSUME CopyInv, [Next]_vars PROVE CopyInv'
  OBVIOUS
<1>1. CASE UNCHANGED memory
  <2>1. /\ mmap' = mmap /\ entry' = entry /\ MemoryMap' = MemoryMap
        /\ MemoryMapCount' = MemoryMapCount /\ freed' = freed
    BY <1>1 DEF memory
  <2>2. /\ \A k, j : B!Origin(k, j)' <=> B!Origin(k, j)
        /\ \A j : B!Kept(mmap[j])' = B!Kept(mmap[j])
    BY <2>1, CopiesAlike
  <2>3. /\ B!Copied' <=> B!Copied
        /\ \A i : B!PagesOf(B!Region(i))' = B!PagesOf(B!Region(i))
    BY <2>1 DEF B!Copied, B!PagesOf, B!Region
  <2>4. B!CopyInv
    BY DEF CopyInv
  <2>5. B!CopyInv'
    BY <2>1, <2>2, <2>3, <2>4 DEF B!CopyInv
  <2> QED BY <2>5 DEF CopyInv
<1> QED
  BY <1>1, CopyEntryKeeps, CopyDoneKeeps, FreeRegionsKeeps
  DEF Next, vars, SetBootInfo, PmemInit, AcpiIntrInit, IoapicInit, MapLine, MaskLine, Devices

(* A page lies within an entry when its first and its last byte do.        *)
LEMMA PageWithin ==
  ASSUME NEW e \in MapEntry, NEW p \in Int
  PROVE  B!Within(p, e) <=> e.addr <= p * BtmLevel /\ (p + 1) * BtmLevel <= e.addr + e.len
<1>1. PICK n \in Nat \ {0}, x \in Nat, l \in Nat, u \in Int, v \in Int :
        /\ n = BtmLevel /\ x = e.addr /\ l = e.len
        /\ u = p * BtmLevel /\ v = (p + 1) * BtmLevel /\ v = u + n
  <2>1. PICK n \in Nat \ {0} : n = BtmLevel
    BY MapsAssumption
  <2>2. p * n \in Int /\ (p + 1) * n = p * n + n
    OBVIOUS
  <2>3. e.addr \in Nat /\ e.len \in Nat
    BY DEF MapEntry
  <2> QED BY <2>1, <2>2, <2>3
<1>2. B!Within(p, e) <=> u .. v - 1 \subseteq x .. x + l - 1
  BY <1>1 DEF B!Within, B!Page
<1>3. u \in u .. v - 1 /\ v - 1 \in u .. v - 1
  BY <1>1
<1>4. u .. v - 1 \subseteq x .. x + l - 1 <=> x <= u /\ v <= x + l
  <2>1. ASSUME u .. v - 1 \subseteq x .. x + l - 1 PROVE x <= u /\ v <= x + l
    <3>1. u \in x .. x + l - 1 /\ v - 1 \in x .. x + l - 1
      BY <1>3, <2>1
    <3> QED BY <3>1
  <2>2. ASSUME x <= u, v <= x + l, NEW b \in u .. v - 1 PROVE b \in x .. x + l - 1
    BY <2>2
  <2> QED BY <2>1, <2>2
<1> QED BY <1>1, <1>2, <1>4

(* Whatever the boot loader reports, in whatever order, the pages that     *)
(* pmem_init frees are those of its regions that lie behind the first      *)
(* 2 MiB and the kernel, each of them once.                                *)
THEOREM RegionsFreed == Spec => []RegionsFreedOnce
<1>1. CopyInv => RegionsFreedOnce
  <2> SUFFICES ASSUME B!CopyInv, freed # <<>>
               PROVE  /\ \A i, j \in DOMAIN freed : i # j => freed[i] \cap freed[j] = {}
                      /\ \A p \in (UNION {B!PagesOf(mmap[i]) : i \in DOMAIN mmap})
                                 \cup (UNION {freed[i] : i \in DOMAIN freed}) :
                           (\E i \in DOMAIN freed : p \in freed[i]) <=>
                             /\ p * BtmLevel >= LowEnd /\ p * BtmLevel >= KernelEnd
                             /\ \E i \in DOMAIN mmap : B!Within(p, mmap[i])
    BY DEF CopyInv, RegionsFreedOnce, B!RegionsFreedOnce
  <2> DEFINE n == Len(mmap)
  <2>1. /\ mmap \in MemoryMaps /\ n \in Nat /\ DOMAIN mmap = 1 .. n
        /\ \A i \in DOMAIN mmap : mmap[i] \in MapEntry /\ Aligned(mmap[i])
    BY MapEntries DEF B!CopyInv
  <2>2. /\ MemoryMapCount = n /\ entry = n + 1 /\ entry - 1 = n
        /\ freed = [i \in 1 .. n |-> B!PagesOf(B!Region(i))]
    BY <2>1 DEF B!CopyInv, B!Copied
  <2>3. Len(MemoryMap) <= n
    BY <2>1, <2>2 DEF B!CopyInv
  <2>4. \A k, j \in 1 .. n : k <= Len(MemoryMap) /\ B!Origin(k, j) => freed[k] = Usable(mmap[j])
    <3> SUFFICES ASSUME NEW k \in 1 .. n, NEW j \in 1 .. n, k <= Len(MemoryMap), B!Origin(k, j)
                 PROVE  freed[k] = Usable(mmap[j])
      OBVIOUS
    <3>1. B!Kept(mmap[j]) = <<MemoryMap[k]>> /\ mmap[j] \in MapEntry /\ Aligned(mmap[j])
      BY <2>1 DEF B!Origin
    <3>2. B!PagesOf(MemoryMap[k]) = Usable(mmap[j])
      BY <3>1, KeptPages
    <3> QED BY <2>2, <3>2 DEF B!Region
  <2>5. \A k \in 1 .. n : ~(k <= Len(MemoryMap)) => freed[k] = {}
    <3> SUFFICES ASSUME NEW k \in 1 .. n, ~(k <= Len(MemoryMap)) PROVE freed[k] = {}
      OBVIOUS
    <3> DEFINE r == [addr |-> 0, len |-> 0, type |-> 0]
    <3>1. freed[k] = B!PagesOf(r)
      BY <2>2 DEF B!Region
    <3>2. r \in MapEntry /\ r.addr + r.len = 0 /\ r.addr = 0
      BY DEF MapEntry
    <3>3. 0 = 0 * BtmLevel
      BY MapsAssumption
    <3> HIDE DEF r
    <3>4. B!PagesOf(r) = {p \in Int : 0 <= p * BtmLevel /\ p < 0}
      BY <3>2, <3>3, PagesFreed
    <3>5. ASSUME NEW p \in Int, 0 <= p * BtmLevel, p < 0 PROVE FALSE
      <4>1. \A b \in Int : p * BtmLevel < b * BtmLevel <=> p < b
        BY MapsAssumption, Multiples
      <4>2. p * BtmLevel < 0 * BtmLevel
        BY <3>5, <4>1
      <4>3. PICK u \in Int, v \in Int : u = p * BtmLevel /\ v = 0 * BtmLevel
        BY MapsAssumption
      <4> QED BY <3>3, <3>5, <4>2, <4>3
    <3> QED BY <3>1, <3>4, <3>5
  <2>6. ASSUME NEW i \in 1 .. n, NEW j \in 1 .. n, i # j PROVE freed[i] \cap freed[j] = {}
    <3>1. CASE i <= Len(MemoryMap) /\ j <= Len(MemoryMap)
      <4>1. PICK a \in 1 .. n, b \in 1 .. n : a # b /\ B!Origin(i, a) /\ B!Origin(j, b)
        <5>1. i \in DOMAIN MemoryMap /\ j \in DOMAIN MemoryMap
          BY <3>1
        <5> QED BY <2>2, <2>6, <5>1 DEF B!CopyInv
      <4>2. freed[i] = Usable(mmap[a]) /\ freed[j] = Usable(mmap[b])
        BY <2>4, <3>1, <4>1
      <4> QED BY <2>1, <4>1, <4>2, UsableOnce
    <3> QED BY <2>5, <3>1
  <2>7. ASSUME NEW p \in Int, NEW j \in 1 .. n
        PROVE  p \in Usable(mmap[j]) <=>
                 LowEnd <= p * BtmLevel /\ KernelEnd <= p * BtmLevel /\ B!Within(p, mmap[j])
    BY <2>1, PageWithin DEF Usable
  <2>8. ASSUME NEW i \in 1 .. n, NEW p \in freed[i]
        PROVE  p \in Int /\ \E j \in 1 .. n : p \in Usable(mmap[j])
    <3>1. i <= Len(MemoryMap)
      BY <2>5, <2>8
    <3>2. PICK j \in 1 .. n : B!Origin(i, j)
      <4>1. i \in DOMAIN MemoryMap
        BY <3>1
      <4> QED BY <2>2, <4>1 DEF B!CopyInv
    <3>3. p \in Usable(mmap[j])
      BY <2>4, <2>8, <3>1, <3>2
    <3> QED BY <3>3 DEF Usable
  <2>9. ASSUME NEW p \in Int, NEW j \in 1 .. n, p \in Usable(mmap[j])
        PROVE  \E i \in 1 .. n : p \in freed[i]
    <3>1. B!Kept(mmap[j]) # <<>>
      BY <2>1, <2>9, KeptPages
    <3>2. PICK k \in DOMAIN MemoryMap : B!Origin(k, j)
      BY <2>2, <3>1 DEF B!CopyInv
    <3>3. k \in 1 .. n /\ k <= Len(MemoryMap)
      BY <2>1, <2>3, <3>2
    <3> QED BY <2>4, <2>9, <3>2, <3>3
  <2>10. DOMAIN freed = 1 .. n
    BY <2>2
  <2>11. ASSUME NEW i \in 1 .. n PROVE B!PagesOf(mmap[i]) \subseteq Int
    BY <2>1, MapsAssumption DEF B!PagesOf
  <2>12. ASSUME NEW p \in (UNION {B!PagesOf(mmap[i]) : i \in DOMAIN mmap})
                         \cup (UNION {freed[i] : i \in DOMAIN freed})
         PROVE  p \in Int
    <3>1. CASE \E i \in 1 .. n : p \in B!PagesOf(mmap[i])
      BY <2>11, <3>1
    <3>2. CASE \E i \in 1 .. n : p \in freed[i]
      BY <2>8, <3>2
    <3> HIDE DEF n
    <3>3. (\E i \in DOMAIN mmap : p \in B!PagesOf(mmap[i])) \/ \E i \in DOMAIN freed : p \in freed[i]
      <4>1. CASE p \in (UNION {B!PagesOf(mmap[i]) : i \in DOMAIN mmap})
        BY <4>1
      <4>2. CASE p \in (UNION {freed[i] : i \in DOMAIN freed})
        BY <4>2
      <4> QED BY <2>12, <4>1, <4>2
    <3> QED BY <2>1, <2>10, <3>1, <3>2, <3>3
  <2>13. ASSUME NEW p \in Int
         PROVE  (\E i \in 1 .. n : p \in freed[i]) <=>
                  /\ LowEnd <= p * BtmLevel /\ KernelEnd <= p * BtmLevel
                  /\ \E i \in 1 .. n : B!Within(p, mmap[i])
    BY <2>7, <2>8, <2>9
  <2> HIDE DEF n
  <2> QED BY <2>1, <2>6, <2>10, <2>12, <2>13
<1> QED BY <1>1, InitCopies, CopyStep, PTL DEF Spec

-----------------------------------------------------------------------------
(* The PCI buses.                                                          *)

(* A set of numbers that is not empty has a least member, which Min finds. *)
LEMMA LeastMember ==
  ASSUME NEW S, S \subseteq Nat, S # {}
  PROVE  D!Min(S) \in S /\ \A y \in S : D!Min(S) <= y
<1> DEFINE Below(x) == {y \in S : y <= x}
           Belows   == {U \in SUBSET S : \E x \in S : U = Below(x)}
<1>1. Belows \subseteq FiniteSubsetsOf(S)
  <2> SUFFICES ASSUME NEW x \in S PROVE IsFiniteSet(Below(x))
    BY DEF FiniteSubsetsOf
  <2>1. x \in Nat /\ Below(x) \in SUBSET Nat /\ \A y \in Below(x) : y <= x
    OBVIOUS
  <2> HIDE DEF Below
  <2> QED BY <2>1, FS_BoundedSetOfNaturals
<1>2. Belows # {}
  OBVIOUS
<1>3. IsWellFoundedOn(StrictSubsetOrdering(S), FiniteSubsetsOf(S))
  BY FS_StrictSubsetOrderingWellFounded
<1>4. PICK U \in Belows : \A V \in Belows : ~(<<V, U>> \in StrictSubsetOrdering(S))
  <2> HIDE DEF Belows
  <2> QED BY <1>1, <1>2, <1>3, WFMin
<1>5. PICK x \in S : U = Below(x)
  OBVIOUS
<1>6. \A y \in S : x <= y
  <2> SUFFICES ASSUME NEW y \in S, y < x PROVE FALSE
    OBVIOUS
  <2>1. Below(y) \in Belows /\ Below(y) \subseteq U /\ Below(y) # U
    <3>1. x \in U /\ x \notin Below(y)
      BY <1>5
    <3>2. \A z \in Below(y) : z <= x
      OBVIOUS
    <3> QED BY <1>5, <3>1, <3>2
  <2> QED BY <1>4, <2>1 DEF StrictSubsetOrdering
<1> QED BY <1>6 DEF D!Min

(* Where a function that is read was plugged in.                           *)
LEMMA FunctionAt ==
  ASSUME hw \in Buses, NEW p \in Nat, D!At(p) # Absent
  PROVE  /\ D!At(p) \in hw
         /\ D!At(p).slot = p \div FunctionsPerDevice
         /\ D!At(p).fn = p % FunctionsPerDevice
<1> DEFINE here == {r \in hw : /\ r.slot = p \div FunctionsPerDevice
                               /\ r.fn = p % FunctionsPerDevice}
<1>1. D!At(p) = IF here = {} THEN Absent ELSE CHOOSE r \in here : TRUE
  BY DEF D!At, D!Fn
<1>2. D!At(p) \in here
  <2> HIDE DEF here
  <2> QED BY <1>1
<1> QED BY <1>2

(* The place of a function, and what is read there.                        *)
LEMMA PlaceOfFunction ==
  ASSUME hw \in Buses, NEW r \in hw
  PROVE  \E p \in Nat : /\ p <= D!LastPlace /\ D!At(p) = r /\ r # Absent
                        /\ p \div FunctionsPerDevice = r.slot
                        /\ p % FunctionsPerDevice = r.fn
<1>1. PICK n \in Nat \ {0}, s \in Nat, f \in Nat, last \in Nat :
        /\ n = FunctionsPerDevice /\ s = r.slot /\ f = r.fn /\ last = LastSlot
        /\ f < n /\ s <= last
  BY PciAssumption
<1>2. PICK p \in Nat : p = s * n + f /\ p \div n = s /\ p % n = f
  <2>1. s * n + f \in Nat
    OBVIOUS
  <2> QED BY <1>1, <2>1, QuotientIs
<1>3. p <= D!LastPlace
  <2>1. s * n < (last + 1) * n
    BY <1>1, Multiples
  <2>2. (s + 1) * n <= (last + 1) * n
    <3>1. s + 1 < last + 1 \/ s + 1 = last + 1
      BY <1>1
    <3> QED BY <3>1, Multiples
  <2>3. PICK u \in Int, v \in Int : u = s * n /\ v = (last + 1) * n
    OBVIOUS
  <2>4. (s + 1) * n = u + n
    BY <2>3
  <2>5. u + f <= v - 1
    BY <1>1, <2>2, <2>3, <2>4
  <2> QED BY <1>1, <1>2, <2>3, <2>5 DEF D!LastPlace
<1>4. D!At(p) = r
  <2> DEFINE here == {q \in hw : q.slot = p \div FunctionsPerDevice /\ q.fn = p % FunctionsPerDevice}
  <2>1. here = {r}
    <3>1. \A q \in hw : q.slot = r.slot /\ q.fn = r.fn => q = r
      BY PciAssumption
    <3> QED BY <1>1, <1>2, <3>1
  <2>2. D!At(p) = IF here = {} THEN Absent ELSE CHOOSE q \in here : TRUE
    BY DEF D!At, D!Fn
  <2> HIDE DEF here
  <2> QED BY <2>1, <2>2
<1>5. r # Absent
  BY PciAssumption
<1> QED BY <1>1, <1>2, <1>3, <1>4, <1>5

LEMMA LastPlaceType == D!LastPlace \in Int /\ D!LastPlace + 1 \in Nat
<1>1. PICK n \in Nat \ {0}, last \in Nat : n = FunctionsPerDevice /\ last = LastSlot
  BY PciAssumption
<1>2. (last + 1) * n \in Nat
  OBVIOUS
<1> QED BY <1>1, <1>2 DEF D!LastPlace

(* A place is known by its slot and its function.                          *)
LEMMA PlacesApart ==
  ASSUME NEW p \in Nat, NEW q \in Nat,
         p \div FunctionsPerDevice = q \div FunctionsPerDevice,
         p % FunctionsPerDevice = q % FunctionsPerDevice
  PROVE  p = q
<1>1. PICK n \in Nat \ {0} : n = FunctionsPerDevice
  BY PciAssumption
<1>2. p = (p \div n) * n + (p % n) /\ q = (q \div n) * n + (q % n)
  BY Quotient
<1> QED BY <1>1, <1>2

(* The entries of two functions differ.                                    *)
LEMMA EntriesApart ==
  ASSUME hw \in Buses, NEW p \in Nat, NEW q \in Nat,
         D!At(p) # Absent, D!At(q) # Absent, D!Entry(D!At(p)) = D!Entry(D!At(q))
  PROVE  p = q
<1>1. /\ D!Entry(D!At(p)).slot = p \div FunctionsPerDevice
      /\ D!Entry(D!At(p)).fn = p % FunctionsPerDevice
  BY FunctionAt DEF D!Entry
<1>2. /\ D!Entry(D!At(q)).slot = q \div FunctionsPerDevice
      /\ D!Entry(D!At(q)).fn = q % FunctionsPerDevice
  BY FunctionAt DEF D!Entry
<1> QED BY <1>1, <1>2, PlacesApart
-----------------------------------------------------------------------------
(* The walk.                                                               *)

(* Cardinality is the same in Pci, which extends FiniteSets by itself.      *)
LEMMA SizeAlike ==
  ASSUME NEW S
  PROVE  D!Cardinality(S) = Cardinality(S)
BY DEF D!Cardinality, Cardinality

LEMMA SeenFinite ==
  ASSUME NEW q \in Nat
  PROVE  /\ IsFiniteSet(D!Seen(q)) /\ Cardinality(D!Seen(q)) \in Nat
         /\ D!Seen(q) \subseteq Nat /\ \A p \in D!Seen(q) : p < q /\ D!At(p) # Absent
<1>1. IsFiniteSet(0 .. q - 1)
  BY FS_Interval
<1>2. D!Seen(q) \in SUBSET (0 .. q - 1)
  BY DEF D!Seen
<1>3. IsFiniteSet(D!Seen(q))
  BY <1>1, <1>2, FS_Subset
<1>4. \A p \in D!Seen(q) : p \in 0 .. q - 1 /\ D!At(p) # Absent
  BY DEF D!Seen
<1>5. \A p \in D!Seen(q) : p \in Nat /\ p < q
  BY <1>4
<1> QED BY <1>3, <1>4, <1>5, FS_CardinalityType

(* The walk goes on at the first place that is visited: nothing that is    *)
(* there is passed over.                                                   *)
LEMMA WalkOn ==
  ASSUME cursor \in Nat, D!Ahead # {}
  PROVE  \E p \in Nat :
           /\ p = D!Place /\ cursor <= p /\ p <= D!LastPlace
           /\ D!Seen(p + 1) = IF D!At(p) = Absent THEN D!Seen(cursor)
                              ELSE D!Seen(cursor) \cup {p}
<1>1. D!Ahead \subseteq Nat /\ \A p \in D!Ahead : cursor <= p /\ p <= D!LastPlace
  BY LastPlaceType DEF D!Ahead
<1>2. D!Place \in D!Ahead /\ \A q \in D!Ahead : D!Place <= q
  BY <1>1, LeastMember DEF D!Place
<1>3. PICK p \in Nat : p = D!Place /\ cursor <= p /\ p <= D!LastPlace /\ D!Visited(p)
  BY <1>1, <1>2 DEF D!Ahead
<1>4. \A q \in Nat : cursor <= q /\ q < p => ~D!Visited(q)
  <2> SUFFICES ASSUME NEW q \in Nat, cursor <= q, q < p, D!Visited(q) PROVE FALSE
    OBVIOUS
  <2>1. q \in D!Ahead
    BY <1>3, LastPlaceType DEF D!Ahead
  <2> QED BY <1>2, <1>3, <2>1
<1>5. \A q : q \in D!Seen(p + 1) <=>
               q \in Nat /\ q < p + 1 /\ D!Visited(q) /\ D!At(q) # Absent
  BY DEF D!Seen
<1>6. \A q : q \in D!Seen(cursor) <=>
               q \in Nat /\ q < cursor /\ D!Visited(q) /\ D!At(q) # Absent
  BY DEF D!Seen
<1>7. \A q \in Nat : q < p + 1 <=> q < cursor \/ (cursor <= q /\ q < p) \/ q = p
  BY <1>3
<1>8. \A q : q \in D!Seen(p + 1) <=> q \in D!Seen(cursor) \/ (q = p /\ D!At(p) # Absent)
  BY <1>3, <1>4, <1>5, <1>6, <1>7
<1>9. D!Seen(p + 1) = IF D!At(p) = Absent THEN D!Seen(cursor) ELSE D!Seen(cursor) \cup {p}
  BY <1>8
<1> QED BY <1>3, <1>9

LEMMA WalkEnds ==
  ASSUME cursor \in Nat, cursor <= D!LastPlace + 1, D!Ahead = {}
  PROVE  D!Seen(D!LastPlace + 1) = D!Seen(cursor)
<1>1. PICK last \in Int : last = D!LastPlace /\ last + 1 \in Nat
  BY LastPlaceType
<1>2. \A q \in Nat : cursor <= q /\ q <= last => ~D!Visited(q)
  BY <1>1 DEF D!Ahead
<1>3. \A q : q \in D!Seen(last + 1) <=>
               q \in Nat /\ q < last + 1 /\ D!Visited(q) /\ D!At(q) # Absent
  BY <1>1 DEF D!Seen
<1>4. \A q : q \in D!Seen(cursor) <=>
               q \in Nat /\ q < cursor /\ D!Visited(q) /\ D!At(q) # Absent
  BY DEF D!Seen
<1>5. \A q \in Nat : q < last + 1 <=> q < cursor \/ (cursor <= q /\ q <= last)
  BY <1>1
<1>6. \A q : q \in D!Seen(last + 1) <=> q \in D!Seen(cursor)
  BY <1>2, <1>3, <1>4, <1>5
<1> QED BY <1>1, <1>6

LEMMA SeenGrows ==
  ASSUME NEW q \in Nat, q <= D!LastPlace + 1
  PROVE  Cardinality(D!Seen(q)) <= Cardinality(D!Seen(D!LastPlace + 1))
<1>1. PICK last \in Nat : last = D!LastPlace + 1
  BY LastPlaceType
<1>2. D!Seen(q) \in SUBSET D!Seen(last)
  BY <1>1 DEF D!Seen
<1>3. IsFiniteSet(D!Seen(last))
  BY SeenFinite
<1> QED BY <1>1, <1>2, <1>3, FS_Subset

(* What the walk sees depends on the buses and the MCFG alone.             *)
LEMMA SeenAlike ==
  ASSUME hw' = hw
  PROVE  /\ \A q : D!Seen(q)' = D!Seen(q)
         /\ \A p : D!At(p)' = D!At(p)
         /\ D!LastPlace' = D!LastPlace
<1>1. \A s, f : D!Fn(s, f)' = D!Fn(s, f)
  BY DEF D!Fn
<1>2. \A p : D!At(p)' = D!At(p)
  BY <1>1 DEF D!At
<1>3. \A p : D!Visited(p)' <=> D!Visited(p)
  BY <1>1 DEF D!Visited, D!FuncCount
<1>4. \A q : D!Seen(q)' = D!Seen(q)
  BY <1>2, <1>3 DEF D!Seen
<1>5. D!LastPlace' = D!LastPlace
  BY DEF D!LastPlace
<1> QED BY <1>2, <1>4, <1>5

LEMMA TablesAlike ==
  ASSUME rsdp' = rsdp
  PROVE  D!FindTable(rsdp, "MCFG")' = D!FindTable(rsdp, "MCFG") /\ UNCHANGED <<D!Missing, D!Invalid>>
BY DEF D!FindTable, D!Missing, D!Invalid, D!Suits

LEMMA EntryAlike ==
  ASSUME UNCHANGED <<hw, Mcfg>>
  PROVE  \A p : D!Entry(D!At(p))' = D!Entry(D!At(p))
<1>1. \A s, f : D!Fn(s, f)' = D!Fn(s, f)
  BY DEF D!Fn
<1> QED BY <1>1 DEF D!Entry, D!Ecam, D!Covering, D!InSpace, D!At

-----------------------------------------------------------------------------
(* The two walks.                                                          *)

LEMMA InitWalk == Init => PciInv
<1> SUFFICES ASSUME Init PROVE D!PciInv
  BY DEF PciInv
<1>1. /\ hw \in Buses /\ rsdp \in Rsdps /\ phase = "boot" /\ cursor = 0 /\ idx = 0
      /\ device_count = 0
  BY DEF Init, D!Init, D!PciInit
<1> QED BY <1>1, LastPlaceType DEF D!PciInv, D!PciType

LEMMA StartWalkKeeps == PciInv /\ D!StartWalk => PciInv'
<1> SUFFICES ASSUME D!PciInv, D!StartWalk PROVE D!PciInv'
  BY DEF PciInv
<1>1. /\ phase = "boot" /\ Mcfg' = D!FindTable(rsdp, "MCFG").body
      /\ phase' = IF D!FindTable(rsdp, "MCFG") \in {D!Missing, D!Invalid} THEN "fault" ELSE "count"
      /\ UNCHANGED <<hw, rsdp, cursor, idx, device_count>>
  BY DEF D!StartWalk
<1>2. /\ hw \in Buses /\ rsdp \in Rsdps /\ cursor = 0 /\ device_count = 0 /\ idx = 0
  BY <1>1 DEF D!PciInv, D!PciType
<1>3. D!FindTable(rsdp, "MCFG")' = D!FindTable(rsdp, "MCFG") /\ UNCHANGED <<D!Missing, D!Invalid>>
  BY <1>1, TablesAlike
<1>4. D!Seen(0)' = {} /\ Cardinality({}) = 0
  BY FS_EmptySet DEF D!Seen
<1>5. D!PciType'
  BY <1>1, <1>2, <1>3, LastPlaceType, SeenAlike DEF D!PciType
<1>6. D!Seen(cursor)' = D!Seen(0)'
  BY <1>1, <1>2
<1>7. ~(phase' \in {"store", "listed"}) /\ phase' # "listed"
  BY <1>1
<1>8. device_count' = 0 /\ Cardinality(D!Seen(cursor)') = 0
  BY <1>1, <1>2, <1>4, <1>6
<1> QED BY <1>5, <1>7, <1>8, SizeAlike DEF D!PciInv

LEMMA CountFunctionKeeps == PciInv /\ D!CountFunction => PciInv'
<1> SUFFICES ASSUME D!PciInv, D!CountFunction PROVE D!PciInv'
  BY DEF PciInv
<1>1. /\ phase = "count" /\ D!Ahead # {} /\ cursor' = D!Place + 1
      /\ device_count' = device_count + D!One(D!At(D!Place))
      /\ UNCHANGED <<hw, rsdp, phase, Mcfg, idx, device_set>>
  BY DEF D!CountFunction
<1>2. D!PciType /\ device_count = Cardinality(D!Seen(cursor)) /\ cursor \in Nat
      /\ device_count \in Nat
  <2>1. D!PciType /\ device_count = Cardinality(D!Seen(cursor))
    BY <1>1, SizeAlike DEF D!PciInv
  <2> QED BY <2>1 DEF D!PciType
<1>3. PICK p \in Nat :
        /\ p = D!Place /\ cursor <= p /\ p <= D!LastPlace
        /\ D!Seen(p + 1) = IF D!At(p) = Absent THEN D!Seen(cursor) ELSE D!Seen(cursor) \cup {p}
  BY <1>1, <1>2, WalkOn
<1>4. device_count' = Cardinality(D!Seen(p + 1)) /\ device_count' \in Nat
  <2>1. p \notin D!Seen(cursor) /\ IsFiniteSet(D!Seen(cursor))
    BY <1>2, <1>3, SeenFinite
  <2>2. Cardinality(D!Seen(cursor) \cup {p}) = Cardinality(D!Seen(cursor)) + 1
    BY <2>1, FS_AddElement
  <2> QED BY <1>1, <1>2, <1>3, <2>2 DEF D!One
<1>5. D!Seen(cursor)' = D!Seen(p + 1)
  <2>1. \A q : D!Seen(q)' = D!Seen(q)
    BY <1>1, SeenAlike
  <2>2. cursor' = p + 1
    BY <1>1, <1>3
  <2>3. D!Seen(cursor)' = D!Seen(cursor')
    BY <1>1, <2>1 DEF D!Seen, D!Visited, D!At, D!Fn, D!FuncCount
  <2> QED BY <2>2, <2>3
<1>6. D!PciType'
  <2>1. /\ D!FindTable(rsdp, "MCFG")' = D!FindTable(rsdp, "MCFG") /\ UNCHANGED <<D!Missing, D!Invalid>>
        /\ D!LastPlace' = D!LastPlace
    BY <1>1, SeenAlike, TablesAlike
  <2>2. cursor' \in Nat /\ cursor' <= D!LastPlace + 1
    BY <1>1, <1>3, LastPlaceType
  <2> QED BY <1>1, <1>2, <1>4, <2>1, <2>2 DEF D!PciType
<1>7. phase' = "count"
  BY <1>1
<1> QED BY <1>4, <1>5, <1>6, <1>7, SizeAlike DEF D!PciInv

LEMMA CountDoneKeeps == PciInv /\ D!CountDone => PciInv'
<1> SUFFICES ASSUME D!PciInv, D!CountDone PROVE D!PciInv'
  BY DEF PciInv
<1>1. /\ phase = "count" /\ D!Ahead = {} /\ phase' = "store" /\ cursor' = 0
      /\ device_set' = [i \in 0 .. device_count |-> Absent]
      /\ UNCHANGED <<hw, rsdp, Mcfg, idx, device_count>>
  BY DEF D!CountDone
<1>2. /\ D!PciType /\ device_count = Cardinality(D!Seen(cursor)) /\ cursor \in Nat
      /\ device_count \in Nat /\ cursor <= D!LastPlace + 1 /\ idx = 0
  <2>1. D!PciType /\ device_count = Cardinality(D!Seen(cursor))
    BY <1>1, SizeAlike DEF D!PciInv
  <2> QED BY <1>1, <2>1 DEF D!PciType
<1>3. D!Seen(D!LastPlace + 1)' = D!Seen(cursor)
  <2>1. D!Seen(D!LastPlace + 1) = D!Seen(cursor)
    BY <1>1, <1>2, WalkEnds
  <2>2. D!Seen(D!LastPlace + 1)' = D!Seen(D!LastPlace + 1)
    BY <1>1 DEF D!Seen, D!Visited, D!At, D!Fn, D!FuncCount, D!LastPlace
  <2> QED BY <2>1, <2>2
<1>4. D!Seen(cursor)' = {}
  BY <1>1 DEF D!Seen
<1>5. D!Stored'
  <2>1. idx' = 0 /\ Cardinality(D!Seen(cursor)') = 0
    BY <1>1, <1>2, <1>4, FS_EmptySet
  <2>2. 0 .. idx' - 1 = {}
    BY <2>1
  <2> QED BY <1>4, <2>1, <2>2, SizeAlike DEF D!Stored
<1>6. D!PciType'
  <2>1. /\ D!FindTable(rsdp, "MCFG")' = D!FindTable(rsdp, "MCFG") /\ UNCHANGED <<D!Missing, D!Invalid>>
        /\ D!LastPlace' = D!LastPlace
    BY <1>1, SeenAlike, TablesAlike
  <2> QED BY <1>1, <1>2, <2>1, LastPlaceType DEF D!PciType
<1>7. DOMAIN device_set' = 0 .. device_count'
  BY <1>1
<1> QED BY <1>1, <1>2, <1>3, <1>5, <1>6, <1>7, SizeAlike DEF D!PciInv

(* What the second walk has written is what it has seen, once each, whether *)
(* or not the place it has come to holds a function.                       *)
LEMMA StoreFunctionKeeps == PciInv /\ D!StoreFunction => PciInv'
<1> SUFFICES ASSUME D!PciInv, D!StoreFunction PROVE D!PciInv'
  BY DEF PciInv
<1>1. /\ phase = "store" /\ D!Ahead # {} /\ cursor' = D!Place + 1
      /\ device_set' = [device_set EXCEPT ![idx] = D!Entry(D!At(D!Place))]
      /\ idx' = idx + D!One(D!At(D!Place))
      /\ UNCHANGED <<hw, rsdp, phase, Mcfg, device_count>>
  BY DEF D!StoreFunction
<1>2. /\ D!PciType /\ D!Stored /\ device_count = Cardinality(D!Seen(D!LastPlace + 1))
      /\ DOMAIN device_set = 0 .. device_count
  BY <1>1, SizeAlike DEF D!PciInv
<1>3. /\ cursor \in Nat /\ cursor <= D!LastPlace + 1 /\ device_count \in Nat /\ idx \in Nat
      /\ hw \in Buses /\ idx = Cardinality(D!Seen(cursor))
  <2>1. idx = Cardinality(D!Seen(cursor))
    BY <1>2, SizeAlike DEF D!Stored
  <2> QED BY <1>2, <2>1 DEF D!PciType
<1>4. PICK p \in Nat :
        /\ p = D!Place /\ cursor <= p /\ p <= D!LastPlace
        /\ D!Seen(p + 1) = IF D!At(p) = Absent THEN D!Seen(cursor) ELSE D!Seen(cursor) \cup {p}
  BY <1>1, <1>3, WalkOn
<1>5. idx \in DOMAIN device_set
  BY <1>2, <1>3, SeenGrows
<1> DEFINE e == D!Entry(D!At(p))
<1>6. /\ device_set'[idx] = e /\ DOMAIN device_set' = 0 .. device_count
      /\ \A i \in 0 .. idx - 1 : device_set'[i] = device_set[i]
  <2>1. \A i \in 0 .. idx - 1 : i \in 0 .. device_count /\ i # idx
    BY <1>2, <1>3, <1>5
  <2> QED BY <1>1, <1>2, <1>4, <1>5, <2>1
<1>7. /\ \A q : D!Seen(q)' = D!Seen(q)
      /\ D!Seen(cursor)' = D!Seen(p + 1)
      /\ D!Seen(D!LastPlace + 1)' = D!Seen(D!LastPlace + 1)
      /\ \A q : D!Entry(D!At(q))' = D!Entry(D!At(q))
      /\ D!LastPlace' = D!LastPlace
  <2>1. /\ \A q : D!Seen(q)' = D!Seen(q) /\ D!At(q)' = D!At(q)
        /\ D!LastPlace' = D!LastPlace
    BY <1>1, SeenAlike
  <2>3. cursor' = p + 1
    BY <1>1, <1>4
  <2>4. /\ D!Seen(cursor)' = D!Seen(cursor')
        /\ D!Seen(D!LastPlace + 1)' = D!Seen(D!LastPlace + 1)
    BY <1>1 DEF D!Seen, D!Visited, D!At, D!Fn, D!FuncCount, D!LastPlace
  <2>5. \A q : D!Entry(D!At(q))' = D!Entry(D!At(q))
    BY <1>1, EntryAlike
  <2> QED BY <2>1, <2>3, <2>4, <2>5
<1>8. \A q \in D!Seen(cursor) : q \in Nat /\ q # p /\ D!At(q) # Absent
  BY <1>3, <1>4, SeenFinite
<1>9. /\ \A q \in D!Seen(cursor) : \E i \in 0 .. idx - 1 : device_set[i] = D!Entry(D!At(q))
      /\ \A i \in 0 .. idx - 1 : \E q \in D!Seen(cursor) : device_set[i] = D!Entry(D!At(q))
      /\ \A i, j \in 0 .. idx - 1 : \A q \in D!Seen(cursor) :
           device_set[i] = D!Entry(D!At(q)) /\ device_set[j] = D!Entry(D!At(q)) => i = j
  BY <1>2 DEF D!Stored
<1>10. idx' \in Nat /\ idx' = Cardinality(D!Seen(p + 1))
  <2>1. p \notin D!Seen(cursor) /\ IsFiniteSet(D!Seen(cursor))
    BY <1>3, <1>8, SeenFinite
  <2>2. Cardinality(D!Seen(cursor) \cup {p}) = Cardinality(D!Seen(cursor)) + 1
    BY <2>1, FS_AddElement
  <2> QED BY <1>1, <1>3, <1>4, <2>2 DEF D!One
<1>11. /\ \A q \in D!Seen(p + 1) : \E i \in 0 .. idx' - 1 : device_set'[i] = D!Entry(D!At(q))
       /\ \A i \in 0 .. idx' - 1 : \E q \in D!Seen(p + 1) : device_set'[i] = D!Entry(D!At(q))
       /\ \A i, j \in 0 .. idx' - 1 : \A q \in D!Seen(p + 1) :
            device_set'[i] = D!Entry(D!At(q)) /\ device_set'[j] = D!Entry(D!At(q)) => i = j
  <2>1. CASE D!At(p) = Absent
    <3>1. idx' = idx /\ D!Seen(p + 1) = D!Seen(cursor)
      BY <1>1, <1>3, <1>4, <2>1 DEF D!One
    <3> QED BY <1>6, <1>9, <3>1
  <2>2. CASE D!At(p) # Absent
    <3>1. /\ idx' = idx + 1 /\ D!Seen(p + 1) = D!Seen(cursor) \cup {p}
      BY <1>1, <1>3, <1>4, <2>2 DEF D!One
    <3>2. 0 .. idx' - 1 = (0 .. idx - 1) \cup {idx} /\ idx \notin 0 .. idx - 1
      BY <1>3, <3>1
    <3>3. \A q \in D!Seen(cursor) : D!Entry(D!At(q)) # e
      BY <1>3, <1>8, <2>2, EntriesApart
    <3> HIDE DEF e
    <3>4. e = D!Entry(D!At(p))
      BY DEF e
    <3>5. ASSUME NEW q \in D!Seen(p + 1)
          PROVE  \E i \in 0 .. idx' - 1 : device_set'[i] = D!Entry(D!At(q))
      BY <1>6, <1>9, <3>1, <3>2, <3>4
    <3>6. ASSUME NEW i \in 0 .. idx' - 1
          PROVE  \E q \in D!Seen(p + 1) : device_set'[i] = D!Entry(D!At(q))
      BY <1>6, <1>9, <3>1, <3>2, <3>4
    <3>7. ASSUME NEW i \in 0 .. idx' - 1, NEW j \in 0 .. idx' - 1, NEW q \in D!Seen(p + 1),
                 device_set'[i] = D!Entry(D!At(q)), device_set'[j] = D!Entry(D!At(q))
          PROVE  i = j
      <4>1. CASE q = p
        <5>1. \A k \in 0 .. idx - 1 : device_set'[k] # e
          BY <1>6, <1>9, <3>3
        <5> QED BY <3>2, <3>4, <3>7, <4>1, <5>1
      <4>2. CASE q \in D!Seen(cursor)
        <5>1. device_set'[idx] # D!Entry(D!At(q))
          BY <1>6, <3>3, <4>2
        <5> QED BY <1>6, <1>9, <3>2, <3>7, <4>2, <5>1
      <4> QED BY <3>1, <4>1, <4>2
    <3> QED BY <3>5, <3>6, <3>7
  <2> QED BY <2>1, <2>2
<1>12. D!Stored'
  BY <1>7, <1>10, <1>11, SizeAlike DEF D!Stored
<1>13. D!PciType'
  <2>1. D!FindTable(rsdp, "MCFG")' = D!FindTable(rsdp, "MCFG") /\ UNCHANGED <<D!Missing, D!Invalid>>
    BY <1>1, TablesAlike
  <2>2. cursor' \in Nat /\ cursor' <= D!LastPlace + 1
    BY <1>1, <1>4, LastPlaceType
  <2> QED BY <1>1, <1>2, <1>7, <1>10, <2>1, <2>2 DEF D!PciType
<1>14. /\ phase' = "store" /\ DOMAIN device_set' = 0 .. device_count'
       /\ device_count' = Cardinality(D!Seen(D!LastPlace + 1)')
  BY <1>1, <1>2, <1>6, <1>7
<1> QED BY <1>12, <1>13, <1>14, SizeAlike DEF D!PciInv

(* The same in a step that leaves the walk where it is.                    *)
LEMMA WalkAlike ==
  ASSUME UNCHANGED <<hw, rsdp, Mcfg, cursor, idx, device_count, device_set>>
  PROVE  /\ D!Stored' <=> D!Stored
         /\ D!Seen(cursor)' = D!Seen(cursor) /\ D!Ahead' = D!Ahead
         /\ D!Seen(D!LastPlace + 1)' = D!Seen(D!LastPlace + 1)
         /\ D!LastPlace' = D!LastPlace
         /\ D!FindTable(rsdp, "MCFG")' = D!FindTable(rsdp, "MCFG") /\ UNCHANGED <<D!Missing, D!Invalid>>
<1>1. \A s, f : D!Fn(s, f)' = D!Fn(s, f)
  BY DEF D!Fn
<1>2. /\ \A q : D!Seen(q)' = D!Seen(q)
      /\ D!LastPlace' = D!LastPlace
  BY SeenAlike
<1>3. /\ D!Seen(cursor)' = D!Seen(cursor)
      /\ D!Seen(D!LastPlace + 1)' = D!Seen(D!LastPlace + 1)
  BY <1>1 DEF D!Seen, D!Visited, D!At, D!FuncCount, D!LastPlace
<1>4. D!Ahead' = D!Ahead
  BY <1>1, <1>2 DEF D!Ahead, D!Visited, D!FuncCount
<1>5. \A q : D!Entry(D!At(q))' = D!Entry(D!At(q))
  BY EntryAlike
<1>6. D!Stored' <=> D!Stored
  <2>1. /\ idx' = idx /\ device_set' = device_set
        /\ D!Cardinality(D!Seen(cursor)') = D!Cardinality(D!Seen(cursor))
    BY <1>3
  <2>2. (idx = D!Cardinality(D!Seen(cursor)))' <=> idx = D!Cardinality(D!Seen(cursor))
    BY <2>1
  <2>3. /\ (\A p \in D!Seen(cursor) : \E i \in 0 .. idx - 1 : device_set[i] = D!Entry(D!At(p)))'
             <=> \A p \in D!Seen(cursor) : \E i \in 0 .. idx - 1 : device_set[i] = D!Entry(D!At(p))
        /\ (\A i \in 0 .. idx - 1 : \E p \in D!Seen(cursor) : device_set[i] = D!Entry(D!At(p)))'
             <=> \A i \in 0 .. idx - 1 : \E p \in D!Seen(cursor) : device_set[i] = D!Entry(D!At(p))
    BY <1>3, <1>5, <2>1
  <2>4. (\A i, j \in 0 .. idx - 1 : \A p \in D!Seen(cursor) :
           device_set[i] = D!Entry(D!At(p)) /\ device_set[j] = D!Entry(D!At(p)) => i = j)'
          <=> \A i, j \in 0 .. idx - 1 : \A p \in D!Seen(cursor) :
                device_set[i] = D!Entry(D!At(p)) /\ device_set[j] = D!Entry(D!At(p)) => i = j
    BY <1>3, <1>5, <2>1
  <2> QED BY <2>2, <2>3, <2>4 DEF D!Stored
<1> QED BY <1>2, <1>3, <1>4, <1>6, TablesAlike

LEMMA StoreDoneKeeps == PciInv /\ D!StoreDone => PciInv'
<1> SUFFICES ASSUME D!PciInv, D!StoreDone PROVE D!PciInv'
  BY DEF PciInv
<1>1. /\ phase = "store" /\ D!Ahead = {} /\ phase' = "listed"
      /\ UNCHANGED <<hw, rsdp, Mcfg, cursor, idx, device_count, device_set>>
  BY DEF D!StoreDone
<1>2. /\ D!PciType /\ D!Stored /\ device_count = Cardinality(D!Seen(D!LastPlace + 1))
      /\ DOMAIN device_set = 0 .. device_count
  BY <1>1, SizeAlike DEF D!PciInv
<1>3. D!PciType'
  BY <1>1, <1>2, WalkAlike DEF D!PciType
<1>4. /\ D!Stored' /\ D!Ahead' = {} /\ DOMAIN device_set' = 0 .. device_count'
      /\ device_count' = Cardinality(D!Seen(D!LastPlace + 1)')
  BY <1>1, <1>2, WalkAlike
<1> QED BY <1>1, <1>3, <1>4, SizeAlike DEF D!PciInv

LEMMA PciStep == PciInv /\ [Next]_vars => PciInv'
<1> SUFFICES ASSUME PciInv, [Next]_vars PROVE PciInv'
  OBVIOUS
<1>1. CASE UNCHANGED <<hw, rsdp, phase, Mcfg, cursor, idx, device_count, device_set>>
  <2>1. UNCHANGED <<hw, rsdp, Mcfg, cursor, idx, device_count, device_set>> /\ phase' = phase
    BY <1>1
  <2>2. D!PciInv
    BY DEF PciInv
  <2>3. D!PciType'
    BY <2>1, <2>2, WalkAlike DEF D!PciType, D!PciInv
  <2>4. D!PciInv'
    BY <2>1, <2>2, <2>3, WalkAlike DEF D!PciInv
  <2> QED BY <2>4 DEF PciInv
<1>2. CASE D!PciNext
  BY <1>2, StartWalkKeeps, CountFunctionKeeps, CountDoneKeeps, StoreFunctionKeeps,
     StoreDoneKeeps DEF D!PciNext
<1>3. CASE D!Next
  BY <1>1, <1>2, <1>3 DEF D!Next, D!IgfxNext, D!Match, D!CheckHotplug, D!ReadChunk,
     D!SetUpDisplay, D!Unplug, D!Plug, D!pci
<1>4. CASE UNCHANGED devices
  BY <1>1, <1>4 DEF devices
<1> QED
  BY <1>3, <1>4
  DEF Next, vars, SetBootInfo, PmemInit, AcpiIntrInit, IoapicInit, MapLine, MaskLine, Devices

-----------------------------------------------------------------------------
(* The configuration spaces.                                               *)

CoveredBy(e, s) == e.first <= s \div DevicesPerBus /\ s \div DevicesPerBus <= e.last

(* The space of a function lies in the one of the entry that covers it, as *)
(* far from its start as the function's place is from the first bus's.     *)
LEMMA SpaceWithin ==
  ASSUME NEW e, {e.base, e.first, e.last} \subseteq Nat, e.first <= e.last,
         NEW s \in Nat, NEW f \in Nat, f < FunctionsPerDevice, CoveredBy(e, s)
  PROVE  \E a \in Nat, b \in Nat :
           /\ b = a * FunctionsPerDevice + f /\ b < SpaceOf(e)
           /\ s = e.first * DevicesPerBus + a
           /\ D!InSpace(e, s, f) = e.base + b
<1>1. PICK n \in Nat \ {0}, d \in Nat \ {0}, x \in Nat, y \in Nat, z \in Nat :
        /\ n = FunctionsPerDevice /\ d = DevicesPerBus
        /\ x = e.base /\ y = e.first /\ z = e.last
  BY PciAssumption
<1>2. PICK q \in Nat, r \in Nat : q = s \div d /\ r = s % d /\ s = q * d + r /\ r < d
  BY Quotient
<1>3. y <= q /\ q <= z
  BY <1>1, <1>2 DEF CoveredBy
<1>4. PICK k \in Nat : q = y + k
  BY <1>3
<1>5. PICK a \in Nat : a = k * d + r
  OBVIOUS
<1>6. s = y * d + a
  <2>1. q * d = y * d + k * d
    BY <1>4
  <2> QED BY <1>2, <1>5, <2>1
<1>7. PICK b \in Nat : b = a * n + f
  OBVIOUS
<1>8. D!InSpace(e, s, f) = x + b
  <2>1. (q - y) * d + r = a
    BY <1>4, <1>5
  <2>2. D!InSpace(e, s, f) = x + ((q - y) * d + r) * n + f
    BY <1>1, <1>2 DEF D!InSpace
  <2>3. PICK u \in Int : u = a * n
    OBVIOUS
  <2> QED BY <1>7, <2>1, <2>2, <2>3
<1>9. b < SpaceOf(e)
  <2>1. PICK m \in Int : m = (z - y + 1) * d
    OBVIOUS
  <2>2. a + 1 <= m
    <3>1. (k + 1) * d <= (z - y + 1) * d
      <4>1. k + 1 < z - y + 1 \/ k + 1 = z - y + 1
        BY <1>3, <1>4
      <4> QED BY <4>1, Multiples
    <3>2. (k + 1) * d = k * d + d
      OBVIOUS
    <3>3. PICK v \in Int : v = k * d
      OBVIOUS
    <3> QED BY <1>2, <1>5, <2>1, <3>1, <3>2, <3>3
  <2>3. (a + 1) * n <= m * n
    <3>1. a + 1 < m \/ a + 1 = m
      BY <2>2
    <3> QED BY <3>1, Multiples
  <2>4. SpaceOf(e) = m * n
    BY <1>1, <2>1 DEF SpaceOf
  <2>5. (a + 1) * n = a * n + n
    OBVIOUS
  <2>6. PICK u \in Int, w \in Int : u = a * n /\ w = m * n
    OBVIOUS
  <2> QED BY <1>1, <1>7, <2>3, <2>4, <2>5, <2>6
<1> QED BY <1>1, <1>6, <1>7, <1>8, <1>9

(* The entries of the MCFG that was found, as PciAssumption describes them. *)
LEMMA McfgEntries ==
  ASSUME rsdp \in Rsdps, Mcfg = D!FindTable(rsdp, "MCFG").body
  PROVE  /\ DOMAIN Mcfg \subseteq Nat
         /\ \A i, j \in DOMAIN Mcfg :
              /\ {Mcfg[i].base, Mcfg[i].first, Mcfg[i].last} \subseteq Nat
              /\ Mcfg[i].first <= Mcfg[i].last
              /\ i # j => \/ Mcfg[i].base + SpaceOf(Mcfg[i]) <= Mcfg[j].base
                          \/ Mcfg[j].base + SpaceOf(Mcfg[j]) <= Mcfg[i].base
BY PciAssumption

LEMMA CoveringIs ==
  ASSUME rsdp \in Rsdps, Mcfg = D!FindTable(rsdp, "MCFG").body, NEW s \in Nat
  PROVE  D!Covering(s) = {i \in DOMAIN Mcfg : CoveredBy(Mcfg[i], s)}
<1>1. s \div DevicesPerBus \in Nat
  BY PciAssumption, Quotient
<1>2. \A i \in DOMAIN Mcfg : Mcfg[i].first \in Nat /\ Mcfg[i].last \in Nat
  BY McfgEntries
<1> QED BY <1>1, <1>2 DEF D!Covering, CoveredBy

(* No two functions share a configuration space.                           *)
LEMMA SpacesApart ==
  ASSUME rsdp \in Rsdps, Mcfg = D!FindTable(rsdp, "MCFG").body,
         NEW s \in Nat, NEW f \in Nat, f < FunctionsPerDevice,
         NEW t \in Nat, NEW g \in Nat, g < FunctionsPerDevice,
         NEW i \in DOMAIN Mcfg, NEW j \in DOMAIN Mcfg,
         CoveredBy(Mcfg[i], s), CoveredBy(Mcfg[j], t),
         D!InSpace(Mcfg[i], s, f) = D!InSpace(Mcfg[j], t, g)
  PROVE  s = t /\ f = g
<1>0. \A k \in DOMAIN Mcfg : /\ {Mcfg[k].base, Mcfg[k].first, Mcfg[k].last} \subseteq Nat
                               /\ Mcfg[k].first <= Mcfg[k].last
  BY McfgEntries
<1>1. PICK a \in Nat, b \in Nat :
        /\ b = a * FunctionsPerDevice + f /\ b < SpaceOf(Mcfg[i])
        /\ s = Mcfg[i].first * DevicesPerBus + a
        /\ D!InSpace(Mcfg[i], s, f) = Mcfg[i].base + b
  BY <1>0, SpaceWithin
<1>2. PICK c \in Nat, e \in Nat :
        /\ e = c * FunctionsPerDevice + g /\ e < SpaceOf(Mcfg[j])
        /\ t = Mcfg[j].first * DevicesPerBus + c
        /\ D!InSpace(Mcfg[j], t, g) = Mcfg[j].base + e
  BY <1>0, SpaceWithin
<1>3. i = j
  <2> SUFFICES ASSUME i # j PROVE FALSE
    OBVIOUS
  <2>1. \/ Mcfg[i].base + SpaceOf(Mcfg[i]) <= Mcfg[j].base
        \/ Mcfg[j].base + SpaceOf(Mcfg[j]) <= Mcfg[i].base
    BY McfgEntries
  <2>2. PICK x \in Nat, y \in Nat : x = Mcfg[i].base /\ y = Mcfg[j].base
    BY McfgEntries
  <2>3. \A k \in DOMAIN Mcfg : SpaceOf(Mcfg[k]) \in Int
    <3> SUFFICES ASSUME NEW k \in DOMAIN Mcfg PROVE SpaceOf(Mcfg[k]) \in Int
      OBVIOUS
    <3>1. PICK u \in Nat, v \in Nat, d \in Nat, n \in Nat :
            /\ u = Mcfg[k].first /\ v = Mcfg[k].last
            /\ d = DevicesPerBus /\ n = FunctionsPerDevice
      BY McfgEntries, PciAssumption
    <3>2. (v - u + 1) * d * n \in Int
      OBVIOUS
    <3> QED BY <3>1, <3>2 DEF SpaceOf
  <2>4. PICK k \in Int, l \in Int : k = SpaceOf(Mcfg[i]) /\ l = SpaceOf(Mcfg[j])
    BY <2>3
  <2>5. x + b = y + e
    BY <1>1, <1>2, <2>2
  <2> QED BY <1>1, <1>2, <2>1, <2>2, <2>4, <2>5
<1>4. b = e
  <2>1. PICK x \in Nat : x = Mcfg[i].base
    BY McfgEntries
  <2>2. x + b = x + e
    BY <1>1, <1>2, <1>3, <2>1
  <2> QED BY <2>2
<1>5. PICK n \in Nat \ {0} : n = FunctionsPerDevice
  BY PciAssumption
<1>6. a = c /\ f = g
  <2>1. /\ (a * n + f) \div n = a /\ (a * n + f) % n = f
        /\ (c * n + g) \div n = c /\ (c * n + g) % n = g
    BY <1>5, QuotientIs
  <2>2. a * n + f = c * n + g
    BY <1>1, <1>2, <1>4, <1>5
  <2> QED BY <2>1, <2>2
<1> QED BY <1>1, <1>2, <1>3, <1>6

(* The search takes the first intact MCFG of the root table that it is to  *)
(* take, the one that the specification means.                             *)
LEMMA FirstIntact ==
  ASSUME rsdp \in Rsdps, D!FindTable(rsdp, "MCFG") \notin {D!Missing, D!Invalid},
         Mcfg = D!FindTable(rsdp, "MCFG").body, NEW s \in Nat, NEW f
  PROVE  D!Announced(s, f) = {D!InSpace(Mcfg[i], s, f) : i \in D!Covering(s)}
<1> DEFINE root   == IF rsdp.revision # 0 /\ rsdp.xsdt # D!Missing THEN rsdp.xsdt ELSE rsdp.rsdt
           intact == {i \in DOMAIN root.body : root.body[i].sig = "MCFG" /\ root.body[i].good}
           first  == {i \in intact : \A j \in intact : i <= j}
           least  == CHOOSE i \in intact : \A j \in intact : i <= j
<1>1. intact # {} /\ D!FindTable(rsdp, "MCFG") = root.body[least]
  BY DEF D!FindTable, D!Suits
<1>2. intact \subseteq Nat
  BY PciAssumption
<1>3. least \in intact /\ \A j \in intact : least <= j
  <2> HIDE DEF intact
  <2> QED BY <1>1, <1>2, LeastMember DEF D!Min
<1>4. first = {least}
  <2>1. least \in first
    BY <1>3
  <2>2. \A i \in first : i \in Nat /\ i <= least /\ least <= i /\ least \in Nat
    BY <1>2, <1>3
  <2> HIDE DEF least, intact, first
  <2>3. \A i \in first : i = least
    BY <2>2
  <2> QED BY <2>1, <2>3
<1>5. D!Announced(s, f) =
        {D!InSpace(e, s, f) : e \in {x \in UNION {D!ToSet(root.body[i].body) : i \in first} :
           x.first <= s \div DevicesPerBus /\ s \div DevicesPerBus <= x.last}}
  BY DEF D!Announced
<1>6. UNION {D!ToSet(root.body[i].body) : i \in first} = {Mcfg[i] : i \in DOMAIN Mcfg}
  <2> HIDE DEF first, least, root, intact
  <2> QED BY <1>1, <1>4 DEF D!ToSet
<1> HIDE DEF first, least, root, intact
<1>7. {x \in UNION {D!ToSet(root.body[i].body) : i \in first} :
          x.first <= s \div DevicesPerBus /\ s \div DevicesPerBus <= x.last}
        = {Mcfg[i] : i \in D!Covering(s)}
  BY <1>6, CoveringIs DEF CoveredBy
<1> QED BY <1>5, <1>7
-----------------------------------------------------------------------------
(* Every function that the walk is to find is in the list once, with the   *)
(* configuration space that the tables of the firmware announce for it,    *)
(* whatever is plugged in and whichever tables there are.                  *)
THEOREM PciFound == Spec => []PciListed
<1>1. PciInv => PciListed
  <2> DEFINE list   == 0 .. device_count - 1
             there  == {r \in hw : D!Fn(r.slot, 0) # Absent /\ r.fn < D!FuncCount(r.slot)}
             seen_  == D!Seen(cursor)
             d(i)   == device_set[i]
  <2> SUFFICES ASSUME D!PciInv, phase = "listed"
               PROVE  /\ idx = device_count
                      /\ {<<d(i).slot, d(i).fn, d(i).vendor, d(i).id>> : i \in list}
                           = {<<r.slot, r.fn, r.vendor, r.id>> : r \in there}
                      /\ \A i, j \in list : i # j => <<d(i).slot, d(i).fn>> # <<d(j).slot, d(j).fn>>
                      /\ \A i \in list :
                           IF D!Announced(d(i).slot, d(i).fn) = {} THEN d(i).ecam_addr = Absent
                           ELSE d(i).ecam_addr \in D!Announced(d(i).slot, d(i).fn)
                      /\ \A i, j \in list :
                           i # j /\ d(i).ecam_addr # Absent => d(i).ecam_addr # d(j).ecam_addr
    BY DEF PciInv, PciListed, D!PciListed
  <2>1. /\ D!PciType /\ D!Stored /\ D!Ahead = {}
        /\ device_count = Cardinality(D!Seen(D!LastPlace + 1))
    BY SizeAlike DEF D!PciInv
  <2>2. /\ hw \in Buses /\ rsdp \in Rsdps /\ cursor \in Nat /\ cursor <= D!LastPlace + 1
        /\ Mcfg = D!FindTable(rsdp, "MCFG").body /\ D!FindTable(rsdp, "MCFG") \notin {D!Missing, D!Invalid}
        /\ idx \in Nat
    BY <2>1 DEF D!PciType
  <2>3. D!Seen(D!LastPlace + 1) = seen_
    BY <2>1, <2>2, WalkEnds
  <2>4. idx = device_count
    BY <2>1, <2>3, SizeAlike DEF D!Stored
  <2>5. /\ \A p \in seen_ : \E i \in list : d(i) = D!Entry(D!At(p))
        /\ \A i \in list : \E p \in seen_ : d(i) = D!Entry(D!At(p))
        /\ \A i, j \in list : \A p \in seen_ :
             d(i) = D!Entry(D!At(p)) /\ d(j) = D!Entry(D!At(p)) => i = j
    BY <2>1, <2>4 DEF D!Stored
  <2>6. ASSUME NEW p \in seen_
        PROVE  /\ p \in Nat /\ D!Visited(p) /\ D!At(p) \in hw /\ D!At(p) # Absent
               /\ D!At(p).slot = p \div FunctionsPerDevice
               /\ D!At(p).fn = p % FunctionsPerDevice
    <3>1. p \in Nat /\ D!At(p) # Absent /\ D!Visited(p)
      BY <2>2, SeenFinite DEF D!Seen
    <3> QED BY <2>2, <3>1, FunctionAt
  <2>7. ASSUME NEW p \in seen_
        PROVE  LET r == D!At(p) IN
               D!Entry(r) = [slot |-> r.slot, fn |-> r.fn, vendor |-> r.vendor, id |-> r.id,
                             ecam_addr |-> D!Ecam(r.slot, r.fn)]
    BY <2>6 DEF D!Entry
  <2>8. ASSUME NEW r \in there
        PROVE  \E p \in seen_ : D!At(p) = r
    <3>1. PICK p \in Nat : /\ p <= D!LastPlace /\ D!At(p) = r /\ r # Absent
                           /\ p \div FunctionsPerDevice = r.slot
                           /\ p % FunctionsPerDevice = r.fn
      BY <2>2, PlaceOfFunction
    <3>2. D!Visited(p)
      BY <3>1 DEF D!Visited
    <3>3. PICK q \in Nat : q = D!LastPlace + 1 /\ p \in 0 .. q - 1
      BY <3>1, LastPlaceType
    <3>4. p \in D!Seen(q)
      BY <3>1, <3>2, <3>3 DEF D!Seen
    <3> QED BY <2>3, <3>1, <3>3, <3>4
  <2>9. ASSUME NEW p \in seen_ PROVE D!At(p) \in there
    BY <2>6 DEF D!Visited
  <2> HIDE DEF seen_, there, list
  <2>10. {<<d(i).slot, d(i).fn, d(i).vendor, d(i).id>> : i \in list}
           = {<<r.slot, r.fn, r.vendor, r.id>> : r \in there}
    <3>1. ASSUME NEW i \in list
          PROVE  \E r \in there : /\ d(i).slot = r.slot /\ d(i).fn = r.fn
                                  /\ d(i).vendor = r.vendor /\ d(i).id = r.id
      <4>1. PICK p \in seen_ : d(i) = D!Entry(D!At(p))
        BY <2>5
      <4> QED BY <2>7, <2>9, <4>1
    <3>2. ASSUME NEW r \in there
          PROVE  \E i \in list : /\ d(i).slot = r.slot /\ d(i).fn = r.fn
                                 /\ d(i).vendor = r.vendor /\ d(i).id = r.id
      <4>1. PICK p \in seen_ : D!At(p) = r
        BY <2>8
      <4>2. PICK i \in list : d(i) = D!Entry(D!At(p))
        BY <2>5
      <4> QED BY <2>7, <4>1, <4>2
    <3> QED BY <3>1, <3>2
  <2>11. ASSUME NEW i \in list
         PROVE  /\ d(i).slot \in Nat /\ d(i).fn \in Nat /\ d(i).fn < FunctionsPerDevice
                /\ d(i).ecam_addr = D!Ecam(d(i).slot, d(i).fn)
    <3>1. PICK p \in seen_ : d(i) = D!Entry(D!At(p))
      BY <2>5
    <3>2. /\ d(i).slot = D!At(p).slot /\ d(i).fn = D!At(p).fn
          /\ d(i).ecam_addr = D!Ecam(D!At(p).slot, D!At(p).fn)
      BY <2>7, <3>1
    <3>3. D!At(p) \in hw
      BY <2>6
    <3> QED BY <2>2, <3>2, <3>3, PciAssumption
  <2>12. ASSUME NEW i \in list, NEW j \in list, d(i).slot = d(j).slot, d(i).fn = d(j).fn
         PROVE  i = j
    <3>1. PICK p \in seen_, q \in seen_ : d(i) = D!Entry(D!At(p)) /\ d(j) = D!Entry(D!At(q))
      BY <2>5
    <3>2. p \div FunctionsPerDevice = q \div FunctionsPerDevice
          /\ p % FunctionsPerDevice = q % FunctionsPerDevice
      BY <2>6, <2>7, <2>12, <3>1
    <3>3. p = q
      BY <2>6, <3>2, PlacesApart
    <3> QED BY <2>5, <3>1, <3>3
  <2>13. ASSUME NEW i \in list
         PROVE  IF D!Covering(d(i).slot) = {} THEN d(i).ecam_addr = Absent
                ELSE \E k \in D!Covering(d(i).slot) :
                       d(i).ecam_addr = D!InSpace(Mcfg[k], d(i).slot, d(i).fn)
    <3> DEFINE here == D!Covering(d(i).slot)
    <3>1. here \subseteq Nat
      BY <2>2, McfgEntries DEF D!Covering
    <3>2. d(i).ecam_addr = IF here = {} THEN Absent
                           ELSE D!InSpace(Mcfg[D!Min(here)], d(i).slot, d(i).fn)
      BY <2>11 DEF D!Ecam
    <3>3. here # {} => D!Min(here) \in here
      BY <3>1, LeastMember
    <3> QED BY <3>2, <3>3
  <2>14. ASSUME NEW i \in list
         PROVE  IF D!Announced(d(i).slot, d(i).fn) = {} THEN d(i).ecam_addr = Absent
                ELSE d(i).ecam_addr \in D!Announced(d(i).slot, d(i).fn)
    <3>1. D!Announced(d(i).slot, d(i).fn)
            = {D!InSpace(Mcfg[k], d(i).slot, d(i).fn) : k \in D!Covering(d(i).slot)}
      BY <2>2, <2>11, FirstIntact
    <3> QED BY <2>13, <3>1
  <2>15. ASSUME NEW i \in list, NEW j \in list, i # j, d(i).ecam_addr # Absent,
                d(i).ecam_addr = d(j).ecam_addr
         PROVE  FALSE
    <3>1. PICK k \in D!Covering(d(i).slot) :
            d(i).ecam_addr = D!InSpace(Mcfg[k], d(i).slot, d(i).fn)
      BY <2>13, <2>15
    <3>2. PICK l \in D!Covering(d(j).slot) :
            d(j).ecam_addr = D!InSpace(Mcfg[l], d(j).slot, d(j).fn)
      BY <2>13, <2>15
    <3>3. /\ k \in DOMAIN Mcfg /\ CoveredBy(Mcfg[k], d(i).slot)
          /\ l \in DOMAIN Mcfg /\ CoveredBy(Mcfg[l], d(j).slot)
      BY <2>2, <2>11, CoveringIs
    <3>4. D!InSpace(Mcfg[k], d(i).slot, d(i).fn) = D!InSpace(Mcfg[l], d(j).slot, d(j).fn)
      BY <2>15, <3>1, <3>2
    <3>5. PICK s \in Nat, f \in Nat, t \in Nat, g \in Nat :
            /\ s = d(i).slot /\ f = d(i).fn /\ t = d(j).slot /\ g = d(j).fn
            /\ f < FunctionsPerDevice /\ g < FunctionsPerDevice
      BY <2>11
    <3> HIDE DEF d
    <3>6. s = t /\ f = g
      <4>1. /\ rsdp \in Rsdps /\ Mcfg = D!FindTable(rsdp, "MCFG").body
            /\ k \in DOMAIN Mcfg /\ CoveredBy(Mcfg[k], s)
            /\ l \in DOMAIN Mcfg /\ CoveredBy(Mcfg[l], t)
            /\ D!InSpace(Mcfg[k], s, f) = D!InSpace(Mcfg[l], t, g)
        BY <2>2, <3>3, <3>4, <3>5
      <4> QED BY <3>5, <4>1, SpacesApart
    <3> QED BY <2>12, <2>15, <3>5, <3>6
  <2>16. \A i, j \in list : i # j => <<d(i).slot, d(i).fn>> # <<d(j).slot, d(j).fn>>
    BY <2>12
  <2> QED BY <2>4, <2>10, <2>14, <2>15, <2>16
<1> QED BY <1>1, InitWalk, PciStep, PTL DEF Spec

=============================================================================

--------------------------- MODULE PhysMem_proofs ---------------------------
(***************************************************************************)
(* Whatever the memory map, the size of the ring and the sizes that        *)
(* callers ask for: no page has two owners; and, as long as no block was   *)
(* dropped, no page is lost, the counts are right, and an allocation finds *)
(* a block that is large enough if there is one.  And the sort that the    *)
(* allocator runs over its ring sorts it, turn by turn.                    *)
(***************************************************************************)
EXTENDS PhysMem, RingSort, FiniteSetTheorems, FunctionTheorems, WellFoundedInduction, TLAPS

-----------------------------------------------------------------------------
(* Numbers.                                                                *)

(* A set of numbers that is not empty has a least member.                  *)
LEMMA LeastMember ==
  ASSUME NEW S, S \subseteq Nat, S # {}
  PROVE  \E x \in S : \A y \in S : x <= y
<1> DEFINE Below(x) == {y \in S : y <= x}
           Belows   == {U \in SUBSET S : \E x \in S : U = Below(x)}
<1>1. Belows \subseteq FiniteSubsetsOf(S)
  <2> SUFFICES ASSUME NEW x \in S PROVE IsFiniteSet(Below(x))
    BY DEF FiniteSubsetsOf
  <2>1. x \in Nat /\ Below(x) \in SUBSET Nat /\ \A y \in Below(x) : y <= x
    OBVIOUS
  <2> HIDE DEF Below
  <2> QED BY <2>1, FS_BoundedSetOfNaturals
<1>2. Belows # {}
  OBVIOUS
<1>3. IsWellFoundedOn(StrictSubsetOrdering(S), FiniteSubsetsOf(S))
  BY FS_StrictSubsetOrderingWellFounded
<1>4. PICK U \in Belows : \A V \in Belows : ~(<<V, U>> \in StrictSubsetOrdering(S))
  <2> HIDE DEF Belows
  <2> QED BY <1>1, <1>2, <1>3, WFMin
<1>5. PICK x \in S : U = Below(x)
  OBVIOUS
<1>6. \A y \in S : x <= y
  <2> SUFFICES ASSUME NEW y \in S, y < x PROVE FALSE
    OBVIOUS
  <2>1. Below(y) \in Belows /\ Below(y) \subseteq U /\ Below(y) # U
    <3>1. x \in U /\ x \notin Below(y)
      BY <1>5
    <3>2. \A z \in Below(y) : z <= x
      OBVIOUS
    <3> QED BY <1>5, <3>1, <3>2
  <2> QED BY <1>4, <2>1 DEF StrictSubsetOrdering
<1> QED BY <1>6

(* Induction, for a set of numbers.                                        *)
LEMMA SetInduction ==
  ASSUME NEW S, 0 \in S, \A k \in Nat : k \in S => k + 1 \in S
  PROVE  Nat \subseteq S
<1> SUFFICES ASSUME Nat \ S # {} PROVE FALSE
  OBVIOUS
<1>1. PICK least \in Nat \ S : \A j \in Nat \ S : least <= j
  BY LeastMember
<1>2. least # 0 /\ least - 1 \in Nat
  BY <1>1
<1>3. least - 1 \in S
  BY <1>1, <1>2
<1>4. (least - 1) + 1 = least
  BY <1>1
<1> QED BY <1>1, <1>2, <1>3, <1>4

(* Of a set of integers between two bounds, Max and Min choose the ends.   *)
LEMMA MinOf ==
  ASSUME NEW S, NEW a \in Int, S \subseteq Int, S # {}, \A x \in S : a <= x
  PROVE  Min(S) \in S /\ \A x \in S : Min(S) <= x
<1>1. PICK T \in SUBSET Nat : T = {x - a : x \in S}
  <2>1. {x - a : x \in S} \in SUBSET Nat
    OBVIOUS
  <2> QED BY <2>1
<1>2. T # {}
  BY <1>1
<1>3. PICK m \in T : \A y \in T : m <= y
  BY <1>2, LeastMember
<1>4. PICK z \in S : m = z - a
  BY <1>1, <1>3
<1>5. \A x \in S : z <= x
  <2> SUFFICES ASSUME NEW x \in S PROVE z <= x
    OBVIOUS
  <2>1. m <= x - a
    BY <1>1, <1>3
  <2> QED BY <1>4, <2>1
<1> QED BY <1>5 DEF Min

LEMMA MaxOf ==
  ASSUME NEW S, NEW b \in Int, S \subseteq Int, S # {}, \A x \in S : x <= b
  PROVE  Max(S) \in S /\ \A x \in S : x <= Max(S)
<1>1. PICK T \in SUBSET Nat : T = {b - x : x \in S}
  <2>1. {b - x : x \in S} \in SUBSET Nat
    OBVIOUS
  <2> QED BY <2>1
<1>2. T # {}
  BY <1>1
<1>3. PICK m \in T : \A y \in T : m <= y
  BY <1>2, LeastMember
<1>4. PICK z \in S : m = b - z
  BY <1>1, <1>3
<1>5. \A x \in S : x <= z
  <2> SUFFICES ASSUME NEW x \in S PROVE x <= z
    OBVIOUS
  <2>1. m <= b - x
    BY <1>1, <1>3
  <2> QED BY <1>4, <2>1
<1> QED BY <1>5 DEF Max

(* Multiples and quotients of a number that is not 0.                      *)
LEMMA Multiples ==
  ASSUME NEW n \in Nat \ {0}, NEW a \in Int, NEW b \in Int
  PROVE  a * n < b * n <=> a < b
<1>1. ASSUME NEW c \in Int, NEW d \in Int, c < d PROVE c * n < d * n
  <2>1. PICK k \in Nat \ {0} : d = c + k
    BY <1>1
  <2>2. d * n = c * n + k * n
    BY <2>1
  <2>3. k * n > 0
    OBVIOUS
  <2> QED BY <2>2, <2>3
<1>2. CASE a < b
  BY <1>1, <1>2
<1>3. CASE b < a
  <2>1. b * n < a * n
    BY <1>1, <1>3
  <2> QED BY <1>3, <2>1
<1>4. CASE a = b
  BY <1>4
<1> QED BY <1>2, <1>3, <1>4

LEMMA Quotient ==
  ASSUME NEW n \in Nat \ {0}, NEW x \in Nat
  PROVE  /\ x \div n \in Nat /\ x % n \in Nat /\ x % n < n
         /\ (x \div n) * n <= x /\ x < (x \div n) * n + n
         /\ x = (x \div n) * n + (x % n)
<1>1. /\ x \div n \in Int /\ x % n \in Nat /\ x % n < n
      /\ x = (x \div n) * n + (x % n)
  OBVIOUS
<1>2. PICK q \in Int : q = x \div n
  BY <1>1
<1>3. q * n <= x /\ x < q * n + n
  BY <1>1, <1>2
<1>4. q >= 0
  <2> SUFFICES ASSUME q + 1 <= 0 PROVE FALSE
    OBVIOUS
  <2>1. (q + 1) * n <= 0
    OBVIOUS
  <2> QED BY <1>3, <2>1
<1> QED BY <1>1, <1>2, <1>3, <1>4

LEMMA QuotientIs ==
  ASSUME NEW n \in Nat \ {0}, NEW q \in Nat, NEW r \in Nat, r < n
  PROVE  (q * n + r) \div n = q /\ (q * n + r) % n = r
<1>1. PICK x \in Nat : x = q * n + r
  OBVIOUS
<1>2. PICK d \in Nat : d = x \div n /\ d * n <= x /\ x < d * n + n /\ x = d * n + (x % n)
  BY Quotient
<1>3. d * n < (q + 1) * n /\ q * n < (d + 1) * n
  BY <1>1, <1>2
<1>4. d < q + 1 /\ q < d + 1
  BY <1>3, Multiples
<1>5. d = q
  BY <1>4
<1> QED BY <1>1, <1>2, <1>5

-----------------------------------------------------------------------------
(* Words.                                                                  *)

(* A word holds the address and the length it was built from.              *)
LEMMA WordBuilt ==
  ASSUME NEW page \in Nat, NEW pages \in Nat \ {0}, pages <= MaxEntries
  PROVE  /\ BuildEntry(page, pages) \in Nat
         /\ GetAddr(BuildEntry(page, pages)) = page
         /\ GetPgCnt(BuildEntry(page, pages)) = pages
<1> USE MaxEntriesAssumption
<1>1. PICK r \in Nat : r = pages - 1 /\ r < MaxEntries
  OBVIOUS
<1>2. (0 * MaxEntries + r) % MaxEntries = r
  BY <1>1, QuotientIs
<1>3. r % MaxEntries = r
  BY <1>2
<1>4. BuildEntry(page, pages) = page * MaxEntries + r
  BY <1>1, <1>3 DEF BuildEntry
<1>5. page * MaxEntries + r \in Nat
  BY <1>1
<1>6. /\ (page * MaxEntries + r) \div MaxEntries = page
      /\ (page * MaxEntries + r) % MaxEntries = r
  BY <1>1, QuotientIs
<1> QED BY <1>1, <1>4, <1>5, <1>6 DEF GetAddr, GetPgCnt

(* Every word stands for some pages, the word 0 for page 0.                *)
LEMMA WordType ==
  /\ \A e \in Nat : /\ GetAddr(e) \in Nat /\ GetPgCnt(e) \in Nat \ {0}
                     /\ GetPgCnt(e) <= MaxEntries
  /\ GetAddr(0) = 0 /\ GetPgCnt(0) = 1
<1> USE MaxEntriesAssumption
<1>1. \A e \in Nat : e \div MaxEntries \in Nat /\ e % MaxEntries \in Nat /\ e % MaxEntries < MaxEntries
  BY Quotient
<1>2. (0 * MaxEntries + 0) \div MaxEntries = 0 /\ (0 * MaxEntries + 0) % MaxEntries = 0
  BY QuotientIs
<1>3. 0 \div MaxEntries = 0 /\ 0 % MaxEntries = 0
  BY <1>2
<1> QED BY <1>1, <1>3 DEF GetAddr, GetPgCnt

-----------------------------------------------------------------------------
(* Loops.                                                                  *)

(* A loop goes through the states that its turns make.                     *)
LEMMA SameTurns ==
  ASSUME NEW n \in Nat, NEW st, NEW after, after[0] = {st[0]},
         \A k \in 1 .. n : after[k - 1] = {st[k - 1]} => after[k] = {st[k]}
  PROVE  after[n] = {st[n]}
<1> DEFINE S == {k \in Nat : k <= n => after[k] = {st[k]}}
<1>1. 0 \in S
  OBVIOUS
<1>2. ASSUME NEW k \in Nat, k \in S PROVE k + 1 \in S
  <2>1. CASE k + 1 <= n
    <3>1. after[k] = {st[k]} /\ k + 1 \in 1 .. n /\ (k + 1) - 1 = k
      BY <1>2, <2>1
    <3> QED BY <3>1
  <2> QED BY <2>1
<1>3. Nat \subseteq S
  <2> HIDE DEF S
  <2> QED BY <1>1, <1>2, SetInduction
<1> QED BY <1>3

(* partition_pgs goes through the states that its turns make.              *)
LEMMA PartitionTurns ==
  ASSUME NEW data0, NEW lo, NEW hi, (hi - lo + 1) \in Int
  PROVE  \E st : /\ st[0] = [data |-> data0, i |-> lo - 1, j |-> hi + 1, met |-> FALSE]
                 /\ \A k \in 1 .. (hi - lo + 1) : st[k] = PartitionTurn(st[k - 1], AddrAt(data0, (lo + hi) \div 2), lo, hi)
                 /\ PartitionPgs(data0, lo, hi) = LET end == (IF (hi - lo + 1) > 0 THEN st[(hi - lo + 1)] ELSE st[0]) IN [data |-> end.data, at |-> end.j]
<1> DEFINE s0 == [data |-> data0, i |-> lo - 1, j |-> hi + 1, met |-> FALSE]
           Runs(st, m) ==
             st[0] = s0 /\ \A k \in 1 .. m : st[k] = PartitionTurn(st[k - 1], AddrAt(data0, (lo + hi) \div 2), lo, hi)
           S == {m \in Nat : \E st : Runs(st, m)}
<1>1. 0 \in S
  <2> HIDE DEF s0
  <2>1. Runs([k \in {0} |-> s0], 0)
    OBVIOUS
  <2> QED BY <2>1
<1>2. ASSUME NEW m \in Nat, m \in S PROVE m + 1 \in S
  <2> HIDE DEF s0
  <2>1. PICK st : Runs(st, m)
    BY <1>2
  <2> DEFINE next == [k \in 0 .. m + 1 |->
                        IF k = m + 1 THEN PartitionTurn(st[m], AddrAt(data0, (lo + hi) \div 2), lo, hi) ELSE st[k]]
  <2>2. next[0] = s0
    BY <2>1
  <2>3. ASSUME NEW k \in 1 .. m + 1 PROVE next[k] = PartitionTurn(next[k - 1], AddrAt(data0, (lo + hi) \div 2), lo, hi)
    <3>1. PICK j \in Int : j = k - 1 /\ j \in 0 .. m
      OBVIOUS
    <3>2. next[j] = st[j] /\ next[k] = IF k = m + 1 THEN PartitionTurn(st[m], AddrAt(data0, (lo + hi) \div 2), lo, hi) ELSE st[k]
      BY <3>1
    <3> HIDE DEF next
    <3>3. k = m + 1 => j = m
      BY <3>1
    <3>4. k # m + 1 => k \in 1 .. m
      OBVIOUS
    <3> QED BY <2>1, <3>1, <3>2, <3>3, <3>4
  <2>4. Runs(next, m + 1)
    BY <2>2, <2>3
  <2> HIDE DEF Runs, next
  <2> QED BY <2>4
<1>3. Nat \subseteq S
  <2> HIDE DEF S
  <2> QED BY <1>1, <1>2, SetInduction
<1>4. PICK n \in Int : n = (hi - lo + 1)
  OBVIOUS
<1>5. PICK st : Runs(st, IF n > 0 THEN n ELSE 0)
  <2> HIDE DEF Runs
  <2> QED BY <1>3
<1> DEFINE Behind(g, k) == IF k = 0 THEN {s0} ELSE {PartitionTurn(s, AddrAt(data0, (lo + hi) \div 2), lo, hi) : s \in g[k - 1]}
           after == CHOOSE g : g = [k \in 0 .. n |-> Behind(g, k)]
           ones  == [k \in 0 .. n |-> {st[k]}]
<1>6. ASSUME n > 0 PROVE after[n] = {st[n]}
  <2>1. Runs(st, n)
    BY <1>5, <1>6
  <2>2. \A k \in 0 .. n : {st[k]} = Behind(ones, k)
    <3>1. {st[0]} = Behind(ones, 0)
      BY <2>1
    <3>2. ASSUME NEW k \in 1 .. n PROVE {st[k]} = Behind(ones, k)
      <4>1. ones[k - 1] = {st[k - 1]}
        OBVIOUS
      <4> HIDE DEF ones, s0
      <4>2. Behind(ones, k) = {PartitionTurn(st[k - 1], AddrAt(data0, (lo + hi) \div 2), lo, hi)}
        BY <4>1
      <4> QED BY <2>1, <4>2
    <3> HIDE DEF Behind, ones
    <3> QED BY <3>1, <3>2
  <2>3. ones = [k \in 0 .. n |-> Behind(ones, k)]
    <3> HIDE DEF Behind
    <3> QED BY <2>2
  <2>4. after = [k \in 0 .. n |-> Behind(after, k)]
    <3> HIDE DEF Behind, ones
    <3> QED BY <2>3
  <2> HIDE DEF after, s0
  <2>5. after[0] = {st[0]}
    BY <1>6, <2>1, <2>4
  <2>6. ASSUME NEW k \in 1 .. n, after[k - 1] = {st[k - 1]} PROVE after[k] = {st[k]}
    <3>1. after[k] = Behind(after, k)
      <4> HIDE DEF Behind
      <4> QED BY <2>4
    <3>2. Behind(after, k) = {PartitionTurn(st[k - 1], AddrAt(data0, (lo + hi) \div 2), lo, hi)}
      BY <2>6
    <3> QED BY <2>1, <3>1, <3>2
  <2>7. n \in Nat
    BY <1>6
  <2> HIDE DEF Runs, Behind, S, ones
  <2> QED BY <2>5, <2>6, <2>7, SameTurns
<1>7. (IF n > 0 THEN CHOOSE s \in after[n] : TRUE ELSE s0) = IF n > 0 THEN st[n] ELSE st[0]
  <2> HIDE DEF after, s0
  <2> QED BY <1>5, <1>6
<1>8. PartitionPgs(data0, lo, hi) = LET end == (IF n > 0 THEN st[n] ELSE st[0]) IN [data |-> end.data, at |-> end.j]
  BY <1>4, <1>7 DEF Loop, PartitionPgs
<1> HIDE DEF s0
<1>9. st[0] = s0 /\ \A k \in 1 .. n : st[k] = PartitionTurn(st[k - 1], AddrAt(data0, (lo + hi) \div 2), lo, hi)
  BY <1>5
<1> QED BY <1>4, <1>8, <1>9 DEF s0

-----------------------------------------------------------------------------
(* The sort.                                                               *)

(* The ring has at least one slot, and wrapping a position gives one.      *)
LEMMA SizeFact == Sz \in Nat \ {0} /\ \A i \in Int : i % Sz \in 0 .. Sz - 1
<1>1. \A x \in Nat : AlignUp(x) \in Nat
  <2> SUFFICES ASSUME NEW x \in Nat PROVE AlignUp(x) \in Nat
    OBVIOUS
  <2>1. PICK m \in Nat : m = x + BtmLevel - 1
    BY RingSizeAssumption
  <2>2. m \div BtmLevel \in Nat
    BY Quotient, RingSizeAssumption
  <2> QED BY <2>1, <2>2, RingSizeAssumption DEF AlignUp
<1>2. PICK m \in Nat : m = AlignUp(MemorySize)
  BY <1>1, RingSizeAssumption
<1>3. PagesIn(m) \in Nat
  BY Quotient, RingSizeAssumption DEF PagesIn
<1>4. PagesIn(m) \div 2 \in Nat
  BY <1>3
<1>5. Sz \in Nat \ {0}
  BY <1>2, <1>4, RingSizeAssumption
<1> QED BY <1>5

LEMMA NextType == \A i \in Int : Next1(i) \in 0 .. Sz - 1
<1> SUFFICES ASSUME NEW i \in Int PROVE Next1(i) \in 0 .. Sz - 1
  OBVIOUS
<1>1. PICK j \in Int : j = i + 1
  OBVIOUS
<1>2. j % Sz \in 0 .. Sz - 1
  BY SizeFact
<1> QED BY <1>1, <1>2 DEF Next1

LEMMA AddrType ==
  ASSUME NEW d0 \in Ring, NEW i \in Int
  PROVE  AddrAt(d0, i) \in Nat
<1>1. d0[i % Sz] \in Nat
  BY SizeFact DEF Ring
<1> QED BY <1>1, WordType DEF AddrAt

(* An exchange of two positions, and what it leaves at each slot.          *)
LEMMA SwapFact ==
  ASSUME NEW d0 \in Ring, NEW i \in Int, NEW j \in Int
  PROVE  /\ Swap(d0, i, j) \in Ring
         /\ AddrAt(Swap(d0, i, j), i) = AddrAt(d0, j)
         /\ AddrAt(Swap(d0, i, j), j) = AddrAt(d0, i)
<1>1. i % Sz \in 0 .. Sz - 1 /\ j % Sz \in 0 .. Sz - 1
  BY SizeFact
<1>2. PICK a \in 0 .. Sz - 1, b \in 0 .. Sz - 1 : a = i % Sz /\ b = j % Sz
  BY <1>1
<1>3. Swap(d0, i, j) = [d0 EXCEPT ![a] = d0[b], ![b] = d0[a]]
  BY <1>2 DEF Swap
<1>4. [d0 EXCEPT ![a] = d0[b], ![b] = d0[a]] \in Ring
  BY DEF Ring
<1>5. /\ [d0 EXCEPT ![a] = d0[b], ![b] = d0[a]][a] = d0[b]
      /\ [d0 EXCEPT ![a] = d0[b], ![b] = d0[a]][b] = d0[a]
  BY DEF Ring
<1> QED BY <1>2, <1>3, <1>4, <1>5 DEF AddrAt

(* Sets of rings that exchanges within a window do not leave.              *)
Closed(R, lo, hi) ==
  R \subseteq Ring /\ \A d \in R : \A i, j \in Int :
    lo <= i /\ i <= hi /\ lo <= j /\ j <= hi => Swap(d, i, j) \in R

(* Behind turn k of partition_pgs: each scan has something that stops it   *)
(* in the window, the first time short of the window's end.                *)
TurnOk(R, pivot, lo, hi, s, k) ==
  /\ s \in [data : R, i : Int, j : Int, met : BOOLEAN]
  /\ s.met => lo <= s.j /\ s.j < hi
  /\ ~s.met =>
       /\ lo - 1 + k <= s.i /\ s.i < s.j /\ s.j <= hi + 1 - k
       /\ \E a \in Int : lo <= a /\ a < s.j /\ AddrAt(s.data, a) <= pivot
       /\ \E b \in Int : s.i < b /\ b <= hi /\ pivot <= AddrAt(s.data, b) /\ (b < hi \/ s.j <= hi)

LEMMA TurnKeeps ==
  ASSUME NEW lo \in Int, NEW hi \in Int, NEW R, Closed(R, lo, hi), NEW pivot \in Nat,
         NEW k \in Nat, NEW s, TurnOk(R, pivot, lo, hi, s, k)
  PROVE  TurnOk(R, pivot, lo, hi, PartitionTurn(s, pivot, lo, hi), k + 1)
<1>1. CASE s.met
  BY <1>1 DEF TurnOk, PartitionTurn
<1>2. CASE ~s.met
  <2>1. PICK d \in R, x \in Int, y \in Int :
          s = [data |-> d, i |-> x, j |-> y, met |-> FALSE]
    BY <1>2 DEF TurnOk
  <2>2. lo - 1 + k <= x /\ x < y /\ y <= hi + 1 - k
    BY <1>2, <2>1 DEF TurnOk
  <2>3. PICK a \in Int : lo <= a /\ a < y /\ AddrAt(d, a) <= pivot
    BY <1>2, <2>1 DEF TurnOk
  <2>4. PICK b \in Int : x < b /\ b <= hi /\ pivot <= AddrAt(d, b) /\ (b < hi \/ y <= hi)
    BY <1>2, <2>1 DEF TurnOk
  <2>5. d \in Ring
    BY DEF Closed
  <2> DEFINE below == {m \in lo .. y - 1 : AddrAt(d, m) <= pivot}
             above == {m \in x + 1 .. hi : AddrAt(d, m) >= pivot}
  <2>6. PICK j \in Int : /\ j = Down(d, pivot, lo, y)
                         /\ a <= j /\ j < y /\ AddrAt(d, j) <= pivot
    <3>1. PICK top \in Int : top = y - 1
      OBVIOUS
    <3>2. a \in below /\ below # {} /\ below \subseteq Int /\ \A m \in below : m <= top
      BY <2>3, <3>1
    <3>3. Max(below) \in below /\ \A m \in below : m <= Max(below)
      <4> HIDE DEF below
      <4> QED BY <3>2, MaxOf
    <3>4. PICK j \in Int : j = Max(below)
      <4> HIDE DEF below
      <4> QED BY <3>2, <3>3
    <3>5. a <= j /\ j < y /\ AddrAt(d, j) <= pivot
      BY <3>2, <3>3, <3>4
    <3> QED BY <3>4, <3>5 DEF Down
  <2>7. PICK i \in Int : /\ i = Up(d, pivot, hi, x)
                         /\ x < i /\ i <= b /\ pivot <= AddrAt(d, i)
    <3>1. \A m \in Int : AddrAt(d, m) \in Nat
      BY <2>5, AddrType
    <3>2. PICK bottom \in Int : bottom = x + 1
      OBVIOUS
    <3>3. b \in above /\ above # {} /\ above \subseteq Int /\ \A m \in above : bottom <= m
      BY <2>4, <3>1, <3>2
    <3>4. Min(above) \in above /\ \A m \in above : Min(above) <= m
      <4> HIDE DEF above
      <4> QED BY <3>3, MinOf
    <3>5. PICK i \in Int : i = Min(above)
      <4> HIDE DEF above
      <4> QED BY <3>3, <3>4
    <3>6. x < i /\ i <= b /\ pivot <= AddrAt(d, i)
      BY <3>1, <3>3, <3>4, <3>5
    <3> QED BY <3>5, <3>6 DEF Up
  <2>8. CASE i >= j
    <3>1. PartitionTurn(s, pivot, lo, hi) = [data |-> d, i |-> x, j |-> j, met |-> TRUE]
      <4>1. PartitionTurn(s, pivot, lo, hi) = [s EXCEPT !.met = TRUE, !.j = j]
        BY <2>1, <2>6, <2>7, <2>8 DEF PartitionTurn
      <4> QED BY <2>1, <4>1
    <3>2. lo <= j /\ j < hi
      BY <2>2, <2>3, <2>4, <2>6, <2>7, <2>8
    <3> QED BY <3>1, <3>2 DEF TurnOk
  <2>9. CASE i < j
    <3>1. PartitionTurn(s, pivot, lo, hi) =
            [data |-> Swap(d, i, j), i |-> i, j |-> j, met |-> FALSE]
      BY <2>1, <2>6, <2>7, <2>9 DEF PartitionTurn
    <3>2. lo <= i /\ i <= hi /\ lo <= j /\ j <= hi /\ lo - 1 + (k + 1) <= i /\ j <= hi + 1 - (k + 1)
      BY <2>2, <2>3, <2>4, <2>6, <2>7, <2>9
    <3>3. Swap(d, i, j) \in R
      BY <3>2 DEF Closed
    <3>4. AddrAt(Swap(d, i, j), i) <= pivot /\ pivot <= AddrAt(Swap(d, i, j), j)
      BY <2>5, <2>6, <2>7, SwapFact
    <3> QED BY <2>9, <3>1, <3>2, <3>3, <3>4 DEF TurnOk
  <2> QED BY <2>8, <2>9
<1> QED BY <1>1, <1>2 DEF TurnOk

(* partition_pgs splits a window of two positions or more into two parts   *)
(* that are both shorter, and only exchanges blocks of the window.         *)
LEMMA PartitionSplits ==
  ASSUME NEW lo \in Int, NEW hi \in Int, lo < hi, NEW R, Closed(R, lo, hi), NEW d0 \in R
  PROVE  /\ PartitionPgs(d0, lo, hi).data \in R
         /\ PartitionPgs(d0, lo, hi).at \in Int
         /\ lo <= PartitionPgs(d0, lo, hi).at /\ PartitionPgs(d0, lo, hi).at < hi
<1>1. PICK n \in Nat : n = hi - lo + 1 /\ n > 0
  OBVIOUS
<1>2. PICK mid \in Int : mid = (lo + hi) \div 2 /\ lo <= mid /\ mid < hi
  OBVIOUS
<1>3. PICK pivot \in Nat : pivot = AddrAt(d0, (lo + hi) \div 2) /\ pivot = AddrAt(d0, mid)
  BY <1>2, AddrType DEF Closed
<1>4. PICK st : /\ st[0] = [data |-> d0, i |-> lo - 1, j |-> hi + 1, met |-> FALSE]
                /\ \A k \in 1 .. n : st[k] = PartitionTurn(st[k - 1], pivot, lo, hi)
                /\ PartitionPgs(d0, lo, hi) = [data |-> st[n].data, at |-> st[n].j]
  <2>1. (hi - lo + 1) \in Int
    OBVIOUS
  <2>2. PICK st :
          /\ st[0] = [data |-> d0, i |-> lo - 1, j |-> hi + 1, met |-> FALSE]
          /\ \A k \in 1 .. (hi - lo + 1) :
               st[k] = PartitionTurn(st[k - 1], AddrAt(d0, (lo + hi) \div 2), lo, hi)
          /\ PartitionPgs(d0, lo, hi) =
               LET end == IF (hi - lo + 1) > 0 THEN st[(hi - lo + 1)] ELSE st[0]
               IN  [data |-> end.data, at |-> end.j]
    BY <2>1, PartitionTurns
  <2> QED BY <1>1, <1>3, <2>2
<1> DEFINE S == {k \in Nat : k <= n => TurnOk(R, pivot, lo, hi, st[k], k)}
<1>5. 0 \in S
  <2>1. AddrAt(d0, mid) <= pivot /\ pivot <= AddrAt(d0, mid)
    BY <1>3
  <2>2. TurnOk(R, pivot, lo, hi, [data |-> d0, i |-> lo - 1, j |-> hi + 1, met |-> FALSE], 0)
    BY <1>2, <2>1 DEF TurnOk
  <2> QED BY <1>4, <2>2
<1>6. ASSUME NEW k \in Nat, k \in S PROVE k + 1 \in S
  <2> SUFFICES ASSUME k + 1 <= n PROVE TurnOk(R, pivot, lo, hi, st[k + 1], k + 1)
    OBVIOUS
  <2>1. TurnOk(R, pivot, lo, hi, st[k], k)
    BY <1>6
  <2>2. k + 1 \in 1 .. n /\ (k + 1) - 1 = k
    OBVIOUS
  <2>3. st[k + 1] = PartitionTurn(st[k], pivot, lo, hi)
    BY <1>4, <2>2
  <2> QED BY <2>1, <2>3, TurnKeeps
<1>7. TurnOk(R, pivot, lo, hi, st[n], n)
  <2>1. Nat \subseteq S
    <3> HIDE DEF S
    <3> QED BY <1>5, <1>6, SetInduction
  <2> QED BY <2>1
<1>8. st[n].met
  BY <1>1, <1>7 DEF TurnOk
<1>9. st[n].data \in R /\ st[n].j \in Int /\ lo <= st[n].j /\ st[n].j < hi
  BY <1>7, <1>8 DEF TurnOk
<1> QED BY <1>4, <1>9

(* The windows of at most n + 1 positions, and what quicksort_pgs does     *)
(* with one, given what its recursive calls do.                            *)
Windows(n) == {w \in Int \X Int : w[2] - w[1] <= n}

SortBody(f, s) ==
  LET lo == s[2][1]
      hi == s[2][2]
      Both(part) ==
        f[<<f[<<part.data, Recursed(lo, hi, part.at)>>], Kept(lo, hi, part.at)>>]
  IN  IF hi <= lo THEN s[1] ELSE Both(PartitionPgs(s[1], lo, hi))

LEMMA RingClosed == \A lo, hi \in Int : Closed(Ring, lo, hi)
BY SwapFact DEF Closed

LEMMA ClosedWithin ==
  ASSUME NEW R, NEW lo0 \in Int, NEW hi0 \in Int, Closed(R, lo0, hi0),
         NEW lo \in Int, NEW hi \in Int, lo0 <= lo, hi <= hi0
  PROVE  Closed(R, lo, hi)
<1> SUFFICES ASSUME NEW d \in R, NEW i \in Int, NEW j \in Int,
                    lo <= i, i <= hi, lo <= j, j <= hi
             PROVE  Swap(d, i, j) \in R
  BY DEF Closed
<1>1. lo0 <= i /\ i <= hi0 /\ lo0 <= j /\ j <= hi0
  OBVIOUS
<1> QED BY <1>1 DEF Closed

(* Both parts are shorter windows inside the one that is split.            *)
LEMMA PartsShorter ==
  ASSUME NEW lo \in Int, NEW hi \in Int, NEW at \in Int, lo <= at, at < hi
  PROVE  \E l1, h1, l2, h2 \in Int :
           /\ Recursed(lo, hi, at) = <<l1, h1>> /\ Kept(lo, hi, at) = <<l2, h2>>
           /\ lo <= l1 /\ h1 <= hi /\ h1 - l1 < hi - lo
           /\ lo <= l2 /\ h2 <= hi /\ h2 - l2 < hi - lo
BY DEF Recursed, Kept

(* The function that quicksort_pgs computes exists, since its recursive    *)
(* calls are for shorter windows.                                          *)
LEMMA SortExists ==
  ASSUME NEW N \in Nat
  PROVE  \E f : /\ f = [s \in Ring \X Windows(N) |-> SortBody(f, s)]
                /\ \A s \in Ring \X Windows(N) : f[s] \in Ring
<1> DEFINE D(n) == Ring \X Windows(n)
           Is(f, n) == f = [s \in D(n) |-> SortBody(f, s)] /\ \A s \in D(n) : f[s] \in Ring
           S == {n \in Nat : \E f : Is(f, n)}
<1>1. 0 \in S
  <2> DEFINE f == [s \in D(0) |-> s[1]]
  <2>1. ASSUME NEW s \in D(0) PROVE SortBody(f, s) = s[1] /\ s[1] \in Ring
    <3>1. s[1] \in Ring /\ s[2][1] \in Int /\ s[2][2] \in Int /\ s[2][2] - s[2][1] <= 0
      BY DEF Windows
    <3>2. s[2][2] <= s[2][1]
      BY <3>1
    <3> HIDE DEF f
    <3> QED BY <3>1, <3>2 DEF SortBody
  <2>2. f = [s \in D(0) |-> SortBody(f, s)] /\ \A s \in D(0) : f[s] \in Ring
    <3> HIDE DEF D
    <3>1. \A s \in D(0) : f[s] = s[1]
      OBVIOUS
    <3>2. f = [s \in D(0) |-> f[s]]
      OBVIOUS
    <3> HIDE DEF f
    <3> QED BY <2>1, <3>1, <3>2
  <2> HIDE DEF D, f
  <2> QED BY <2>2
<1>2. ASSUME NEW n \in Nat, n \in S PROVE n + 1 \in S
  <2>1. PICK f : Is(f, n)
    BY <1>2
  <2> DEFINE g == [s \in D(n + 1) |-> SortBody(f, s)]
  <2>2. D(n) \subseteq D(n + 1)
    BY DEF Windows
  <2>3. \A s \in D(n) : g[s] = f[s]
    <3> HIDE DEF D
    <3>1. \A s \in D(n) : f[s] = SortBody(f, s)
      BY <2>1
    <3> QED BY <2>2, <3>1
  <2>4. ASSUME NEW s \in D(n + 1)
        PROVE  SortBody(g, s) = SortBody(f, s) /\ SortBody(f, s) \in Ring
    <3>1. PICK d0 \in Ring, lo \in Int, hi \in Int :
            s = <<d0, <<lo, hi>>>> /\ hi - lo <= n + 1
      BY DEF Windows
    <3>2. CASE hi <= lo
      BY <3>1, <3>2 DEF SortBody
    <3>3. CASE lo < hi
      <4> DEFINE part == PartitionPgs(d0, lo, hi)
                 first == <<part.data, Recursed(lo, hi, part.at)>>
                 second == <<f[first], Kept(lo, hi, part.at)>>
      <4>1. part.data \in Ring /\ part.at \in Int /\ lo <= part.at /\ part.at < hi
        BY <3>3, RingClosed, PartitionSplits
      <4> HIDE DEF part
      <4>2. Recursed(lo, hi, part.at) \in Windows(n) /\ Kept(lo, hi, part.at) \in Windows(n)
        <5>1. PICK at \in Int : at = part.at /\ lo <= at /\ at < hi
          BY <4>1
        <5>2. PICK l1 \in Int, h1 \in Int, l2 \in Int, h2 \in Int :
                /\ Recursed(lo, hi, at) = <<l1, h1>> /\ Kept(lo, hi, at) = <<l2, h2>>
                /\ lo <= l1 /\ h1 <= hi /\ h1 - l1 < hi - lo
                /\ lo <= l2 /\ h2 <= hi /\ h2 - l2 < hi - lo
          BY <5>1, PartsShorter
        <5> QED BY <3>1, <5>1, <5>2 DEF Windows
      <4>3. first \in D(n)
        BY <4>1, <4>2
      <4>4. f[first] \in Ring
        <5> HIDE DEF D, first
        <5> QED BY <2>1, <4>3
      <4>5. second \in D(n)
        <5> HIDE DEF first
        <5> QED BY <4>2, <4>4
      <4>6. f[second] \in Ring /\ g[second] = f[second] /\ g[first] = f[first]
        <5> HIDE DEF D, first, second, g
        <5> QED BY <2>1, <2>3, <4>3, <4>5
      <4>7. SortBody(f, s) = f[second]
        BY <3>1, <3>3 DEF SortBody, part
      <4>8. SortBody(g, s) = g[<<g[first], Kept(lo, hi, part.at)>>]
        <5> HIDE DEF g
        <5> QED BY <3>1, <3>3 DEF SortBody, part
      <4>9. SortBody(g, s) = g[second]
        <5> HIDE DEF g, first
        <5> QED BY <4>6, <4>8
      <4> HIDE DEF g, second
      <4> QED BY <4>6, <4>7, <4>9
    <3> QED BY <3>1, <3>2, <3>3
  <2>5. g = [s \in D(n + 1) |-> SortBody(g, s)]
    <3>1. g = [s \in D(n + 1) |-> g[s]] /\ \A s \in D(n + 1) : g[s] = SortBody(f, s)
      <4> HIDE DEF D
      <4> QED OBVIOUS
    <3> HIDE DEF D, g
    <3> QED BY <2>4, <3>1
  <2>6. \A s \in D(n + 1) : g[s] \in Ring
    <3> HIDE DEF D
    <3> QED BY <2>4
  <2> HIDE DEF D, g
  <2> QED BY <2>5, <2>6
<1>3. Nat \subseteq S
  <2> HIDE DEF S
  <2> QED BY <1>1, <1>2, SetInduction
<1>4. \E f : Is(f, N)
  <2> HIDE DEF Is
  <2> QED BY <1>3
<1> QED BY <1>4

(* quicksort_pgs only exchanges blocks of the window that it is given: it  *)
(* stays in every set of rings that such exchanges stay in.                *)
THEOREM SortStays ==
  ASSUME NEW lo0 \in Int, NEW hi0 \in Int, lo0 <= hi0, NEW R, Closed(R, lo0, hi0),
         NEW data0 \in R
  PROVE  QuicksortPgs(data0, lo0, hi0) \in R
<1>1. PICK N \in Nat : N = hi0 - lo0
  OBVIOUS
<1> DEFINE sort == CHOOSE f : f = [s \in Ring \X Windows(N) |-> SortBody(f, s)]
<1>2. sort = [s \in Ring \X Windows(N) |-> SortBody(sort, s)]
  BY SortExists
<1>3. QuicksortPgs(data0, lo0, hi0) = sort[<<data0, <<lo0, hi0>>>>]
  BY <1>1 DEF QuicksortPgs, SortBody, Windows
<1> HIDE DEF sort
<1>4. \A d \in Ring, lo, hi \in Int :
        hi - lo <= N => sort[<<d, <<lo, hi>>>>] = SortBody(sort, <<d, <<lo, hi>>>>)
  BY <1>2 DEF Windows
<1> DEFINE Stays(n) == \A d \in R, lo, hi \in Int :
             lo0 <= lo /\ hi <= hi0 /\ hi - lo <= n => sort[<<d, <<lo, hi>>>>] \in R
           S == {n \in Nat : n <= N => Stays(n)}
<1>5. 0 \in S
  <2> SUFFICES ASSUME NEW d \in R, NEW lo \in Int, NEW hi \in Int, hi - lo <= 0
               PROVE  sort[<<d, <<lo, hi>>>>] \in R
    OBVIOUS
  <2>1. d \in Ring
    BY DEF Closed
  <2>2. SortBody(sort, <<d, <<lo, hi>>>>) = d
    BY DEF SortBody
  <2>3. hi - lo <= N
    OBVIOUS
  <2> QED BY <1>4, <2>1, <2>2, <2>3
<1>6. ASSUME NEW n \in Nat, n \in S PROVE n + 1 \in S
  <2> SUFFICES ASSUME n + 1 <= N, NEW d \in R, NEW lo \in Int, NEW hi \in Int,
                      lo0 <= lo, hi <= hi0, hi - lo <= n + 1
               PROVE  sort[<<d, <<lo, hi>>>>] \in R
    OBVIOUS
  <2>1. Stays(n)
    BY <1>6
  <2>2. d \in Ring
    BY DEF Closed
  <2>3. sort[<<d, <<lo, hi>>>>] = SortBody(sort, <<d, <<lo, hi>>>>)
    BY <1>4, <2>2
  <2>4. CASE hi <= lo
    BY <2>3, <2>4 DEF SortBody
  <2>5. CASE lo < hi
    <3>1. PICK e \in R, at \in Int : /\ e = PartitionPgs(d, lo, hi).data
                                     /\ at = PartitionPgs(d, lo, hi).at
                                     /\ lo <= at /\ at < hi
      BY <2>5, ClosedWithin, PartitionSplits
    <3>2. PICK l1 \in Int, h1 \in Int, l2 \in Int, h2 \in Int :
            /\ Recursed(lo, hi, at) = <<l1, h1>> /\ Kept(lo, hi, at) = <<l2, h2>>
            /\ lo <= l1 /\ h1 <= hi /\ h1 - l1 < hi - lo
            /\ lo <= l2 /\ h2 <= hi /\ h2 - l2 < hi - lo
      BY <3>1, PartsShorter
    <3>3. lo0 <= l1 /\ h1 <= hi0 /\ h1 - l1 <= n
      BY <3>2
    <3>4. lo0 <= l2 /\ h2 <= hi0 /\ h2 - l2 <= n
      BY <3>2
    <3>5. PICK e1 \in R : e1 = sort[<<e, <<l1, h1>>>>]
      BY <2>1, <3>3
    <3>6. sort[<<e1, <<l2, h2>>>>] \in R
      BY <2>1, <3>4
    <3>7. SortBody(sort, <<d, <<lo, hi>>>>) = sort[<<e1, <<l2, h2>>>>]
      BY <2>5, <3>1, <3>2, <3>5 DEF SortBody
    <3> QED BY <2>3, <3>6, <3>7
  <2> QED BY <2>4, <2>5
<1>7. Stays(N)
  <2>1. Nat \subseteq S
    <3> HIDE DEF S
    <3> QED BY <1>5, <1>6, SetInduction
  <2> HIDE DEF Stays
  <2> QED BY <2>1
<1> QED BY <1>1, <1>3, <1>7

-----------------------------------------------------------------------------
(* Rings whose words stand for pages of their own.                         *)

LEMMA SpanCut ==
  ASSUME NEW a \in Int, NEW n \in Int, NEW m \in Int, 0 <= m, m <= n
  PROVE  /\ Span(a, n) = Span(a, m) \cup Span(a + m, n - m)
         /\ Span(a, m) \cap Span(a + m, n - m) = {}
BY DEF Span

LEMMA WordPagesBuilt ==
  /\ WordPages(0) = {}
  /\ \A a \in Nat, n \in Nat \ {0} :
       n <= MaxEntries => WordPages(BuildEntry(a, n)) = Span(a, n)
<1>1. WordPages(0) = {}
  BY WordType DEF WordPages, Span
<1>2. ASSUME NEW a \in Nat, NEW n \in Nat \ {0}, n <= MaxEntries
      PROVE  WordPages(BuildEntry(a, n)) = Span(a, n)
  BY <1>2, WordBuilt DEF WordPages
<1> QED BY <1>1, <1>2

LEMMA RingsGrow ==
  ASSUME NEW A, NEW B, A \subseteq B
  PROVE  Rings(A) \subseteq Rings(B)
BY DEF Rings

(* One slot gets a word, or is cleared.                                    *)
LEMMA RingStores ==
  ASSUME NEW A, NEW d \in Rings(A), NEW i \in 0 .. Sz - 1, NEW e \in Nat,
         WordPages(e) \cap A = {}
  PROVE  [d EXCEPT ![i] = e] \in Rings(A \cup WordPages(e))
<1> DEFINE f == [d EXCEPT ![i] = e]
<1>1. d \in Ring /\ f \in Ring
  BY DEF Rings, Ring
<1>2. \A k \in 0 .. Sz - 1 : f[k] = IF k = i THEN e ELSE d[k]
  BY <1>1 DEF Ring
<1>3. \A k \in 0 .. Sz - 1 : WordPages(d[k]) \subseteq A
  BY DEF Rings
<1>4. \A k, m \in 0 .. Sz - 1 : k # m => WordPages(d[k]) \cap WordPages(d[m]) = {}
  BY DEF Rings
<1> HIDE DEF f
<1>5. \A k \in 0 .. Sz - 1 : WordPages(f[k]) \subseteq A \cup WordPages(e)
  BY <1>2, <1>3
<1>6. ASSUME NEW k \in 0 .. Sz - 1, NEW m \in 0 .. Sz - 1, k # m
      PROVE  WordPages(f[k]) \cap WordPages(f[m]) = {}
  BY <1>2, <1>3, <1>4, <1>6
<1>7. f \in Rings(A \cup WordPages(e))
  BY <1>1, <1>5, <1>6 DEF Rings
<1> QED BY <1>7 DEF f

LEMMA RingClears ==
  ASSUME NEW A, NEW d \in Rings(A), NEW i \in 0 .. Sz - 1
  PROVE  /\ [d EXCEPT ![i] = 0] \in Rings(A \ WordPages(d[i]))
         /\ WordPages(d[i]) \subseteq A
<1> DEFINE f == [d EXCEPT ![i] = 0]
<1>1. d \in Ring /\ f \in Ring
  BY DEF Rings, Ring
<1>2. \A k \in 0 .. Sz - 1 : f[k] = IF k = i THEN 0 ELSE d[k]
  BY <1>1 DEF Ring
<1>3. \A k \in 0 .. Sz - 1 : WordPages(d[k]) \subseteq A
  BY DEF Rings
<1>4. \A k, m \in 0 .. Sz - 1 : k # m => WordPages(d[k]) \cap WordPages(d[m]) = {}
  BY DEF Rings
<1> HIDE DEF f
<1>5. \A k \in 0 .. Sz - 1 : WordPages(f[k]) \subseteq A \ WordPages(d[i])
  BY <1>2, <1>3, <1>4, WordPagesBuilt
<1>6. ASSUME NEW k \in 0 .. Sz - 1, NEW m \in 0 .. Sz - 1, k # m
      PROVE  WordPages(f[k]) \cap WordPages(f[m]) = {}
  BY <1>2, <1>4, <1>6, WordPagesBuilt
<1>7. f \in Rings(A \ WordPages(d[i]))
  BY <1>1, <1>5, <1>6 DEF Rings
<1> QED BY <1>3, <1>7 DEF f

(* An exchange moves words, and makes none.                                *)
LEMMA RingsClosed == \A A : \A lo, hi \in Int : Closed(Rings(A), lo, hi)
<1> SUFFICES ASSUME NEW A, NEW d \in Rings(A), NEW x \in Int, NEW y \in Int
             PROVE  Swap(d, x, y) \in Rings(A)
  BY DEF Closed, Rings
<1>1. PICK i \in 0 .. Sz - 1, j \in 0 .. Sz - 1 : i = x % Sz /\ j = y % Sz
  BY SizeFact
<1>2. d \in Ring
  BY DEF Rings
<1>3. PICK f \in Ring : f = Swap(d, x, y)
  BY <1>2, SwapFact
<1>4. \A k \in 0 .. Sz - 1 : f[k] = d[IF k = i THEN j ELSE IF k = j THEN i ELSE k]
  BY <1>1, <1>2, <1>3 DEF Swap, Ring
<1>5. \A k \in 0 .. Sz - 1 : WordPages(f[k]) \subseteq A
  BY <1>4 DEF Rings
<1>6. ASSUME NEW k \in 0 .. Sz - 1, NEW m \in 0 .. Sz - 1, k # m
      PROVE  WordPages(f[k]) \cap WordPages(f[m]) = {}
  <2>1. PICK a \in 0 .. Sz - 1, b \in 0 .. Sz - 1 : a # b /\ f[k] = d[a] /\ f[m] = d[b]
    BY <1>4, <1>6
  <2> QED BY <2>1 DEF Rings
<1> QED BY <1>3, <1>5, <1>6 DEF Rings

(* Two words that are neighbours become one.                               *)
LEMMA RingMerges ==
  ASSUME NEW A, NEW d \in Rings(A), NEW i \in 0 .. Sz - 1, NEW j \in 0 .. Sz - 1,
         GetAddr(d[i]) + GetPgCnt(d[i]) = GetAddr(d[j]),
         GetPgCnt(d[i]) + GetPgCnt(d[j]) < MaxEntries
  PROVE  LET e == BuildEntry(GetAddr(d[i]), GetPgCnt(d[i]) + GetPgCnt(d[j]))
         IN  /\ WordPages(e) = WordPages(d[i]) \cup WordPages(d[j])
             /\ i # j /\ e \in Nat
             /\ [d EXCEPT ![j] = e, ![i] = 0] \in Rings(A)
<1>1. d \in Ring
  BY DEF Rings
<1>2. d[i] \in Nat /\ d[j] \in Nat
  BY <1>1 DEF Ring
<1>3. PICK a \in Nat, n \in Nat \ {0} : a = GetAddr(d[i]) /\ n = GetPgCnt(d[i])
  BY <1>2, WordType
<1>4. PICK b \in Nat, m \in Nat \ {0} : b = GetAddr(d[j]) /\ m = GetPgCnt(d[j])
  BY <1>2, WordType
<1>5. a + n = b /\ n + m < MaxEntries /\ i # j
  BY <1>3, <1>4
<1>6. PICK e \in Nat : e = BuildEntry(a, n + m) /\ WordPages(e) = Span(a, n + m)
  <2>1. PICK c \in Nat \ {0} : c = n + m /\ c <= MaxEntries
    BY <1>5, MaxEntriesAssumption
  <2> QED BY <2>1, WordBuilt, WordPagesBuilt
<1>7. Span(a, n + m) = WordPages(d[i]) \cup WordPages(d[j])
  BY <1>3, <1>4, <1>5 DEF WordPages, Span
<1>8. PICK B : B = (A \ WordPages(d[i])) \ WordPages(d[j])
  OBVIOUS
<1>9. PICK f \in Rings(A \ WordPages(d[i])) : f = [d EXCEPT ![i] = 0]
  BY RingClears
<1>10. f[j] = d[j]
  BY <1>1, <1>5, <1>9 DEF Ring
<1>11. PICK g \in Rings(B) : g = [f EXCEPT ![j] = 0]
  <2>1. PICK C : C = A \ WordPages(d[i])
    OBVIOUS
  <2>2. f \in Rings(C)
    BY <1>9, <2>1
  <2>3. [f EXCEPT ![j] = 0] \in Rings(C \ WordPages(f[j]))
    BY <2>2, RingClears
  <2> QED BY <1>8, <1>10, <2>1, <2>3
<1>12. [g EXCEPT ![j] = e] \in Rings(B \cup WordPages(e))
  <2>1. WordPages(e) \cap B = {}
    BY <1>6, <1>7, <1>8
  <2> QED BY <1>11, <2>1, RingStores
<1>13. WordPages(d[i]) \subseteq A /\ WordPages(d[j]) \subseteq A
  BY DEF Rings
<1>14. B \cup WordPages(e) = A
  BY <1>6, <1>7, <1>8, <1>13
<1>15. [g EXCEPT ![j] = e] = [d EXCEPT ![j] = e, ![i] = 0]
  BY <1>1, <1>5, <1>9, <1>11 DEF Ring
<1> QED BY <1>3, <1>4, <1>5, <1>6, <1>7, <1>12, <1>14, <1>15

-----------------------------------------------------------------------------
(* Positions, and rings with nothing behind the window.                    *)

LEMMA Division ==
  ASSUME NEW n \in Nat \ {0}, NEW x \in Int
  PROVE  \E r \in Int, d \in Int : r = x % n /\ 0 <= r /\ r < n /\ x = d * n + r
<1>1. x = (x \div n) * n + (x % n) /\ x \div n \in Int /\ x % n \in 0 .. n - 1
  OBVIOUS
<1>2. PICK d \in Int : d = x \div n
  BY <1>1
<1>3. PICK r \in Int : r = x % n /\ 0 <= r /\ r < n
  BY <1>1
<1>4. x = d * n + r
  BY <1>1, <1>2, <1>3
<1> QED BY <1>3, <1>4

LEMMA ModIs ==
  ASSUME NEW x \in Int, -Sz <= x, x < 2 * Sz
  PROVE  x % Sz = IF x < 0 THEN x + Sz ELSE IF x < Sz THEN x ELSE x - Sz
<1>1. PICK n \in Nat \ {0} : n = Sz
  BY SizeFact
<1>2. PICK r \in Int, d \in Int : r = x % n /\ 0 <= r /\ r < n /\ x = d * n + r
  BY Division
<1>3. -2 < d /\ d < 2
  <2>1. PICK y \in Int : y = d * n /\ x = y + r
    BY <1>2
  <2>2. (-2) * n < d * n /\ d * n < 2 * n
    BY <1>1, <1>2, <2>1
  <2> QED BY <2>2, Multiples
<1>4. d = -1 \/ d = 0 \/ d = 1
  BY <1>3
<1> QED BY <1>1, <1>2, <1>4

LEMMA NextIs ==
  ASSUME NEW h \in 0 .. Sz - 1
  PROVE  /\ Next1(h) = IF h = Sz - 1 THEN 0 ELSE h + 1
         /\ (IF h > 0 THEN (h - 1) % Sz ELSE Sz - 1) = IF h = 0 THEN Sz - 1 ELSE h - 1
<1>1. PICK x \in Int, y \in Int : x = h + 1 /\ y = h - 1
  OBVIOUS
<1>2. x % Sz = IF x < 0 THEN x + Sz ELSE IF x < Sz THEN x ELSE x - Sz
  <2>1. -Sz <= x /\ x < 2 * Sz
    BY <1>1, SizeFact
  <2> QED BY <2>1, ModIs
<1>3. y % Sz = IF y < 0 THEN y + Sz ELSE IF y < Sz THEN y ELSE y - Sz
  <2>1. -Sz <= y /\ y < 2 * Sz
    BY <1>1, SizeFact
  <2> QED BY <2>1, ModIs
<1>4. Next1(h) = x % Sz
  BY <1>1 DEF Next1
<1>5. h > 0 => (h - 1) % Sz = y % Sz
  BY <1>1
<1>6. x % Sz = IF h = Sz - 1 THEN 0 ELSE h + 1
  BY <1>1, <1>2, SizeFact
<1>7. h > 0 => y % Sz = h - 1
  BY <1>1, <1>3, SizeFact
<1> QED BY <1>4, <1>5, <1>6, <1>7

LEMMA SameNext ==
  ASSUME NEW at \in Int, NEW h \in 0 .. Sz - 1, at % Sz = h
  PROVE  Next1(at) = Next1(h)
<1>1. PICK n \in Nat \ {0}, k \in Int : n = Sz /\ at = k * n + h
  <2>1. PICK n \in Nat \ {0} : n = Sz
    BY SizeFact
  <2>2. at = (at \div n) * n + (at % n) /\ at \div n \in Int
    BY <2>1
  <2> QED BY <2>1, <2>2
<1>2. PICK x \in Int : x = at + 1
  OBVIOUS
<1>3. PICK r \in Int, d \in Int : r = x % n /\ 0 <= r /\ r < n /\ x = d * n + r
  BY Division
<1>4. PICK g \in Int : g = d - k /\ g * n = d * n - k * n
  <2>1. PICK g \in Int : d = k + g
    <3>1. d - k \in Int /\ d = k + (d - k)
      OBVIOUS
    <3> QED BY <3>1
  <2>2. d * n = k * n + g * n
    BY <2>1
  <2> QED BY <2>1, <2>2
<1>5. g * n = h + 1 - r
  <2>1. PICK y \in Int, z \in Int : y = d * n /\ z = k * n
    OBVIOUS
  <2> QED BY <1>1, <1>2, <1>3, <1>4, <2>1
<1>6. -1 < g /\ g < 2
  <2>1. (-1) * n < g * n /\ g * n < 2 * n
    BY <1>1, <1>3, <1>5
  <2> QED BY <2>1, Multiples
<1>7. g = 0 \/ g = 1
  BY <1>6
<1>8. r = IF h = n - 1 THEN 0 ELSE h + 1
  BY <1>1, <1>3, <1>5, <1>7
<1> QED BY <1>1, <1>2, <1>3, <1>8, NextIs DEF Next1

LEMMA ApartIs ==
  ASSUME NEW h \in 0 .. Sz - 1, NEW t \in 0 .. Sz - 1
  PROVE  Apart(h, t) \in 0 .. Sz - 1 /\ (t - h) % Sz = Apart(h, t)
<1>1. PICK x \in Int : x = t - h
  OBVIOUS
<1>2. x % Sz = IF x < 0 THEN x + Sz ELSE IF x < Sz THEN x ELSE x - Sz
  <2>1. -Sz <= x /\ x < 2 * Sz
    BY <1>1, SizeFact
  <2> QED BY <2>1, ModIs
<1> QED BY <1>1, <1>2, SizeFact DEF Apart

(* The first block is taken out of the window, or a block is added to it   *)
(* at either end.                                                          *)
LEMMA TightTake ==
  ASSUME NEW d \in Ring, NEW h \in 0 .. Sz - 1, NEW t \in 0 .. Sz - 1, NEW n \in Int,
         TightAt(d, h, t, n), h # t, NEW h1 \in 0 .. Sz - 1, h1 = Next1(h)
  PROVE  /\ TightAt([d EXCEPT ![h] = 0], h1, t, n - 1) /\ GetAddr(d[h]) # 0
         /\ n - 1 = Apart(h1, t) /\ h1 # Next1(t)
<1>1. h1 = IF h = Sz - 1 THEN 0 ELSE h + 1
  BY NextIs
<1>2. Next1(t) = IF t = Sz - 1 THEN 0 ELSE t + 1
  BY NextIs
<1>3. Apart(h, h) < Apart(h, t)
  BY SizeFact DEF Apart
<1>4. GetAddr(d[h]) # 0 /\ n = Apart(h, t)
  BY <1>3 DEF TightAt
<1>5. Apart(h1, t) = Apart(h, t) - 1
  BY <1>1, SizeFact DEF Apart
<1>6. ASSUME NEW i \in 0 .. Sz - 1
      PROVE  IF Apart(h1, i) < Apart(h1, t)
               THEN GetAddr([d EXCEPT ![h] = 0][i]) # 0 ELSE [d EXCEPT ![h] = 0][i] = 0
  <2>1. CASE i = h
    <3>1. ~(Apart(h1, i) < Apart(h1, t))
      BY <1>1, <2>1, SizeFact DEF Apart
    <3>2. [d EXCEPT ![h] = 0][i] = 0
      BY <2>1 DEF Ring
    <3> QED BY <3>1, <3>2
  <2>2. CASE i # h
    <3>1. Apart(h1, i) < Apart(h1, t) <=> Apart(h, i) < Apart(h, t)
      BY <1>1, <2>2, SizeFact DEF Apart
    <3>2. [d EXCEPT ![h] = 0][i] = d[i]
      BY <2>2 DEF Ring
    <3> QED BY <3>1, <3>2 DEF TightAt
  <2> QED BY <2>1, <2>2
<1>7. TightAt([d EXCEPT ![h] = 0], h1, t, n - 1)
  BY <1>4, <1>5, <1>6 DEF TightAt
<1>8. h1 # Next1(t)
  BY <1>1, <1>2
<1> QED BY <1>4, <1>5, <1>7, <1>8

LEMMA TightPut ==
  ASSUME NEW d \in Ring, NEW h \in 0 .. Sz - 1, NEW t \in 0 .. Sz - 1, NEW n \in Int,
         TightAt(d, h, t, n), NEW t1 \in 0 .. Sz - 1, t1 = Next1(t), h # t1,
         NEW e \in Nat, GetAddr(e) # 0
  PROVE  TightAt([d EXCEPT ![t] = e], h, t1, n + 1) /\ d[t] = 0
<1>1. t1 = IF t = Sz - 1 THEN 0 ELSE t + 1
  BY NextIs
<1>2. n = Apart(h, t)
  BY DEF TightAt
<1>3. Apart(h, t1) = Apart(h, t) + 1
  BY <1>1, SizeFact DEF Apart
<1>4. ASSUME NEW i \in 0 .. Sz - 1
      PROVE  IF Apart(h, i) < Apart(h, t1)
               THEN GetAddr([d EXCEPT ![t] = e][i]) # 0 ELSE [d EXCEPT ![t] = e][i] = 0
  <2>1. CASE i = t
    <3>1. Apart(h, i) < Apart(h, t1)
      BY <1>3, <2>1, ApartIs
    <3>2. [d EXCEPT ![t] = e][i] = e
      BY <2>1 DEF Ring
    <3> QED BY <3>1, <3>2
  <2>2. CASE i # t
    <3>1. Apart(h, i) < Apart(h, t1) <=> Apart(h, i) < Apart(h, t)
      BY <1>1, <2>2, SizeFact DEF Apart
    <3>2. [d EXCEPT ![t] = e][i] = d[i]
      BY <2>2 DEF Ring
    <3> QED BY <3>1, <3>2 DEF TightAt
  <2> QED BY <2>1, <2>2
<1>5. d[t] = 0
  BY ApartIs DEF TightAt
<1> QED BY <1>2, <1>3, <1>4, <1>5 DEF TightAt

LEMMA TightPutFront ==
  ASSUME NEW d \in Ring, NEW h \in 0 .. Sz - 1, NEW t \in 0 .. Sz - 1, NEW n \in Int,
         TightAt(d, h, t, n), h # Next1(t), NEW h1 \in 0 .. Sz - 1,
         h1 = (IF h = 0 THEN Sz - 1 ELSE h - 1), NEW e \in Nat, GetAddr(e) # 0
  PROVE  TightAt([d EXCEPT ![h1] = e], h1, t, n + 1) /\ d[h1] = 0
<1>1. h # (IF t = Sz - 1 THEN 0 ELSE t + 1)
  BY NextIs
<1>2. n = Apart(h, t)
  BY DEF TightAt
<1>3. Apart(h1, t) = Apart(h, t) + 1
  BY <1>1, SizeFact DEF Apart
<1>4. ASSUME NEW i \in 0 .. Sz - 1
      PROVE  IF Apart(h1, i) < Apart(h1, t)
               THEN GetAddr([d EXCEPT ![h1] = e][i]) # 0 ELSE [d EXCEPT ![h1] = e][i] = 0
  <2>1. CASE i = h1
    <3>1. Apart(h1, i) < Apart(h1, t)
      <4>1. Apart(h1, i) = 0
        BY <2>1 DEF Apart
      <4>2. Apart(h, t) >= 0 /\ Apart(h, t) \in Int
        BY ApartIs
      <4> QED BY <1>3, <4>1, <4>2
    <3>2. [d EXCEPT ![h1] = e][i] = e
      BY <2>1 DEF Ring
    <3> QED BY <3>1, <3>2
  <2>2. CASE i # h1
    <3>1. Apart(h1, i) < Apart(h1, t) <=> Apart(h, i) < Apart(h, t)
      BY <1>1, <2>2, SizeFact DEF Apart
    <3>2. [d EXCEPT ![h1] = e][i] = d[i]
      BY <2>2 DEF Ring
    <3> QED BY <3>1, <3>2 DEF TightAt
  <2> QED BY <2>1, <2>2
<1>5. d[h1] = 0
  <2>1. ~(Apart(h, h1) < Apart(h, t))
    BY <1>1, SizeFact DEF Apart
  <2> QED BY <2>1 DEF TightAt
<1> QED BY <1>2, <1>3, <1>4, <1>5 DEF TightAt

(* A merge at the head: the block behind it gets the pages of both.        *)
LEMMA TightMerge ==
  ASSUME NEW d \in Ring, NEW h \in 0 .. Sz - 1, NEW t \in 0 .. Sz - 1, NEW n \in Int,
         TightAt(d, h, t, n), NEW j \in 0 .. Sz - 1, j = Next1(h), NEW e \in Nat,
         GetAddr(e) = GetAddr(d[h]), GetAddr(d[h]) + GetPgCnt(d[h]) = GetAddr(d[j])
  PROVE  TightAt([d EXCEPT ![j] = e, ![h] = 0], j, t, n - 1)
<1>1. GetAddr(0) = 0 /\ d[h] \in Nat /\ d[j] \in Nat
  BY WordType DEF Ring
<1>2. PICK a \in Nat, m \in Nat \ {0}, b \in Nat :
        a = GetAddr(d[h]) /\ m = GetPgCnt(d[h]) /\ b = GetAddr(d[j])
  BY <1>1, WordType
<1>3. GetAddr(d[j]) # 0 /\ h # j
  BY <1>2
<1>4. Apart(h, j) < Apart(h, t)
  BY <1>1, <1>3 DEF TightAt
<1>5. j = IF h = Sz - 1 THEN 0 ELSE h + 1
  BY NextIs
<1>6. h # t /\ Apart(h, h) < Apart(h, t)
  BY <1>3, <1>4, <1>5, SizeFact DEF Apart
<1>7. GetAddr(d[h]) # 0 /\ n = Apart(h, t)
  BY <1>6 DEF TightAt
<1>8. Apart(j, t) = Apart(h, t) - 1
  BY <1>5, <1>6, SizeFact DEF Apart
<1> DEFINE f == [d EXCEPT ![j] = e, ![h] = 0]
<1>9. ASSUME NEW i \in 0 .. Sz - 1
      PROVE  IF Apart(j, i) < Apart(j, t) THEN GetAddr(f[i]) # 0 ELSE f[i] = 0
  <2>1. CASE i = h
    <3>1. ~(Apart(j, i) < Apart(j, t))
      BY <1>5, <2>1, SizeFact DEF Apart
    <3>2. f[i] = 0
      BY <2>1 DEF Ring
    <3> QED BY <3>1, <3>2
  <2>2. CASE i = j
    <3>1. Apart(j, i) < Apart(j, t)
      BY <1>4, <1>5, <2>2, SizeFact DEF Apart
    <3>2. f[i] = e
      BY <1>3, <2>2 DEF Ring
    <3> QED BY <1>7, <3>1, <3>2
  <2>3. CASE i # h /\ i # j
    <3>1. Apart(j, i) < Apart(j, t) <=> Apart(h, i) < Apart(h, t)
      BY <1>5, <1>6, <2>3, SizeFact DEF Apart
    <3>2. f[i] = d[i]
      BY <2>3 DEF Ring
    <3> QED BY <3>1, <3>2 DEF TightAt
  <2> QED BY <2>1, <2>2, <2>3
<1> HIDE DEF f
<1>10. TightAt(f, j, t, n - 1)
  BY <1>7, <1>8, <1>9 DEF TightAt
<1> QED BY <1>10 DEF f

(* What the words stand for, when one slot changes.                        *)
LEMMA CoversStores ==
  ASSUME NEW A, NEW d \in Ring, CoversAt(A, d), NEW i \in 0 .. Sz - 1, d[i] = 0, NEW e \in Nat
  PROVE  CoversAt(A \cup WordPages(e), [d EXCEPT ![i] = e])
<1> DEFINE f == [d EXCEPT ![i] = e]
<1>1. f[i] = e /\ \A k \in 0 .. Sz - 1 : k # i => f[k] = d[k]
  BY DEF Ring
<1>2. WordPages(d[i]) = {}
  BY WordPagesBuilt
<1> HIDE DEF f
<1>3. CoversAt(A \cup WordPages(e), f)
  BY <1>1, <1>2 DEF CoversAt
<1> QED BY <1>3 DEF f

LEMMA CoversClears ==
  ASSUME NEW A, NEW d \in Ring, CoversAt(A, d), NEW i \in 0 .. Sz - 1
  PROVE  CoversAt(A \ WordPages(d[i]), [d EXCEPT ![i] = 0])
<1> DEFINE f == [d EXCEPT ![i] = 0]
<1>1. \A k \in 0 .. Sz - 1 : k # i => f[k] = d[k]
  BY DEF Ring
<1> HIDE DEF f
<1>2. CoversAt(A \ WordPages(d[i]), f)
  BY <1>1 DEF CoversAt
<1> QED BY <1>2 DEF f

LEMMA CoversMerge ==
  ASSUME NEW A, NEW d \in Ring, CoversAt(A, d), NEW i \in 0 .. Sz - 1, NEW j \in 0 .. Sz - 1,
         i # j, NEW e \in Nat, WordPages(e) = WordPages(d[i]) \cup WordPages(d[j])
  PROVE  CoversAt(A, [d EXCEPT ![j] = e, ![i] = 0])
<1> DEFINE f == [d EXCEPT ![j] = e, ![i] = 0]
<1>1. f[j] = e /\ \A k \in 0 .. Sz - 1 : k # i /\ k # j => f[k] = d[k]
  BY DEF Ring
<1> HIDE DEF f
<1>2. CoversAt(A, f)
  BY <1>1 DEF CoversAt
<1> QED BY <1>2 DEF f

(* Exchanges inside the window, and exchanges outside it, leave a ring     *)
(* tight, and no exchange changes what its words stand for.                *)
Windowed(A, h, t, n, m, c) ==
  {x \in Rings(A) : m => TightAt(x, h, t, n) /\ (c => CoversAt(A, x))}

LEMMA InWindow ==
  ASSUME NEW h \in 0 .. Sz - 1, NEW t \in 0 .. Sz - 1,
         NEW hi \in Int, hi = (IF t - 1 < h THEN t - 1 + Sz ELSE t - 1),
         NEW x \in Int, h <= x, x <= hi, NEW i \in 0 .. Sz - 1, i = x % Sz
  PROVE  Apart(h, i) < Apart(h, t) <=> h # t
<1>1. 0 <= x /\ x < 2 * Sz /\ Sz \in Nat
  BY SizeFact
<1>2. -Sz <= x
  BY <1>1
<1>3. x % Sz = IF x < 0 THEN x + Sz ELSE IF x < Sz THEN x ELSE x - Sz
  BY <1>1, <1>2, ModIs
<1>4. i = IF x < Sz THEN x ELSE x - Sz
  BY <1>1, <1>3
<1> HIDE <1>3
<1>5. ASSUME h = t PROVE ~(Apart(h, i) < Apart(h, t))
  BY <1>5, ApartIs DEF Apart
<1>6. ASSUME h # t PROVE Apart(h, i) < Apart(h, t)
  <2>1. PICK j \in Int : j = i /\ (j = x \/ j = x - Sz) /\ 0 <= j /\ j < Sz
    BY <1>1, <1>4
  <2>2. Apart(h, j) < Apart(h, t)
    BY <1>1, <1>6, <2>1 DEF Apart
  <2> QED BY <2>1, <2>2
<1> QED BY <1>5, <1>6

LEMMA WindowClosed ==
  ASSUME NEW A, NEW h \in 0 .. Sz - 1, NEW t \in 0 .. Sz - 1, NEW n, NEW m, NEW c,
         NEW hi \in Int, hi = (IF t - 1 < h THEN t - 1 + Sz ELSE t - 1)
  PROVE  Closed(Windowed(A, h, t, n, m, c), h, hi)
<1> DEFINE R == Windowed(A, h, t, n, m, c)
<1>1. R \subseteq Ring
  BY DEF Rings, Windowed
<1>2. ASSUME NEW d \in R, NEW x \in Int, NEW y \in Int, h <= x, x <= hi, h <= y, y <= hi
      PROVE  Swap(d, x, y) \in R
  <2>1. PICK i \in 0 .. Sz - 1, j \in 0 .. Sz - 1 : i = x % Sz /\ j = y % Sz
    BY SizeFact
  <2>2. d \in Ring /\ d \in Rings(A)
    BY <1>1 DEF Windowed
  <2>3. PICK f : f = Swap(d, x, y) /\ f \in Rings(A)
    BY <1>2, <2>2, RingsClosed DEF Closed
  <2>4. \A k \in 0 .. Sz - 1 : f[k] = d[IF k = i THEN j ELSE IF k = j THEN i ELSE k]
    BY <2>1, <2>2, <2>3 DEF Swap, Ring
  <2>5. Apart(h, i) < Apart(h, t) <=> Apart(h, j) < Apart(h, t)
    <3>1. Apart(h, i) < Apart(h, t) <=> h # t
      BY <1>2, <2>1, InWindow
    <3>2. Apart(h, j) < Apart(h, t) <=> h # t
      BY <1>2, <2>1, InWindow
    <3> QED BY <3>1, <3>2
  <2>6. TightAt(d, h, t, n) => TightAt(f, h, t, n)
    BY <2>4, <2>5 DEF TightAt
  <2>7. CoversAt(A, d) => CoversAt(A, f)
    <3> SUFFICES ASSUME CoversAt(A, d), NEW p \in A
                 PROVE  \E k \in 0 .. Sz - 1 : p \in WordPages(f[k])
      BY DEF CoversAt
    <3>1. PICK k \in 0 .. Sz - 1 : p \in WordPages(d[k])
      BY DEF CoversAt
    <3>2. PICK o \in 0 .. Sz - 1 : f[o] = d[k]
      BY <2>4
    <3> QED BY <3>1, <3>2
  <2>8. f \in R
    BY <2>3, <2>6, <2>7 DEF Windowed
  <2> QED BY <2>3, <2>8
<1> HIDE DEF R
<1>3. Closed(R, h, hi)
  BY <1>1, <1>2 DEF Closed
<1> QED BY <1>3 DEF R

-----------------------------------------------------------------------------
(* Queues whose words stand for pages of their own.                        *)

(* What compact_queue calls hi, and the queue that it has sorted.          *)
WindowEnd(q) == IF q.tail - 1 < q.head THEN q.tail - 1 + Sz ELSE q.tail - 1

SortedQueue(q) == [q EXCEPT !.slot = QuicksortPgs(q.slot, q.head, WindowEnd(q))]

(* How many chunks pagealloc_free makes of a run of pages.                 *)
ChunkTurns(pages) == (pages + MaxEntries - 1) \div MaxEntries

(* compact_queue goes through the states that its turns make.              *)
LEMMA CompactTurns ==
  ASSUME NEW q, (WindowEnd(q) - 1 - q.head) \in Int
  PROVE  \E st : /\ st[0] = SortedQueue(q)
                 /\ \A k \in 1 .. (WindowEnd(q) - 1 - q.head) : st[k] = MergeAt(st[k - 1], q.head + k - 1)
                 /\ Compact(q) = (IF (WindowEnd(q) - 1 - q.head) > 0 THEN st[(WindowEnd(q) - 1 - q.head)] ELSE st[0])
<1> DEFINE s0 == SortedQueue(q)
           Runs(st, m) ==
             st[0] = s0 /\ \A k \in 1 .. m : st[k] = MergeAt(st[k - 1], q.head + k - 1)
           S == {m \in Nat : \E st : Runs(st, m)}
<1>1. 0 \in S
  <2> HIDE DEF s0
  <2>1. Runs([k \in {0} |-> s0], 0)
    OBVIOUS
  <2> QED BY <2>1
<1>2. ASSUME NEW m \in Nat, m \in S PROVE m + 1 \in S
  <2> HIDE DEF s0
  <2>1. PICK st : Runs(st, m)
    BY <1>2
  <2> DEFINE next == [k \in 0 .. m + 1 |->
                        IF k = m + 1 THEN MergeAt(st[m], q.head + (m + 1) - 1) ELSE st[k]]
  <2>2. next[0] = s0
    BY <2>1
  <2>3. ASSUME NEW k \in 1 .. m + 1 PROVE next[k] = MergeAt(next[k - 1], q.head + k - 1)
    <3>1. PICK j \in Int : j = k - 1 /\ j \in 0 .. m
      OBVIOUS
    <3>2. next[j] = st[j] /\ next[k] = IF k = m + 1 THEN MergeAt(st[m], q.head + (m + 1) - 1) ELSE st[k]
      BY <3>1
    <3> HIDE DEF next
    <3>3. k = m + 1 => j = m
      BY <3>1
    <3>4. k # m + 1 => k \in 1 .. m
      OBVIOUS
    <3> QED BY <2>1, <3>1, <3>2, <3>3, <3>4
  <2>4. Runs(next, m + 1)
    BY <2>2, <2>3
  <2> HIDE DEF Runs, next
  <2> QED BY <2>4
<1>3. Nat \subseteq S
  <2> HIDE DEF S
  <2> QED BY <1>1, <1>2, SetInduction
<1>4. PICK n \in Int : n = (WindowEnd(q) - 1 - q.head)
  OBVIOUS
<1>5. PICK st : Runs(st, IF n > 0 THEN n ELSE 0)
  <2> HIDE DEF Runs
  <2> QED BY <1>3
<1> DEFINE Behind(g, k) == IF k = 0 THEN {s0} ELSE {MergeAt(s, q.head + k - 1) : s \in g[k - 1]}
           after == CHOOSE g : g = [k \in 0 .. n |-> Behind(g, k)]
           ones  == [k \in 0 .. n |-> {st[k]}]
<1>6. ASSUME n > 0 PROVE after[n] = {st[n]}
  <2>1. Runs(st, n)
    BY <1>5, <1>6
  <2>2. \A k \in 0 .. n : {st[k]} = Behind(ones, k)
    <3>1. {st[0]} = Behind(ones, 0)
      BY <2>1
    <3>2. ASSUME NEW k \in 1 .. n PROVE {st[k]} = Behind(ones, k)
      <4>1. ones[k - 1] = {st[k - 1]}
        OBVIOUS
      <4> HIDE DEF ones, s0
      <4>2. Behind(ones, k) = {MergeAt(st[k - 1], q.head + k - 1)}
        BY <4>1
      <4> QED BY <2>1, <4>2
    <3> HIDE DEF Behind, ones
    <3> QED BY <3>1, <3>2
  <2>3. ones = [k \in 0 .. n |-> Behind(ones, k)]
    <3> HIDE DEF Behind
    <3> QED BY <2>2
  <2>4. after = [k \in 0 .. n |-> Behind(after, k)]
    <3> HIDE DEF Behind, ones
    <3> QED BY <2>3
  <2> HIDE DEF after, s0
  <2>5. after[0] = {st[0]}
    BY <1>6, <2>1, <2>4
  <2>6. ASSUME NEW k \in 1 .. n, after[k - 1] = {st[k - 1]} PROVE after[k] = {st[k]}
    <3>1. after[k] = Behind(after, k)
      <4> HIDE DEF Behind
      <4> QED BY <2>4
    <3>2. Behind(after, k) = {MergeAt(st[k - 1], q.head + k - 1)}
      BY <2>6
    <3> QED BY <2>1, <3>1, <3>2
  <2>7. n \in Nat
    BY <1>6
  <2> HIDE DEF Runs, Behind, S, ones
  <2> QED BY <2>5, <2>6, <2>7, SameTurns
<1>7. (IF n > 0 THEN CHOOSE s \in after[n] : TRUE ELSE s0) = IF n > 0 THEN st[n] ELSE st[0]
  <2> HIDE DEF after, s0
  <2> QED BY <1>5, <1>6
<1>8. Compact(q) = (IF n > 0 THEN st[n] ELSE st[0])
  BY <1>4, <1>7 DEF Loop, Compact, WindowEnd, SortedQueue
<1> HIDE DEF s0
<1>9. st[0] = s0 /\ \A k \in 1 .. n : st[k] = MergeAt(st[k - 1], q.head + k - 1)
  BY <1>5
<1> QED BY <1>4, <1>8, <1>9 DEF s0

(* pagealloc_free goes through the states that its turns make.             *)
LEMMA FreeTurns ==
  ASSUME NEW q, NEW page, NEW pages, ChunkTurns(pages) \in Int
  PROVE  \E st : /\ st[0] = q
                 /\ \A k \in 1 .. ChunkTurns(pages) : st[k] = InsertChunk(st[k - 1], page, pages, k)
                 /\ FreePages(q, page, pages) = (IF ChunkTurns(pages) > 0 THEN st[ChunkTurns(pages)] ELSE st[0])
<1> DEFINE s0 == q
           Runs(st, m) ==
             st[0] = s0 /\ \A k \in 1 .. m : st[k] = InsertChunk(st[k - 1], page, pages, k)
           S == {m \in Nat : \E st : Runs(st, m)}
<1>1. 0 \in S
  <2> HIDE DEF s0
  <2>1. Runs([k \in {0} |-> s0], 0)
    OBVIOUS
  <2> QED BY <2>1
<1>2. ASSUME NEW m \in Nat, m \in S PROVE m + 1 \in S
  <2> HIDE DEF s0
  <2>1. PICK st : Runs(st, m)
    BY <1>2
  <2> DEFINE next == [k \in 0 .. m + 1 |->
                        IF k = m + 1 THEN InsertChunk(st[m], page, pages, (m + 1)) ELSE st[k]]
  <2>2. next[0] = s0
    BY <2>1
  <2>3. ASSUME NEW k \in 1 .. m + 1 PROVE next[k] = InsertChunk(next[k - 1], page, pages, k)
    <3>1. PICK j \in Int : j = k - 1 /\ j \in 0 .. m
      OBVIOUS
    <3>2. next[j] = st[j] /\ next[k] = IF k = m + 1 THEN InsertChunk(st[m], page, pages, (m + 1)) ELSE st[k]
      BY <3>1
    <3> HIDE DEF next
    <3>3. k = m + 1 => j = m
      BY <3>1
    <3>4. k # m + 1 => k \in 1 .. m
      OBVIOUS
    <3> QED BY <2>1, <3>1, <3>2, <3>3, <3>4
  <2>4. Runs(next, m + 1)
    BY <2>2, <2>3
  <2> HIDE DEF Runs, next
  <2> QED BY <2>4
<1>3. Nat \subseteq S
  <2> HIDE DEF S
  <2> QED BY <1>1, <1>2, SetInduction
<1>4. PICK n \in Int : n = ChunkTurns(pages)
  OBVIOUS
<1>5. PICK st : Runs(st, IF n > 0 THEN n ELSE 0)
  <2> HIDE DEF Runs
  <2> QED BY <1>3
<1> DEFINE Behind(g, k) == IF k = 0 THEN {s0} ELSE {InsertChunk(s, page, pages, k) : s \in g[k - 1]}
           after == CHOOSE g : g = [k \in 0 .. n |-> Behind(g, k)]
           ones  == [k \in 0 .. n |-> {st[k]}]
<1>6. ASSUME n > 0 PROVE after[n] = {st[n]}
  <2>1. Runs(st, n)
    BY <1>5, <1>6
  <2>2. \A k \in 0 .. n : {st[k]} = Behind(ones, k)
    <3>1. {st[0]} = Behind(ones, 0)
      BY <2>1
    <3>2. ASSUME NEW k \in 1 .. n PROVE {st[k]} = Behind(ones, k)
      <4>1. ones[k - 1] = {st[k - 1]}
        OBVIOUS
      <4> HIDE DEF ones, s0
      <4>2. Behind(ones, k) = {InsertChunk(st[k - 1], page, pages, k)}
        BY <4>1
      <4> QED BY <2>1, <4>2
    <3> HIDE DEF Behind, ones
    <3> QED BY <3>1, <3>2
  <2>3. ones = [k \in 0 .. n |-> Behind(ones, k)]
    <3> HIDE DEF Behind
    <3> QED BY <2>2
  <2>4. after = [k \in 0 .. n |-> Behind(after, k)]
    <3> HIDE DEF Behind, ones
    <3> QED BY <2>3
  <2> HIDE DEF after, s0
  <2>5. after[0] = {st[0]}
    BY <1>6, <2>1, <2>4
  <2>6. ASSUME NEW k \in 1 .. n, after[k - 1] = {st[k - 1]} PROVE after[k] = {st[k]}
    <3>1. after[k] = Behind(after, k)
      <4> HIDE DEF Behind
      <4> QED BY <2>4
    <3>2. Behind(after, k) = {InsertChunk(st[k - 1], page, pages, k)}
      BY <2>6
    <3> QED BY <2>1, <3>1, <3>2
  <2>7. n \in Nat
    BY <1>6
  <2> HIDE DEF Runs, Behind, S, ones
  <2> QED BY <2>5, <2>6, <2>7, SameTurns
<1>7. (IF n > 0 THEN CHOOSE s \in after[n] : TRUE ELSE s0) = IF n > 0 THEN st[n] ELSE st[0]
  <2> HIDE DEF after, s0
  <2> QED BY <1>5, <1>6
<1>8. FreePages(q, page, pages) = (IF n > 0 THEN st[n] ELSE st[0])
  BY <1>4, <1>7 DEF Loop, FreePages, ChunkTurns
<1> HIDE DEF s0
<1>9. st[0] = s0 /\ \A k \in 1 .. n : st[k] = InsertChunk(st[k - 1], page, pages, k)
  BY <1>5
<1> QED BY <1>4, <1>8, <1>9 DEF s0

(* So does the inner loop of pagealloc_alloc.                              *)
LEMMA ScanTurns ==
  ASSUME NEW q, NEW pages, q.ent_cnt \in Int
  PROVE  \E st : /\ st[0] = [found |-> FALSE, page |-> 0, q |-> q]
                 /\ \A k \in 1 .. q.ent_cnt : st[k] = Visit(st[k - 1], pages)
                 /\ ScanPass(q, pages) = (IF q.ent_cnt > 0 THEN st[q.ent_cnt] ELSE st[0])
<1> DEFINE s0 == [found |-> FALSE, page |-> 0, q |-> q]
           Runs(st, m) ==
             st[0] = s0 /\ \A k \in 1 .. m : st[k] = Visit(st[k - 1], pages)
           S == {m \in Nat : \E st : Runs(st, m)}
<1>1. 0 \in S
  <2> HIDE DEF s0
  <2>1. Runs([k \in {0} |-> s0], 0)
    OBVIOUS
  <2> QED BY <2>1
<1>2. ASSUME NEW m \in Nat, m \in S PROVE m + 1 \in S
  <2> HIDE DEF s0
  <2>1. PICK st : Runs(st, m)
    BY <1>2
  <2> DEFINE next == [k \in 0 .. m + 1 |->
                        IF k = m + 1 THEN Visit(st[m], pages) ELSE st[k]]
  <2>2. next[0] = s0
    BY <2>1
  <2>3. ASSUME NEW k \in 1 .. m + 1 PROVE next[k] = Visit(next[k - 1], pages)
    <3>1. PICK j \in Int : j = k - 1 /\ j \in 0 .. m
      OBVIOUS
    <3>2. next[j] = st[j] /\ next[k] = IF k = m + 1 THEN Visit(st[m], pages) ELSE st[k]
      BY <3>1
    <3> HIDE DEF next
    <3>3. k = m + 1 => j = m
      BY <3>1
    <3>4. k # m + 1 => k \in 1 .. m
      OBVIOUS
    <3> QED BY <2>1, <3>1, <3>2, <3>3, <3>4
  <2>4. Runs(next, m + 1)
    BY <2>2, <2>3
  <2> HIDE DEF Runs, next
  <2> QED BY <2>4
<1>3. Nat \subseteq S
  <2> HIDE DEF S
  <2> QED BY <1>1, <1>2, SetInduction
<1>4. PICK n \in Int : n = q.ent_cnt
  OBVIOUS
<1>5. PICK st : Runs(st, IF n > 0 THEN n ELSE 0)
  <2> HIDE DEF Runs
  <2> QED BY <1>3
<1> DEFINE Behind(g, k) == IF k = 0 THEN {s0} ELSE {Visit(s, pages) : s \in g[k - 1]}
           after == CHOOSE g : g = [k \in 0 .. n |-> Behind(g, k)]
           ones  == [k \in 0 .. n |-> {st[k]}]
<1>6. ASSUME n > 0 PROVE after[n] = {st[n]}
  <2>1. Runs(st, n)
    BY <1>5, <1>6
  <2>2. \A k \in 0 .. n : {st[k]} = Behind(ones, k)
    <3>1. {st[0]} = Behind(ones, 0)
      BY <2>1
    <3>2. ASSUME NEW k \in 1 .. n PROVE {st[k]} = Behind(ones, k)
      <4>1. ones[k - 1] = {st[k - 1]}
        OBVIOUS
      <4> HIDE DEF ones, s0
      <4>2. Behind(ones, k) = {Visit(st[k - 1], pages)}
        BY <4>1
      <4> QED BY <2>1, <4>2
    <3> HIDE DEF Behind, ones
    <3> QED BY <3>1, <3>2
  <2>3. ones = [k \in 0 .. n |-> Behind(ones, k)]
    <3> HIDE DEF Behind
    <3> QED BY <2>2
  <2>4. after = [k \in 0 .. n |-> Behind(after, k)]
    <3> HIDE DEF Behind, ones
    <3> QED BY <2>3
  <2> HIDE DEF after, s0
  <2>5. after[0] = {st[0]}
    BY <1>6, <2>1, <2>4
  <2>6. ASSUME NEW k \in 1 .. n, after[k - 1] = {st[k - 1]} PROVE after[k] = {st[k]}
    <3>1. after[k] = Behind(after, k)
      <4> HIDE DEF Behind
      <4> QED BY <2>4
    <3>2. Behind(after, k) = {Visit(st[k - 1], pages)}
      BY <2>6
    <3> QED BY <2>1, <3>1, <3>2
  <2>7. n \in Nat
    BY <1>6
  <2> HIDE DEF Runs, Behind, S, ones
  <2> QED BY <2>5, <2>6, <2>7, SameTurns
<1>7. (IF n > 0 THEN CHOOSE s \in after[n] : TRUE ELSE s0) = IF n > 0 THEN st[n] ELSE st[0]
  <2> HIDE DEF after, s0
  <2> QED BY <1>5, <1>6
<1>8. ScanPass(q, pages) = (IF n > 0 THEN st[n] ELSE st[0])
  BY <1>4, <1>7 DEF Loop, ScanPass
<1> HIDE DEF s0
<1>9. st[0] = s0 /\ \A k \in 1 .. n : st[k] = Visit(st[k - 1], pages)
  BY <1>5
<1> QED BY <1>4, <1>8, <1>9 DEF s0

LEMMA QueuesGrow ==
  ASSUME NEW A, NEW B, A \subseteq B
  PROVE  Queues(A) \subseteq Queues(B)
BY RingsGrow DEF Queues

(* The queues an operation may be in: those of Queues(A) and, if m, for as *)
(* long as no merge has dropped a block, with nothing behind the window    *)
(* and the count right and, if c, for as long as no insertion is given up, *)
(* with all pages of A.                                                    *)
Tracked(A, m, c) ==
  {q \in Queues(A) :
     m /\ ~q.lossy => /\ TightAt(q.slot, q.head, q.tail, q.ent_cnt)
                      /\ c /\ ~q.panic => CoversAt(A, q.slot)}

(* What no part of an operation takes back: that a block was dropped, or   *)
(* an insertion given up.                                                  *)
Keeps(q, r) == (q.lossy => r.lossy) /\ (q.panic => r.panic)

Parts(A, m, c, d, h, t, n, p, l) ==
  /\ d \in Rings(A) /\ d \in Ring /\ h \in 0 .. Sz - 1 /\ t \in 0 .. Sz - 1 /\ n \in Int
  /\ p \in BOOLEAN /\ l \in BOOLEAN
  /\ m /\ ~l => TightAt(d, h, t, n) /\ (c /\ ~p => CoversAt(A, d))

LEMMA Unpacked ==
  ASSUME NEW A, NEW m, NEW c, NEW q \in Tracked(A, m, c)
  PROVE  \E d, h, t, n, p, l :
           /\ q = [slot |-> d, head |-> h, tail |-> t, ent_cnt |-> n, panic |-> p, lossy |-> l]
           /\ Parts(A, m, c, d, h, t, n, p, l)
<1>1. PICK d \in Rings(A), h \in 0 .. Sz - 1, t \in 0 .. Sz - 1, n \in Int,
           p \in BOOLEAN, l \in BOOLEAN :
        q = [slot |-> d, head |-> h, tail |-> t, ent_cnt |-> n, panic |-> p, lossy |-> l]
  BY DEF Queues, Tracked
<1>2. d \in Ring
  BY DEF Rings
<1>3. m /\ ~l => TightAt(d, h, t, n) /\ (c /\ ~p => CoversAt(A, d))
  BY <1>1 DEF Tracked
<1> QED BY <1>1, <1>2, <1>3 DEF Parts

LEMMA Packed ==
  ASSUME NEW A, NEW m, NEW c, NEW d, NEW h, NEW t, NEW n, NEW p, NEW l,
         Parts(A, m, c, d, h, t, n, p, l)
  PROVE  [slot |-> d, head |-> h, tail |-> t, ent_cnt |-> n, panic |-> p, lossy |-> l]
           \in Tracked(A, m, c)
<1>1. PICK q : q = [slot |-> d, head |-> h, tail |-> t, ent_cnt |-> n, panic |-> p, lossy |-> l]
  OBVIOUS
<1>2. q \in Queues(A)
  BY <1>1 DEF Parts, Queues
<1>3. m /\ ~q.lossy => /\ TightAt(q.slot, q.head, q.tail, q.ent_cnt)
                       /\ c /\ ~q.panic => CoversAt(A, q.slot)
  BY <1>1 DEF Parts
<1> QED BY <1>1, <1>2, <1>3 DEF Tracked

LEMMA MergeTracked ==
  ASSUME NEW A, NEW m, NEW c, NEW q \in Tracked(A, m, c), NEW at \in Int
  PROVE  MergeAt(q, at) \in Tracked(A, m, c) /\ Keeps(q, MergeAt(q, at))
<1>1. PICK d, h, t, n, p, l :
        /\ q = [slot |-> d, head |-> h, tail |-> t, ent_cnt |-> n, panic |-> p, lossy |-> l]
        /\ Parts(A, m, c, d, h, t, n, p, l)
  BY Unpacked
<1>2. PICK i \in 0 .. Sz - 1, j \in 0 .. Sz - 1, h1 \in 0 .. Sz - 1 :
        i = at % Sz /\ j = Next1(at) /\ h1 = Next1(h)
  <2>1. at % Sz \in 0 .. Sz - 1
    BY SizeFact
  <2>2. Next1(at) \in 0 .. Sz - 1 /\ Next1(h) \in 0 .. Sz - 1
    BY <1>1, NextType, SizeFact DEF Parts
  <2> QED BY <2>1, <2>2
<1>3. i = h => j = h1
  <2> SUFFICES ASSUME i = h PROVE Next1(at) = Next1(h)
    BY <1>2
  <2> QED BY <1>2, SameNext
<1> DEFINE e == BuildEntry(GetAddr(d[i]), GetPgCnt(d[i]) + GetPgCnt(d[j]))
           neighbours == /\ GetAddr(d[i]) + GetPgCnt(d[i]) = GetAddr(d[j])
                         /\ GetPgCnt(d[i]) + GetPgCnt(d[j]) < MaxEntries
           f == [d EXCEPT ![j] = e, ![i] = 0]
<1>4. CASE ~neighbours
  <2>1. MergeAt(q, at) = q
    BY <1>1, <1>2, <1>4 DEF MergeAt
  <2> QED BY <2>1 DEF Keeps
<1>5. CASE neighbours
  <2>1. d \in Rings(A) /\ d \in Ring /\ d[i] \in Nat /\ d[j] \in Nat
    BY <1>1 DEF Parts, Ring
  <2>2. /\ f \in Rings(A) /\ f \in Ring /\ i # j /\ e \in Nat
        /\ WordPages(e) = WordPages(d[i]) \cup WordPages(d[j])
    <3>1. f \in Rings(A) /\ i # j /\ e \in Nat
          /\ WordPages(e) = WordPages(d[i]) \cup WordPages(d[j])
      BY <1>5, <2>1, RingMerges
    <3>2. f \in Ring
      <4> HIDE DEF f
      <4> QED BY <3>1 DEF Rings
    <3> QED BY <3>1, <3>2
  <2>3. GetAddr(e) = GetAddr(d[i])
    <3>1. PICK a \in Nat, x \in Nat \ {0}, y \in Nat \ {0} :
            a = GetAddr(d[i]) /\ x = GetPgCnt(d[i]) /\ y = GetPgCnt(d[j])
      BY <2>1, WordType
    <3>2. PICK k \in Nat \ {0} : k = x + y /\ k <= MaxEntries
      BY <1>5, <3>1, MaxEntriesAssumption
    <3> QED BY <3>1, <3>2, WordBuilt
  <2>4. MergeAt(q, at) =
          [q EXCEPT !.slot[j] = e, !.slot[i] = 0, !.head = h1, !.ent_cnt = n - 1,
                    !.lossy = l \/ i # h]
    BY <1>1, <1>2, <1>5 DEF MergeAt
  <2>5. MergeAt(q, at) =
          [slot |-> f, head |-> h1, tail |-> t, ent_cnt |-> n - 1, panic |-> p,
           lossy |-> l \/ i # h]
    <3> HIDE DEF e
    <3> QED BY <1>1, <2>4
  <2>6. m /\ ~(l \/ i # h) => TightAt(f, h1, t, n - 1) /\ (c /\ ~p => CoversAt(A, f))
    <3> SUFFICES ASSUME m, ~l, i = h
                 PROVE  TightAt(f, h1, t, n - 1) /\ (c /\ ~p => CoversAt(A, f))
      OBVIOUS
    <3>1. TightAt(d, h, t, n) /\ (c /\ ~p => CoversAt(A, d)) /\ j = h1
      BY <1>1, <1>3 DEF Parts
    <3> HIDE DEF e
    <3>2. TightAt(f, h1, t, n - 1)
      BY <1>1, <1>2, <1>5, <2>1, <2>2, <2>3, <3>1, TightMerge DEF Parts
    <3>3. c /\ ~p => CoversAt(A, f)
      BY <2>1, <2>2, <3>1, CoversMerge
    <3> QED BY <3>2, <3>3
  <2> HIDE DEF f
  <2>7. Parts(A, m, c, f, h1, t, n - 1, p, l \/ i # h)
    BY <1>1, <2>2, <2>6 DEF Parts
  <2>8. Keeps(q, MergeAt(q, at))
    <3>1. q.lossy = l /\ q.panic = p
      BY <1>1
    <3>2. PICK r : r = MergeAt(q, at)
      OBVIOUS
    <3>3. r.lossy = (l \/ i # h) /\ r.panic = p
      BY <2>5, <3>2
    <3> QED BY <1>1, <3>1, <3>2, <3>3 DEF Keeps, Parts
  <2> QED BY <2>5, <2>7, <2>8, Packed
<1> QED BY <1>4, <1>5

(* compact_queue neither makes, nor copies, nor loses a page, unless it    *)
(* notes that it has dropped a block.                                      *)
LEMMA CompactTracked ==
  ASSUME NEW A, NEW m, NEW c, NEW q \in Tracked(A, m, c)
  PROVE  Compact(q) \in Tracked(A, m, c) /\ Keeps(q, Compact(q))
<1>1. PICK d, h, t, n, p, l :
        /\ q = [slot |-> d, head |-> h, tail |-> t, ent_cnt |-> n, panic |-> p, lossy |-> l]
        /\ Parts(A, m, c, d, h, t, n, p, l)
  BY Unpacked
<1>2. PICK hi \in Int : /\ hi = (IF t - 1 < h THEN t - 1 + Sz ELSE t - 1)
                        /\ hi = WindowEnd(q) /\ h <= hi
  BY <1>1, SizeFact DEF WindowEnd, Parts
<1>3. PICK turns \in Int : turns = (WindowEnd(q) - 1 - q.head) /\ q.head \in Int
  BY <1>1, <1>2 DEF Parts
<1>4. PICK st : /\ st[0] = SortedQueue(q)
                /\ \A k \in 1 .. turns : st[k] = MergeAt(st[k - 1], q.head + k - 1)
                /\ Compact(q) = IF turns > 0 THEN st[turns] ELSE st[0]
  BY <1>3, CompactTurns
<1>5. SortedQueue(q) \in Tracked(A, m, c) /\ Keeps(q, SortedQueue(q))
  <2>1. PICK R : R = Windowed(A, h, t, n, m /\ ~l, c /\ ~p)
    OBVIOUS
  <2>2. Closed(R, h, hi)
    <3>1. h \in 0 .. Sz - 1 /\ t \in 0 .. Sz - 1
      BY <1>1 DEF Parts
    <3> QED BY <1>2, <2>1, <3>1, WindowClosed
  <2>3. d \in R
    BY <1>1, <2>1 DEF Parts, Windowed
  <2>4. PICK s : s = QuicksortPgs(d, h, hi) /\ s \in R
    <3>1. h \in Int
      BY <1>1 DEF Parts
    <3> QED BY <1>2, <2>2, <2>3, <3>1, SortStays
  <2>5. Parts(A, m, c, s, h, t, n, p, l)
    BY <1>1, <2>1, <2>4 DEF Parts, Rings, Windowed
  <2>6. SortedQueue(q) = [q EXCEPT !.slot = s]
    BY <1>1, <1>2, <2>4 DEF SortedQueue
  <2>7. SortedQueue(q) =
          [slot |-> s, head |-> h, tail |-> t, ent_cnt |-> n, panic |-> p, lossy |-> l]
    BY <1>1, <2>6
  <2> QED BY <1>1, <2>5, <2>7, Packed DEF Keeps
<1> DEFINE Good(x) == x \in Tracked(A, m, c) /\ Keeps(q, x)
           S == {k \in Nat : k <= turns => Good(st[k])}
<1>6. 0 \in S
  BY <1>4, <1>5
<1>7. ASSUME NEW k \in Nat, k \in S PROVE k + 1 \in S
  <2> SUFFICES ASSUME k + 1 <= turns PROVE Good(st[k + 1])
    OBVIOUS
  <2>1. k + 1 \in 1 .. turns /\ (k + 1) - 1 = k
    OBVIOUS
  <2>2. st[k + 1] = MergeAt(st[k], q.head + (k + 1) - 1)
    BY <1>4, <2>1
  <2>3. Good(st[k])
    BY <1>7
  <2>4. PICK at \in Int : at = q.head + (k + 1) - 1
    BY <1>3
  <2>5. PICK x \in Tracked(A, m, c) : x = st[k] /\ Keeps(q, x)
    BY <2>3
  <2>6. MergeAt(x, at) \in Tracked(A, m, c) /\ Keeps(x, MergeAt(x, at))
    BY <2>4, MergeTracked
  <2> QED BY <2>2, <2>4, <2>5, <2>6 DEF Keeps
<1>8. Nat \subseteq S
  <2> HIDE DEF S
  <2> QED BY <1>6, <1>7, SetInduction
<1>9. turns > 0 => Good(st[turns])
  BY <1>8
<1> QED BY <1>4, <1>5, <1>9

(* Giving an insertion up loses the block, which the flag tells.           *)
LEMMA PanicTracked ==
  ASSUME NEW A, NEW B, A \subseteq B, NEW m, NEW c, NEW q \in Tracked(A, m, c)
  PROVE  Panic(q) \in Tracked(B, m, c) /\ Panic(q).lossy = q.lossy /\ Panic(q).panic
<1>1. PICK d, h, t, n, p, l :
        /\ q = [slot |-> d, head |-> h, tail |-> t, ent_cnt |-> n, panic |-> p, lossy |-> l]
        /\ Parts(A, m, c, d, h, t, n, p, l)
  BY Unpacked
<1>2. Panic(q) = [slot |-> d, head |-> h, tail |-> t, ent_cnt |-> n, panic |-> TRUE,
                  lossy |-> l]
  <2>1. Panic(q) = [q EXCEPT !.panic = TRUE]
    BY DEF Panic
  <2> QED BY <1>1, <2>1
<1>3. Parts(B, m, c, d, h, t, n, TRUE, l)
  <2>1. /\ d \in Rings(A) /\ d \in Ring /\ h \in 0 .. Sz - 1 /\ t \in 0 .. Sz - 1 /\ n \in Int
        /\ l \in BOOLEAN /\ (m /\ ~l => TightAt(d, h, t, n))
    BY <1>1 DEF Parts
  <2>2. d \in Rings(B)
    BY <2>1, RingsGrow
  <2> QED BY <2>1, <2>2 DEF Parts
<1>4. Panic(q) \in Tracked(B, m, c)
  BY <1>2, <1>3, Packed
<1>5. Panic(q).lossy = q.lossy /\ Panic(q).panic
  BY <1>1, <1>2
<1> QED BY <1>4, <1>5

(* An insertion, of a block that is nowhere else.                          *)
LEMMA PutTracked ==
  ASSUME NEW A, NEW m, NEW c, NEW q \in Tracked(A, m, c), NEW e \in Nat,
         WordPages(e) \cap A = {}, m /\ ~q.lossy => GetAddr(e) # 0
  PROVE  /\ ~Full(q) => /\ Put(q, e) \in Tracked(A \cup WordPages(e), m, c)
                        /\ PutFront(q, e) \in Tracked(A \cup WordPages(e), m, c)
         /\ Put(q, e).ent_cnt = q.ent_cnt + 1
         /\ Put(q, e).lossy = q.lossy /\ PutFront(q, e).lossy = q.lossy
<1> DEFINE B == A \cup WordPages(e)
<1>1. PICK d, h, t, n, p, l :
        /\ q = [slot |-> d, head |-> h, tail |-> t, ent_cnt |-> n, panic |-> p, lossy |-> l]
        /\ Parts(A, m, c, d, h, t, n, p, l)
  BY Unpacked
<1>2. PICK t1 \in 0 .. Sz - 1 : t1 = Next1(t)
  <2>1. t \in 0 .. Sz - 1 /\ t \in Int
    BY <1>1 DEF Parts
  <2> QED BY <2>1, NextType
<1>3. PICK h1 \in 0 .. Sz - 1 : /\ h1 = (IF h > 0 THEN (h - 1) % Sz ELSE Sz - 1)
                              /\ h1 = (IF h = 0 THEN Sz - 1 ELSE h - 1)
  <2>1. h \in 0 .. Sz - 1
    BY <1>1 DEF Parts
  <2>2. PICK h1 \in 0 .. Sz - 1 : h1 = IF h = 0 THEN Sz - 1 ELSE h - 1
    BY <2>1, SizeFact
  <2> QED BY <2>1, <2>2, NextIs
<1>4. Full(q) <=> h = t1
  BY <1>1, <1>2 DEF Full
<1>5. PICK f, g : f = [d EXCEPT ![t] = e] /\ g = [d EXCEPT ![h1] = e]
  OBVIOUS
<1>6. /\ d \in Rings(B) /\ f \in Rings(B) /\ g \in Rings(B)
      /\ d \in Ring /\ f \in Ring /\ g \in Ring
  <2>1. d \in Rings(A) /\ t \in 0 .. Sz - 1 /\ d \in Ring
    BY <1>1 DEF Parts
  <2>2. d \in Rings(B)
    BY <2>1, RingsGrow
  <2>3. f \in Rings(B) /\ g \in Rings(B)
    BY <1>5, <2>1, RingStores
  <2> QED BY <2>1, <2>2, <2>3 DEF Rings
<1>7. Put(q, e) = [slot |-> f, head |-> h, tail |-> t1, ent_cnt |-> n + 1, panic |-> p,
                   lossy |-> l]
  <2>1. Put(q, e) = [q EXCEPT !.slot[t] = e, !.tail = t1, !.ent_cnt = n + 1]
    BY <1>1, <1>2 DEF Put
  <2> QED BY <1>1, <1>5, <2>1
<1>8. PutFront(q, e) = [slot |-> g, head |-> h1, tail |-> t, ent_cnt |-> n + 1, panic |-> p,
                        lossy |-> l]
  <2>1. PutFront(q, e) = [q EXCEPT !.slot[h1] = e, !.head = h1, !.ent_cnt = n + 1]
    BY <1>1, <1>3 DEF PutFront
  <2> QED BY <1>1, <1>5, <2>1
<1>9. ASSUME ~Full(q) PROVE Put(q, e) \in Tracked(B, m, c)
  <2>1. m /\ ~l => TightAt(f, h, t1, n + 1) /\ (c /\ ~p => CoversAt(B, f))
    <3> SUFFICES ASSUME m, ~l
                 PROVE  TightAt(f, h, t1, n + 1) /\ (c /\ ~p => CoversAt(B, f))
      OBVIOUS
    <3>1. /\ TightAt(d, h, t, n) /\ (c /\ ~p => CoversAt(A, d)) /\ d \in Ring
          /\ h \in 0 .. Sz - 1 /\ t \in 0 .. Sz - 1 /\ n \in Int /\ GetAddr(e) # 0
      BY <1>1 DEF Parts
    <3>2. TightAt(f, h, t1, n + 1) /\ d[t] = 0
      BY <1>2, <1>4, <1>5, <1>9, <3>1, TightPut
    <3> QED BY <1>5, <3>1, <3>2, CoversStores
  <2>2. Parts(B, m, c, f, h, t1, n + 1, p, l)
    BY <1>1, <1>6, <2>1 DEF Parts
  <2> QED BY <1>7, <2>2, Packed
<1>10. ASSUME ~Full(q) PROVE PutFront(q, e) \in Tracked(B, m, c)
  <2>1. m /\ ~l => TightAt(g, h1, t, n + 1) /\ (c /\ ~p => CoversAt(B, g))
    <3> SUFFICES ASSUME m, ~l
                 PROVE  TightAt(g, h1, t, n + 1) /\ (c /\ ~p => CoversAt(B, g))
      OBVIOUS
    <3>1. /\ TightAt(d, h, t, n) /\ (c /\ ~p => CoversAt(A, d)) /\ d \in Ring
          /\ h \in 0 .. Sz - 1 /\ t \in 0 .. Sz - 1 /\ n \in Int /\ GetAddr(e) # 0
      BY <1>1 DEF Parts
    <3>2. TightAt(g, h1, t, n + 1) /\ d[h1] = 0
      BY <1>2, <1>3, <1>4, <1>5, <1>10, <3>1, TightPutFront
    <3> QED BY <1>5, <3>1, <3>2, CoversStores
  <2>2. Parts(B, m, c, g, h1, t, n + 1, p, l)
    BY <1>1, <1>6, <2>1 DEF Parts
  <2> QED BY <1>8, <2>2, Packed
<1>11. /\ Put(q, e).ent_cnt = q.ent_cnt + 1
       /\ Put(q, e).lossy = q.lossy /\ PutFront(q, e).lossy = q.lossy
  BY <1>1, <1>7, <1>8
<1> QED BY <1>9, <1>10, <1>11

LEMMA InsertTracked ==
  ASSUME NEW A, NEW m, NEW c, NEW q \in Tracked(A, m, c),
         NEW e \in Nat, WordPages(e) \cap A = {}, m /\ ~q.lossy => GetAddr(e) # 0
  PROVE  /\ Insert(q, e) \in Tracked(A \cup WordPages(e), m, c)
         /\ InsertFront(q, e) \in Tracked(A \cup WordPages(e), m, c)
         /\ Keeps(q, Insert(q, e)) /\ Keeps(q, InsertFront(q, e))
         /\ ~Full(q) => Insert(q, e) = Put(q, e)
<1>1. PICK k \in Tracked(A, m, c) : k = Compact(q) /\ Keeps(q, k)
  BY CompactTracked
<1>2. PICK T : T = Tracked(A \cup WordPages(e), m, c)
  OBVIOUS
<1>3. ~Full(q) => Put(q, e) \in T /\ PutFront(q, e) \in T
  BY <1>2, PutTracked
<1>4. ~Full(k) => Put(k, e) \in T /\ PutFront(k, e) \in T
  <2>1. m /\ ~k.lossy => GetAddr(e) # 0
    BY <1>1 DEF Keeps
  <2> QED BY <1>2, <2>1, PutTracked
<1>5. Panic(k) \in T /\ Panic(k).lossy = k.lossy /\ Panic(k).panic
  BY <1>2, PanicTracked
<1>6. /\ Put(q, e).lossy = q.lossy /\ PutFront(q, e).lossy = q.lossy
      /\ Put(k, e).lossy = k.lossy /\ PutFront(k, e).lossy = k.lossy
      /\ Put(q, e).panic = q.panic /\ PutFront(q, e).panic = q.panic
      /\ Put(k, e).panic = k.panic /\ PutFront(k, e).panic = k.panic
  BY DEF Put, PutFront
<1>7. Insert(q, e) = IF Full(q) THEN IF Full(k) THEN Panic(k) ELSE Put(k, e) ELSE Put(q, e)
  BY <1>1 DEF Insert, InsertWith
<1>8. InsertFront(q, e) =
        IF Full(q) THEN IF Full(k) THEN Panic(k) ELSE PutFront(k, e) ELSE PutFront(q, e)
  BY <1>1 DEF InsertFront, InsertWith
<1> QED BY <1>1, <1>2, <1>3, <1>4, <1>5, <1>6, <1>7, <1>8 DEF Keeps

(* The first block is taken out of the ring.                               *)
LEMMA TakeTracked ==
  ASSUME NEW A, NEW m, NEW c, NEW q \in Tracked(A, m, c), m /\ ~q.lossy => ~Empty(q)
  PROVE  /\ q.slot[q.head] \in Nat /\ WordPages(q.slot[q.head]) \subseteq A
         /\ Take(q) \in Tracked(A \ WordPages(q.slot[q.head]), m, c)
         /\ Take(q).lossy = q.lossy /\ Take(q).panic = q.panic
         /\ Take(q).ent_cnt = q.ent_cnt - 1
         /\ m /\ ~q.lossy => GetAddr(q.slot[q.head]) # 0 /\ ~Full(Take(q))
<1>1. PICK d, h, t, n, p, l :
        /\ q = [slot |-> d, head |-> h, tail |-> t, ent_cnt |-> n, panic |-> p, lossy |-> l]
        /\ Parts(A, m, c, d, h, t, n, p, l)
  BY Unpacked
<1>2. PICK h1 \in 0 .. Sz - 1 : h1 = Next1(h)
  BY <1>1, NextType, SizeFact DEF Parts
<1>3. d[h] \in Nat /\ WordPages(d[h]) \subseteq A
  BY <1>1 DEF Parts, Rings, Ring
<1>4. PICK f : f = [d EXCEPT ![h] = 0] /\ f \in Rings(A \ WordPages(d[h])) /\ f \in Ring
  <2>1. d \in Rings(A) /\ h \in 0 .. Sz - 1
    BY <1>1 DEF Parts
  <2>2. PICK f : f = [d EXCEPT ![h] = 0] /\ f \in Rings(A \ WordPages(d[h]))
    BY <2>1, RingClears
  <2> QED BY <2>2 DEF Rings
<1>5. Take(q) = [slot |-> f, head |-> h1, tail |-> t, ent_cnt |-> n - 1, panic |-> p,
                 lossy |-> l]
  <2>1. Take(q) = [q EXCEPT !.slot[h] = 0, !.head = h1, !.ent_cnt = n - 1]
    BY <1>1, <1>2 DEF Take
  <2> QED BY <1>1, <1>4, <2>1
<1>6. m /\ ~l => /\ TightAt(f, h1, t, n - 1) /\ (c /\ ~p => CoversAt(A \ WordPages(d[h]), f))
                 /\ GetAddr(d[h]) # 0 /\ h1 # Next1(t)
  <2> SUFFICES ASSUME m, ~l
               PROVE  /\ TightAt(f, h1, t, n - 1)
                      /\ (c /\ ~p => CoversAt(A \ WordPages(d[h]), f))
                      /\ GetAddr(d[h]) # 0 /\ h1 # Next1(t)
    OBVIOUS
  <2>1. /\ TightAt(d, h, t, n) /\ (c /\ ~p => CoversAt(A, d)) /\ d \in Ring
        /\ h \in 0 .. Sz - 1 /\ t \in 0 .. Sz - 1 /\ n \in Int
    BY <1>1 DEF Parts
  <2>2. h # t
    BY <1>1 DEF Empty
  <2>3. TightAt(f, h1, t, n - 1) /\ GetAddr(d[h]) # 0 /\ h1 # Next1(t)
    BY <1>2, <1>4, <2>1, <2>2, TightTake
  <2> QED BY <1>4, <2>1, <2>3, CoversClears
<1>7. Take(q) \in Tracked(A \ WordPages(d[h]), m, c)
  <2>1. Parts(A \ WordPages(d[h]), m, c, f, h1, t, n - 1, p, l)
    BY <1>1, <1>4, <1>6 DEF Parts
  <2> QED BY <1>5, <2>1, Packed
<1>8. m /\ ~l => ~Full(Take(q))
  BY <1>5, <1>6 DEF Full
<1> QED BY <1>1, <1>3, <1>5, <1>6, <1>7, <1>8

(* The smaller of two numbers.                                             *)
LEMMA MinPair ==
  ASSUME NEW a \in Int, NEW b \in Int
  PROVE  Min({a, b}) = IF a < b THEN a ELSE b
<1>1. PICK low \in Int : low <= a /\ low <= b
  <2>1. CASE a < b
    BY <2>1
  <2>2. CASE ~(a < b)
    BY <2>2
  <2> QED BY <2>1, <2>2
<1>2. {a, b} \subseteq Int /\ {a, b} # {} /\ \A x \in {a, b} : low <= x
  BY <1>1
<1>3. Min({a, b}) \in {a, b} /\ \A x \in {a, b} : Min({a, b}) <= x
  BY <1>2, MinOf
<1>4. PICK m \in Int : m = Min({a, b})
  BY <1>3
<1> QED BY <1>3, <1>4

(* One chunk of a run of pages is freed, behind those that are already.    *)
LEMMA ChunkTracked ==
  ASSUME NEW A, NEW m, NEW c, NEW page \in Nat, NEW pages \in Nat,
         Span(page, pages) \cap A = {}, m /\ pages > 0 => page # 0,
         NEW d \in Nat, NEW n \in Nat \ {0}, n <= MaxEntries, d + n <= pages,
         NEW q \in Tracked(A \cup Span(page, d), m, c)
  PROVE  /\ Insert(q, BuildEntry(page + d, n)) \in Tracked(A \cup Span(page, d + n), m, c)
         /\ Keeps(q, Insert(q, BuildEntry(page + d, n)))
<1>1. PICK first \in Nat : first = page + d
  OBVIOUS
<1>2. PICK e \in Nat : /\ e = BuildEntry(first, n) /\ WordPages(e) = Span(first, n)
                      /\ GetAddr(e) = first
  BY WordBuilt, WordPagesBuilt
<1>3. /\ Span(page, d + n) = Span(page, d) \cup Span(first, n)
      /\ Span(page, d) \cap Span(first, n) = {} /\ Span(first, n) \subseteq Span(page, pages)
  BY <1>1 DEF Span
<1>4. PICK B : B = A \cup Span(page, d)
  OBVIOUS
<1>5. WordPages(e) \cap B = {}
  BY <1>2, <1>3, <1>4
<1>6. m /\ ~q.lossy => GetAddr(e) # 0
  <2>1. pages > 0
    OBVIOUS
  <2> QED BY <1>1, <1>2, <2>1
<1>7. Insert(q, e) \in Tracked(B \cup WordPages(e), m, c) /\ Keeps(q, Insert(q, e))
  BY <1>4, <1>5, <1>6, InsertTracked
<1>8. B \cup WordPages(e) = A \cup Span(page, d + n)
  BY <1>2, <1>3, <1>4
<1> QED BY <1>1, <1>2, <1>7, <1>8

(* The turns of pagealloc_free: the least number that reaches all pages.   *)
LEMMA FreeStates ==
  ASSUME NEW q, NEW page \in Nat, NEW pages \in Nat
  PROVE  \E n \in Nat : \E st :
           /\ n * MaxEntries >= pages /\ n * MaxEntries < pages + MaxEntries
           /\ st[0] = q
           /\ \A k \in 1 .. n : st[k] = InsertChunk(st[k - 1], page, pages, k)
           /\ FreePages(q, page, pages) = IF n > 0 THEN st[n] ELSE st[0]
<1> USE MaxEntriesAssumption
<1>1. PICK n \in Nat : /\ n = (pages + MaxEntries - 1) \div MaxEntries
                       /\ n * MaxEntries >= pages
                       /\ n * MaxEntries < pages + MaxEntries
  <2>1. PICK x \in Nat : x = pages + MaxEntries - 1
    OBVIOUS
  <2>2. PICK n \in Nat : n = x \div MaxEntries /\ n * MaxEntries <= x
                         /\ x < n * MaxEntries + MaxEntries
    BY Quotient
  <2>3. PICK y \in Int : y = n * MaxEntries
    OBVIOUS
  <2> QED BY <2>1, <2>2, <2>3
<1>2. PICK st : /\ st[0] = q
                /\ \A k \in 1 .. n : st[k] = InsertChunk(st[k - 1], page, pages, k)
                /\ FreePages(q, page, pages) = IF n > 0 THEN st[n] ELSE st[0]
  <2>1. ChunkTurns(pages) \in Int /\ ChunkTurns(pages) = n
    BY <1>1 DEF ChunkTurns
  <2>2. PICK st : /\ st[0] = q
                  /\ \A k \in 1 .. ChunkTurns(pages) :
                       st[k] = InsertChunk(st[k - 1], page, pages, k)
                  /\ FreePages(q, page, pages) =
                       IF ChunkTurns(pages) > 0 THEN st[ChunkTurns(pages)] ELSE st[0]
    BY <2>1, FreeTurns
  <2> QED BY <2>1, <2>2
<1> QED BY <1>1, <1>2

(* pagealloc_free gives the ring the pages it was asked to free.           *)
LEMMA FreeTracked ==
  ASSUME NEW A, NEW m, NEW c, NEW q \in Tracked(A, m, c), NEW page \in Nat, NEW pages \in Nat,
         Span(page, pages) \cap A = {}, m /\ pages > 0 => page # 0
  PROVE  /\ FreePages(q, page, pages) \in Tracked(A \cup Span(page, pages), m, c)
         /\ Keeps(q, FreePages(q, page, pages))
<1> USE MaxEntriesAssumption
<1>1. PICK n \in Nat : \E st :
        /\ n * MaxEntries >= pages /\ n * MaxEntries < pages + MaxEntries
        /\ st[0] = q
        /\ \A k \in 1 .. n : st[k] = InsertChunk(st[k - 1], page, pages, k)
        /\ FreePages(q, page, pages) = IF n > 0 THEN st[n] ELSE st[0]
  BY FreeStates
<1>2. PICK st :
        /\ n * MaxEntries >= pages /\ n * MaxEntries < pages + MaxEntries
        /\ st[0] = q
        /\ \A k \in 1 .. n : st[k] = InsertChunk(st[k - 1], page, pages, k)
        /\ FreePages(q, page, pages) = IF n > 0 THEN st[n] ELSE st[0]
  BY <1>1
<1> DEFINE Done(k) == IF k * MaxEntries < pages THEN k * MaxEntries ELSE pages
           Good(k) == st[k] \in Tracked(A \cup Span(page, Done(k)), m, c) /\ Keeps(q, st[k])
           S == {k \in Nat : k <= n => Good(k)}
<1>3. 0 \in S
  <2>1. Done(0) = 0 /\ Span(page, 0) = {}
    BY DEF Span
  <2>2. A \cup Span(page, Done(0)) = A
    BY <2>1
  <2> QED BY <1>2, <2>2 DEF Keeps
<1>4. ASSUME NEW k \in Nat, k \in S PROVE k + 1 \in S
  <2> SUFFICES ASSUME k < n PROVE Good(k + 1)
    OBVIOUS
  <2>1. PICK d \in Nat : d = k * MaxEntries
    OBVIOUS
  <2>2. (k + 1) * MaxEntries = d + MaxEntries
    BY <2>1
  <2>3. d < pages
    <3>1. k + 1 <= n
      OBVIOUS
    <3>2. PICK y \in Int, z \in Int : y = n * MaxEntries /\ z = (k + 1) * MaxEntries
      OBVIOUS
    <3>3. z <= y
      <4>1. PICK k1 \in Int : k1 = k + 1
        OBVIOUS
      <4>2. ~(n < k1)
        BY <4>1
      <4>3. ~(n * MaxEntries < k1 * MaxEntries)
        BY <4>2, Multiples
      <4> QED BY <3>2, <4>1, <4>3
    <3> QED BY <1>2, <2>2, <3>2, <3>3
  <2>4. PICK i \in Nat \ {0} : /\ i = Min({MaxEntries, pages - d})
                               /\ i <= MaxEntries /\ d + i <= pages
                               /\ Done(k + 1) = d + i
    <3>1. PICK rest \in Int : rest = pages - d
      OBVIOUS
    <3>2. Min({MaxEntries, rest}) = IF MaxEntries < rest THEN MaxEntries ELSE rest
      BY MinPair
    <3>3. Done(k + 1) = IF d + MaxEntries < pages THEN d + MaxEntries ELSE pages
      BY <2>2
    <3> HIDE DEF Done
    <3> QED BY <2>3, <3>1, <3>2, <3>3
  <2>5. PICK x \in Tracked(A \cup Span(page, d), m, c) : x = st[k] /\ Keeps(q, x)
    BY <1>4, <2>1, <2>3
  <2>6. k + 1 \in 1 .. n /\ (k + 1) - 1 = k
    OBVIOUS
  <2>7. st[k + 1] = Insert(x, BuildEntry(page + d, i))
    <3>1. st[k + 1] = InsertChunk(st[k], page, pages, k + 1)
      BY <1>2, <2>6
    <3> QED BY <2>1, <2>4, <2>5, <2>6, <3>1 DEF InsertChunk
  <2> HIDE DEF Done
  <2>8. /\ Insert(x, BuildEntry(page + d, i)) \in Tracked(A \cup Span(page, d + i), m, c)
        /\ Keeps(x, Insert(x, BuildEntry(page + d, i)))
    BY <2>4, <2>5, ChunkTracked
  <2> QED BY <2>4, <2>5, <2>7, <2>8 DEF Keeps
<1>5. Nat \subseteq S
  <2> HIDE DEF S
  <2> QED BY <1>3, <1>4, SetInduction
<1>6. st[n] \in Tracked(A \cup Span(page, pages), m, c) /\ Keeps(q, st[n])
  <2>1. Done(n) = pages
    <3>1. PICK y \in Int : y = n * MaxEntries
      OBVIOUS
    <3> QED BY <1>2, <3>1
  <2>2. Good(n)
    <3> HIDE DEF Good
    <3>1. n \in S
      BY <1>5
    <3> QED BY <3>1
  <2> QED BY <2>1, <2>2
<1> QED BY <1>2, <1>6

(* What a pass of pagealloc_alloc has made of a queue in Tracked(A, m, c): *)
(* the pages of the block it has found are no longer in the ring.          *)
ScanOk(A, m, c, pages, s) ==
  /\ s = [found |-> s.found, page |-> s.page, q |-> s.q]
  /\ s.found \in BOOLEAN
  /\ ~s.found => s.q \in Tracked(A, m, c)
  /\ s.found => /\ s.page \in Nat /\ Span(s.page, pages) \subseteq A
                /\ s.q \in Tracked(A \ Span(s.page, pages), m, c)
                /\ m /\ ~s.q.lossy => s.page # 0

(* One turn takes a block out, and puts it or what is left of it back; as  *)
(* long as the count is right, there is a block to take out.               *)
VisitOk(A, m, c, n, pages, s) ==
  ScanOk(A, m, c, pages, s) /\ (m /\ ~s.found /\ ~s.q.lossy => s.q.ent_cnt = n)

Taken(A, m, c, n, q, e, rest) ==
  /\ e = IF Empty(q) THEN 0 ELSE q.slot[q.head]
  /\ rest = IF Empty(q) THEN Panic(q) ELSE Take(q)
  /\ WordPages(e) \subseteq A /\ rest \in Tracked(A \ WordPages(e), m, c)
  /\ Keeps(q, rest) /\ (rest.lossy => q.lossy)
  /\ m /\ ~rest.lossy => GetAddr(e) # 0 /\ ~Full(rest) /\ rest.ent_cnt = n - 1

LEMMA FirstTaken ==
  ASSUME NEW A, NEW m, NEW c, NEW n \in Int, n > 0,
         NEW q \in Tracked(A, m, c), m /\ ~q.lossy => q.ent_cnt = n
  PROVE  \E e, rest : e \in Nat /\ Taken(A, m, c, n, q, e, rest)
<1>1. m /\ ~q.lossy => ~Empty(q)
  <2> SUFFICES ASSUME m, ~q.lossy, Empty(q) PROVE FALSE
    OBVIOUS
  <2>1. q.ent_cnt = Apart(q.head, q.tail) /\ q.head = q.tail /\ q.head \in 0 .. Sz - 1
    BY DEF Tracked, Queues, TightAt, Empty
  <2>2. Apart(q.head, q.head) = 0
    BY <2>1 DEF Apart
  <2> QED BY <2>1, <2>2
<1>2. CASE Empty(q)
  <2>1. WordPages(0) = {} /\ 0 \in Nat
    BY WordPagesBuilt
  <2>2. PICK rest : /\ rest = Panic(q) /\ rest \in Tracked(A, m, c)
                    /\ rest.lossy = q.lossy /\ rest.panic
    BY PanicTracked
  <2>3. A \ WordPages(0) = A
    BY <2>1
  <2>4. Keeps(q, rest) /\ (rest.lossy => q.lossy) /\ ~(m /\ ~rest.lossy)
    BY <1>1, <1>2, <2>2 DEF Keeps
  <2> QED BY <1>2, <2>1, <2>2, <2>3, <2>4 DEF Taken
<1>3. CASE ~Empty(q)
  <2>1. PICK e : e = q.slot[q.head]
    OBVIOUS
  <2>2. PICK rest : rest = Take(q)
    OBVIOUS
  <2>3. /\ e \in Nat /\ WordPages(e) \subseteq A /\ rest \in Tracked(A \ WordPages(e), m, c)
        /\ rest.lossy = q.lossy /\ rest.panic = q.panic /\ rest.ent_cnt = q.ent_cnt - 1
        /\ m /\ ~q.lossy => GetAddr(e) # 0 /\ ~Full(rest)
    <3>1. m /\ ~q.lossy => ~Empty(q)
      BY <1>3
    <3>2. /\ q.slot[q.head] \in Nat /\ WordPages(q.slot[q.head]) \subseteq A
          /\ Take(q) \in Tracked(A \ WordPages(q.slot[q.head]), m, c)
          /\ Take(q).lossy = q.lossy /\ Take(q).panic = q.panic
          /\ Take(q).ent_cnt = q.ent_cnt - 1
          /\ m /\ ~q.lossy => GetAddr(q.slot[q.head]) # 0 /\ ~Full(Take(q))
      BY <3>1, TakeTracked
    <3> QED BY <2>1, <2>2, <3>2
  <2>4. Keeps(q, rest) /\ (rest.lossy => q.lossy)
    BY <2>3 DEF Keeps
  <2>5. m /\ ~rest.lossy => GetAddr(e) # 0 /\ ~Full(rest) /\ rest.ent_cnt = n - 1
    BY <2>3
  <2> QED BY <1>3, <2>1, <2>2, <2>3, <2>4, <2>5 DEF Taken
<1> QED BY <1>2, <1>3

LEMMA VisitTracked ==
  ASSUME NEW A, NEW m, NEW c, NEW n \in Int, n > 0, NEW pages \in Nat,
         NEW s, VisitOk(A, m, c, n, pages, s)
  PROVE  VisitOk(A, m, c, n, pages, Visit(s, pages))
<1>1. CASE s.found
  BY <1>1 DEF Visit
<1>2. CASE ~s.found
  <2>1. PICK e, rest :
          /\ e \in Nat
          /\ e = IF Empty(s.q) THEN 0 ELSE s.q.slot[s.q.head]
          /\ rest = IF Empty(s.q) THEN Panic(s.q) ELSE Take(s.q)
          /\ WordPages(e) \subseteq A /\ rest \in Tracked(A \ WordPages(e), m, c)
          /\ m /\ ~rest.lossy =>
               GetAddr(e) # 0 /\ ~Full(rest) /\ rest.ent_cnt = n - 1
    <3>1. PICK q \in Tracked(A, m, c) : q = s.q /\ (m /\ ~q.lossy => q.ent_cnt = n)
      BY <1>2 DEF VisitOk, ScanOk
    <3>2. PICK e, rest : e \in Nat /\ Taken(A, m, c, n, q, e, rest)
      BY <3>1, FirstTaken
    <3> QED BY <3>1, <3>2 DEF Taken
  <2>2. PICK addr \in Nat, cnt \in Nat \ {0}, left \in Int :
          /\ addr = GetAddr(e) /\ cnt = GetPgCnt(e) /\ cnt <= MaxEntries
          /\ left = cnt - pages /\ WordPages(e) = Span(addr, cnt)
    BY <2>1, WordType DEF WordPages
  <2>3. PICK W : /\ W = Span(addr, cnt) /\ W = WordPages(e) /\ W \subseteq A
                 /\ rest \in Tracked(A \ W, m, c) /\ e \in Nat
    BY <2>1, <2>2
  <2>4. Visit(s, pages) =
          IF left < 0 THEN [s EXCEPT !.q = Insert(rest, e)]
          ELSE [found |-> TRUE, page |-> addr,
                q |-> IF left = 0 THEN rest
                      ELSE InsertFront(rest, BuildEntry(addr + pages, left))]
    <3>1. /\ e = IF Empty(s.q) THEN 0 ELSE s.q.slot[s.q.head]
          /\ rest = IF Empty(s.q) THEN Panic(s.q) ELSE Take(s.q)
          /\ addr = GetAddr(e) /\ left = GetPgCnt(e) - pages
      BY <2>1, <2>2
    <3>2. CASE left < 0
      BY <1>2, <3>1, <3>2 DEF Visit
    <3>3. CASE ~(left < 0)
      <4>1. left >= 0
        BY <3>3
      <4> QED BY <1>2, <3>1, <3>3, <4>1 DEF Visit
    <3> QED BY <3>2, <3>3
  <2>5. CASE left < 0
    <3>1. (A \ W) \cup WordPages(e) = A /\ WordPages(e) \cap (A \ W) = {}
      BY <2>3
    <3>2. m /\ ~rest.lossy => GetAddr(e) # 0
      BY <2>1
    <3>3. PICK r \in Tracked(A, m, c) :
            r = Insert(rest, e) /\ Keeps(rest, r) /\ (~Full(rest) => r = Put(rest, e))
      BY <2>3, <3>1, <3>2, InsertTracked
    <3>4. m /\ ~r.lossy => r.ent_cnt = n
      <4>1. Put(rest, e).ent_cnt = rest.ent_cnt + 1
        BY <2>3, <3>1, <3>2, PutTracked
      <4> QED BY <2>1, <3>3, <4>1 DEF Keeps
    <3>5. PICK pg, sq : s = [found |-> FALSE, page |-> pg, q |-> sq]
      BY <1>2 DEF VisitOk, ScanOk
    <3>6. Visit(s, pages) = [s EXCEPT !.q = r]
      BY <2>4, <2>5, <3>3
    <3>7. Visit(s, pages) = [found |-> FALSE, page |-> pg, q |-> r]
      BY <3>5, <3>6
    <3> QED BY <3>4, <3>7 DEF VisitOk, ScanOk
  <2>6. CASE left >= 0
    <3>1. PICK r : r = IF left = 0 THEN rest
                       ELSE InsertFront(rest, BuildEntry(addr + pages, left))
      OBVIOUS
    <3>2. Visit(s, pages) = [found |-> TRUE, page |-> addr, q |-> r]
      <4>1. ~(left < 0)
        BY <2>6
      <4> QED BY <2>4, <3>1, <4>1
    <3>3. /\ W = Span(addr, pages) \cup Span(addr + pages, left)
          /\ Span(addr, pages) \cap Span(addr + pages, left) = {}
      <4>1. cnt = pages + left
        BY <2>2
      <4>2. Span(addr, cnt) = Span(addr, pages) \cup Span(addr + pages, left)
        BY <2>6, <4>1 DEF Span
      <4>3. Span(addr, pages) \cap Span(addr + pages, left) = {}
        BY <2>6 DEF Span
      <4> QED BY <2>3, <4>2, <4>3
    <3>4. r \in Tracked(A \ Span(addr, pages), m, c) /\ Keeps(rest, r)
      <4>1. CASE left = 0
        <5>1. W = Span(addr, pages)
          BY <2>2, <2>3, <4>1
        <5> QED BY <2>3, <3>1, <4>1, <5>1 DEF Keeps
      <4>2. CASE left > 0
        <5>1. PICK next \in Nat : next = addr + pages
          OBVIOUS
        <5>2. left \in Nat \ {0} /\ left <= MaxEntries
          <6>1. cnt <= MaxEntries /\ left = cnt - pages
            BY <2>2
          <6> QED BY <4>2, <6>1, MaxEntriesAssumption
        <5>3. PICK w \in Nat : /\ w = BuildEntry(next, left) /\ WordPages(w) = Span(next, left)
                             /\ GetAddr(w) = next
          BY <5>2, WordBuilt, WordPagesBuilt
        <5>4. W = Span(addr, pages) \cup WordPages(w) /\ Span(addr, pages) \cap WordPages(w) = {}
          BY <3>3, <5>1, <5>3
        <5>5. WordPages(w) \cap (A \ W) = {}
          BY <5>4
        <5>6. m /\ ~rest.lossy => GetAddr(w) # 0
          <6>1. m /\ ~rest.lossy => addr # 0
            BY <2>1, <2>2
          <6>2. addr # 0 => next # 0
            BY <5>1
          <6> QED BY <5>3, <6>1, <6>2
        <5>7. /\ InsertFront(rest, w) \in Tracked((A \ W) \cup WordPages(w), m, c)
              /\ Keeps(rest, InsertFront(rest, w))
          BY <2>3, <5>5, <5>6, InsertTracked
        <5>8. (A \ W) \cup WordPages(w) = A \ Span(addr, pages)
          BY <2>3, <5>4
        <5> QED BY <3>1, <4>2, <5>1, <5>3, <5>7, <5>8
      <4> QED BY <2>6, <4>1, <4>2
    <3>5. Span(addr, pages) \subseteq A
      BY <2>3, <3>3
    <3>6. m /\ ~r.lossy => addr # 0
      BY <2>1, <2>2, <3>4 DEF Keeps
    <3> QED BY <3>2, <3>4, <3>5, <3>6 DEF VisitOk, ScanOk
  <2> QED BY <2>5, <2>6
<1> QED BY <1>1, <1>2 DEF VisitOk, ScanOk

LEMMA ScanTracked ==
  ASSUME NEW A, NEW m, NEW c, NEW pages \in Nat, NEW q \in Tracked(A, m, c)
  PROVE  ScanOk(A, m, c, pages, ScanPass(q, pages))
<1>1. PICK n \in Int : n = q.ent_cnt
  BY DEF Tracked, Queues
<1>2. PICK st : /\ st[0] = [found |-> FALSE, page |-> 0, q |-> q]
                /\ \A k \in 1 .. n : st[k] = Visit(st[k - 1], pages)
                /\ ScanPass(q, pages) = IF n > 0 THEN st[n] ELSE st[0]
  BY <1>1, ScanTurns
<1> DEFINE S == {k \in Nat : k <= n => VisitOk(A, m, c, n, pages, st[k])}
<1>3. VisitOk(A, m, c, n, pages, st[0])
  BY <1>1, <1>2 DEF VisitOk, ScanOk
<1>4. ASSUME NEW k \in Nat, k \in S PROVE k + 1 \in S
  <2> SUFFICES ASSUME k + 1 <= n PROVE VisitOk(A, m, c, n, pages, st[k + 1])
    OBVIOUS
  <2>1. k + 1 \in 1 .. n /\ (k + 1) - 1 = k /\ n > 0
    OBVIOUS
  <2>2. st[k + 1] = Visit(st[k], pages)
    BY <1>2, <2>1
  <2>3. VisitOk(A, m, c, n, pages, st[k])
    BY <1>4
  <2> QED BY <2>1, <2>2, <2>3, VisitTracked
<1>5. Nat \subseteq S
  <2>1. 0 \in S
    BY <1>3
  <2> HIDE DEF S
  <2> QED BY <1>4, <2>1, SetInduction
<1>6. n > 0 => VisitOk(A, m, c, n, pages, st[n])
  BY <1>5
<1> QED BY <1>2, <1>3, <1>6 DEF VisitOk

(* What pagealloc_alloc returns is no longer in the ring.                  *)
LEMMA AllocTracked ==
  ASSUME NEW A, NEW m, NEW c, NEW pages \in Nat, NEW q \in Tracked(A, m, c)
  PROVE  ScanOk(A, m, c, pages, Alloc(q, pages))
<1>1. PICK s : s = ScanPass(q, pages) /\ ScanOk(A, m, c, pages, s)
  BY ScanTracked
<1>2. PICK t : t = (IF s.found THEN s ELSE ScanPass(Compact(s.q), pages))
               /\ ScanOk(A, m, c, pages, t)
  <2>1. CASE s.found
    BY <1>1, <2>1
  <2>2. CASE ~s.found
    <3>1. PICK r \in Tracked(A, m, c) : r = Compact(s.q)
      BY <1>1, <2>2, CompactTracked DEF ScanOk
    <3>2. ScanOk(A, m, c, pages, ScanPass(r, pages))
      BY ScanTracked
    <3> QED BY <2>2, <3>1, <3>2
  <2> QED BY <2>1, <2>2
<1>3. Alloc(q, pages) = IF t.found THEN t ELSE [t EXCEPT !.q = Compact(t.q)]
  BY <1>1, <1>2 DEF Alloc
<1>4. CASE t.found
  BY <1>2, <1>3, <1>4
<1>5. CASE ~t.found
  <2>1. PICK r \in Tracked(A, m, c) : r = Compact(t.q)
    BY <1>2, <1>5, CompactTracked DEF ScanOk
  <2>2. Alloc(q, pages) = [t EXCEPT !.q = r]
    BY <1>3, <1>5, <2>1
  <2>3. PICK pg, tq : t = [found |-> FALSE, page |-> pg, q |-> tq]
    BY <1>2, <1>5 DEF ScanOk
  <2>4. Alloc(q, pages) = [found |-> FALSE, page |-> pg, q |-> r]
    BY <2>2, <2>3
  <2> QED BY <2>4 DEF ScanOk
<1> QED BY <1>4, <1>5

-----------------------------------------------------------------------------
(* Calls, and the bag of what callers hold.                                *)

LEMMA Rounding ==
  ASSUME NEW n \in Nat
  PROVE  /\ PagesIn(n) \in Nat /\ PagesIn(AlignUp(n)) \in Nat
         /\ AlignUp(n) = PagesIn(AlignUp(n)) * BtmLevel
         /\ PagesIn(n) <= PagesIn(AlignUp(n))
<1> USE RingSizeAssumption
<1>1. \A j \in Nat : PagesIn(j * BtmLevel) = j
  <2> SUFFICES ASSUME NEW j \in Nat PROVE PagesIn(j * BtmLevel) = j
    OBVIOUS
  <2>1. 0 \in Nat /\ 0 < BtmLevel /\ j * BtmLevel + 0 = j * BtmLevel
    OBVIOUS
  <2>2. (j * BtmLevel + 0) \div BtmLevel = j
    BY <2>1, QuotientIs
  <2> QED BY <2>1, <2>2 DEF PagesIn
<1>2. PICK x \in Nat : x = n + BtmLevel - 1
  OBVIOUS
<1>3. PICK k \in Nat : /\ k = x \div BtmLevel /\ k * BtmLevel <= x
                       /\ x < k * BtmLevel + BtmLevel
  BY Quotient
<1>4. AlignUp(n) = k * BtmLevel /\ PagesIn(AlignUp(n)) = k
  BY <1>1, <1>2, <1>3 DEF AlignUp
<1>5. PICK j \in Nat : j = PagesIn(n) /\ j * BtmLevel <= n
  BY Quotient DEF PagesIn
<1>6. ~(k < j)
  <2> SUFFICES ASSUME k < j PROVE FALSE
    OBVIOUS
  <2>1. PICK k1 \in Nat : k1 = k + 1
    OBVIOUS
  <2>2. ~(j * BtmLevel < k1 * BtmLevel)
    <3>1. ~(j < k1)
      BY <2>1
    <3> QED BY <3>1, Multiples
  <2>3. k1 * BtmLevel = k * BtmLevel + BtmLevel
    BY <2>1
  <2>4. PICK a \in Int, b \in Int, c \in Int :
          a = j * BtmLevel /\ b = k1 * BtmLevel /\ c = k * BtmLevel
    OBVIOUS
  <2> QED BY <1>2, <1>3, <1>5, <2>2, <2>3, <2>4
<1> QED BY <1>4, <1>5, <1>6

LEMMA WholePages == \A n \in Nat : (n * BtmLevel) % BtmLevel = 0
<1> SUFFICES ASSUME NEW n \in Nat PROVE (n * BtmLevel) % BtmLevel = 0
  OBVIOUS
<1>1. PICK k \in Nat \ {0} : k = BtmLevel
  BY RingSizeAssumption
<1>2. PICK r \in Int, d \in Int : r = (n * k) % k /\ 0 <= r /\ r < k /\ n * k = d * k + r
  <2>1. n * k \in Int
    BY <1>1
  <2> QED BY <1>1, <2>1, Division
<1>3. PICK g \in Int : g = n - d /\ g * k = r
  <2>1. PICK g \in Int : n = d + g
    <3>1. n - d \in Int /\ n = d + (n - d)
      OBVIOUS
    <3> QED BY <3>1
  <2>2. n * k = d * k + g * k
    BY <2>1
  <2> QED BY <1>2, <2>1, <2>2
<1>4. ~(g < 0) /\ ~(0 < g)
  <2>1. -1 * k < g * k /\ g * k < 1 * k
    BY <1>1, <1>2, <1>3
  <2>2. -1 < g /\ g < 1
    BY <1>1, <2>1, Multiples
  <2> QED BY <2>2
<1>5. g = 0
  BY <1>4
<1> QED BY <1>1, <1>2, <1>3, <1>5

LEMMA AlignedSize ==
  ASSUME NEW n \in Nat \ {0}, n % BtmLevel = 0
  PROVE  AlignUp(n) = n /\ PagesIn(n) \in Nat \ {0} /\ n = PagesIn(n) * BtmLevel
<1>1. PICK b \in Nat \ {0} : b = BtmLevel
  BY RingSizeAssumption
<1>2. PICK d \in Int : n = d * b
  <2>1. PICK r \in Int, d \in Int : r = n % b /\ n = d * b + r
    BY <1>1, Division
  <2>2. r = 0
    BY <1>1, <2>1
  <2> QED BY <2>1, <2>2
<1>3. d \in Nat \ {0}
  <2>1. 0 * b < d * b
    BY <1>2
  <2>2. 0 < d
    BY <2>1, Multiples
  <2> QED BY <2>2
<1>4. n \div b = d
  <2>1. 0 \in Nat /\ 0 < b /\ d * b + 0 = d * b
    OBVIOUS
  <2>2. (d * b + 0) \div b = d
    BY <1>3, <2>1, QuotientIs
  <2> QED BY <1>2, <2>1, <2>2
<1>5. (n + b - 1) \div b = d
  <2>1. b - 1 \in Nat /\ b - 1 < b /\ d * b + (b - 1) = n + b - 1
    BY <1>2
  <2>2. (d * b + (b - 1)) \div b = d
    BY <1>3, <2>1, QuotientIs
  <2> QED BY <2>1, <2>2
<1> QED BY <1>1, <1>2, <1>3, <1>4, <1>5 DEF AlignUp, PagesIn

(* pagealloc_free, called with the address of a page, PANICs or not.       *)
LEMMA FreeBytesTracked ==
  ASSUME NEW A, NEW m, NEW c, NEW q \in Tracked(A, m, c), NEW page \in Nat, NEW size \in Nat,
         Span(page, PagesIn(size)) \cap A = {}, m /\ PagesIn(size) > 0 => page # 0
  PROVE  /\ FreeBytes(q, page * BtmLevel, size) \in Tracked(A \cup Span(page, PagesIn(size)), m, c)
         /\ size % BtmLevel # 0 => FreeBytes(q, page * BtmLevel, size).panic
<1>1. PICK r \in Tracked(A, m, c) :
        /\ r = IF (page * BtmLevel) % BtmLevel # 0 \/ size % BtmLevel # 0
                 THEN Panic(q) ELSE q
        /\ size % BtmLevel # 0 => r.panic
  <2>1. Panic(q) \in Tracked(A, m, c) /\ Panic(q).panic
    BY PanicTracked
  <2> QED BY <2>1
<1>2. PICK pages \in Nat : pages = PagesIn(size)
  BY Rounding
<1>3. (page * BtmLevel) \div BtmLevel = page
  <2>1. 0 \in Nat /\ 0 < BtmLevel /\ page * BtmLevel + 0 = page * BtmLevel
    BY RingSizeAssumption
  <2>2. (page * BtmLevel + 0) \div BtmLevel = page
    BY <2>1, QuotientIs, RingSizeAssumption
  <2> QED BY <2>1, <2>2
<1>4. FreeBytes(q, page * BtmLevel, size) = FreePages(r, page, pages)
  BY <1>1, <1>2, <1>3 DEF FreeBytes
<1>5. /\ FreePages(r, page, pages) \in Tracked(A \cup Span(page, pages), m, c)
      /\ Keeps(r, FreePages(r, page, pages))
  BY <1>2, FreeTracked
<1> QED BY <1>1, <1>2, <1>4, <1>5 DEF Keeps

(* Between calls the flags of the queue are cleared, and the ones of the   *)
(* kernel tell what has happened.                                          *)
LEMMA SettleTracked ==
  ASSUME NEW A, NEW m, NEW c, NEW q \in Tracked(A, m, c), NEW resumes, Settle(q, resumes)
  PROVE  /\ btm_level' \in Queues(A)
         /\ m /\ ~q.lossy => TightAt(btm_level'.slot, btm_level'.head, btm_level'.tail,
                                     btm_level'.ent_cnt)
         /\ m /\ ~q.lossy /\ c /\ ~q.panic => CoversAt(A, btm_level'.slot)
<1>1. PICK d, h, t, n, p, l :
        /\ q = [slot |-> d, head |-> h, tail |-> t, ent_cnt |-> n, panic |-> p, lossy |-> l]
        /\ Parts(A, m, c, d, h, t, n, p, l)
  BY Unpacked
<1>2. btm_level' = [q EXCEPT !.panic = FALSE, !.lossy = FALSE]
  BY DEF Settle
<1>3. btm_level' = [slot |-> d, head |-> h, tail |-> t, ent_cnt |-> n, panic |-> FALSE,
                    lossy |-> FALSE]
  BY <1>1, <1>2
<1>4. btm_level' \in Queues(A)
  BY <1>1, <1>3 DEF Queues, Parts
<1> QED BY <1>1, <1>3, <1>4 DEF Parts

(* For what OwnersInv says, what the rest tracks does not matter.          *)
LEMMA Untracked == \A A : Tracked(A, FALSE, FALSE) = Queues(A)
BY DEF Tracked

LEMMA FreeBytesSound ==
  ASSUME NEW A, NEW q \in Queues(A), NEW page \in Nat, NEW size \in Nat,
         Span(page, PagesIn(size)) \cap A = {}
  PROVE  FreeBytes(q, page * BtmLevel, size) \in Queues(A \cup Span(page, PagesIn(size)))
<1>1. PICK m : m = FALSE
  OBVIOUS
<1>2. q \in Tracked(A, m, m)
  BY <1>1, Untracked
<1>3. FreeBytes(q, page * BtmLevel, size) \in Tracked(A \cup Span(page, PagesIn(size)), m, m)
  BY <1>1, <1>2, FreeBytesTracked
<1> QED BY <1>3 DEF Tracked

Served(A, pages, res) ==
  /\ res.found \in BOOLEAN
  /\ ~res.found => res.q \in Queues(A)
  /\ res.found => /\ res.page \in Nat /\ Span(res.page, pages) \subseteq A
                  /\ res.q \in Queues(A \ Span(res.page, pages))

LEMMA AllocSound ==
  ASSUME NEW A, NEW pages \in Nat, NEW q \in Queues(A)
  PROVE  Served(A, pages, Alloc(q, pages))
<1>1. PICK m : m = FALSE
  OBVIOUS
<1>2. q \in Tracked(A, m, m)
  BY <1>1, Untracked
<1>3. PICK res : res = Alloc(q, pages) /\ ScanOk(A, m, m, pages, res)
  BY <1>2, AllocTracked
<1> QED BY <1>3 DEF ScanOk, Tracked, Served

LEMMA SettleSound ==
  ASSUME NEW A, NEW q \in Queues(A), NEW resumes, Settle(q, resumes)
  PROVE  btm_level' \in Queues(A)
<1>1. PICK m : m = FALSE
  OBVIOUS
<1>2. q \in Tracked(A, m, m)
  BY <1>1, Untracked
<1> QED BY <1>2, SettleTracked

(* One more, and one fewer, of b in a bag.                                 *)
LEMMA BagGains ==
  ASSUME NEW H, \A c \in BagToSet(H) : H[c] \in Nat \ {0}, NEW b,
         NEW G, G = H (+) SetToBag({b})
  PROVE  /\ BagToSet(G) = BagToSet(H) \cup {b}
         /\ \A c \in BagToSet(H) : c # b => G[c] = H[c]
         /\ G[b] = IF b \in BagToSet(H) THEN H[b] + 1 ELSE 1
BY DEF BagToSet, SetToBag, (+)

LEMMA BagLoses ==
  ASSUME NEW H, NEW G, NEW b, G = H (-) SetToBag({b}), b \in BagToSet(H),
         \A c \in BagToSet(H) : H[c] \in Nat \ {0}
  PROVE  /\ H[b] = 1 => BagToSet(G) = BagToSet(H) \ {b}
         /\ H[b] # 1 => BagToSet(G) = BagToSet(H)
         /\ \A c \in BagToSet(H) : c # b => G[c] = H[c]
         /\ H[b] # 1 => G[b] = H[b] - 1
<1>1. PICK D : D = [e \in DOMAIN H |-> IF e = b THEN H[e] - 1 ELSE H[e]]
  OBVIOUS
<1>2. \A e \in DOMAIN H : D[e] = (IF e = b THEN H[e] - 1 ELSE H[e]) /\ H[e] \in Nat \ {0}
  BY <1>1 DEF BagToSet
<1>3. G = [e \in {d \in DOMAIN H : D[d] > 0} |-> D[e]]
  <2>1. D = [e \in DOMAIN H |-> IF e \in DOMAIN SetToBag({b})
                                 THEN H[e] - SetToBag({b})[e] ELSE H[e]]
    BY <1>1 DEF SetToBag
  <2>2. DOMAIN D = DOMAIN H
    BY <1>1
  <2> QED BY <2>1, <2>2 DEF (-)
<1>4. DOMAIN G = {e \in DOMAIN H : D[e] > 0} /\ \A e \in DOMAIN G : G[e] = D[e]
  BY <1>3
<1>5. H[b] \in Nat \ {0} /\ b \in DOMAIN H
  BY DEF BagToSet
<1>6. ASSUME NEW e \in DOMAIN H, e # b PROVE e \in DOMAIN G /\ G[e] = H[e]
  <2>1. PICK n \in Nat \ {0} : n = H[e] /\ D[e] = n
    BY <1>2, <1>6
  <2>2. D[e] > 0
    BY <2>1
  <2> QED BY <1>4, <2>1, <2>2
<1>7. H[b] = 1 => b \notin DOMAIN G
  BY <1>2, <1>4, <1>5
<1>8. H[b] # 1 => b \in DOMAIN G /\ G[b] = H[b] - 1
  <2>1. PICK n \in Nat \ {0} : n = H[b] /\ D[b] = n - 1
    BY <1>2, <1>5
  <2>2. n # 1 => n - 1 > 0
    OBVIOUS
  <2> QED BY <1>4, <1>5, <2>1, <2>2
<1>9. DOMAIN G \subseteq DOMAIN H
  BY <1>4
<1> QED BY <1>5, <1>6, <1>7, <1>8, <1>9 DEF BagToSet

-----------------------------------------------------------------------------
(* The invariant.                                                          *)

(* A release returns no page that its grant does not have.                 *)
LEMMA GrantType ==
  ASSUME NEW b \in [page : Nat, size : DmaSizes \cup {BtmLevel}]
  PROVE  /\ b.page \in Nat /\ b.size \in Nat
         /\ GrantPages(b) = Span(b.page, PagesIn(AlignUp(b.size)))
         /\ Span(b.page, PagesIn(b.size)) \subseteq GrantPages(b)
<1>1. b.page \in Nat /\ b.size \in Nat
  BY RingSizeAssumption, DmaSizesAssumption
<1>2. PICK n \in Nat, m \in Nat :
        n = PagesIn(b.size) /\ m = PagesIn(AlignUp(b.size)) /\ n <= m
  BY <1>1, Rounding
<1>3. Span(b.page, n) \subseteq Span(b.page, m)
  BY <1>1, <1>2 DEF Span
<1> QED BY <1>1, <1>2, <1>3 DEF GrantPages

LEMMA HeldFact ==
  ASSUME OwnersInv
  PROVE  /\ BagToSet(held) \subseteq [page : Nat, size : DmaSizes \cup {BtmLevel}]
         /\ \A b \in BagToSet(held) : held[b] \in Nat \ {0}
         /\ \A b \in BagToSet(held) : GrantPages(b) \subseteq Managed
         /\ \A b \in BagToSet(held) : GrantPages(b) # {} => held[b] = 1
         /\ \A b, c \in BagToSet(held) : b # c => GrantPages(b) \cap GrantPages(c) = {}
BY Zenon DEF OwnersInv

LEMMA MapFact ==
  /\ Len(MemoryMap) \in Nat /\ DOMAIN MemoryMap = 1 .. Len(MemoryMap)
  /\ \A r \in DOMAIN MemoryMap : MemoryMap[r].addr \in Nat /\ MemoryMap[r].len \in Nat
<1>1. PICK S : S = [addr : Nat, len : Nat]
  OBVIOUS
<1>2. MemoryMap \in Seq(S)
  BY <1>1, MemoryMapAssumption
<1>3. \A r \in DOMAIN MemoryMap : MemoryMap[r] \in S
  BY <1>2
<1> QED BY <1>1, <1>2, <1>3

LEMMA InitOwners == Init => OwnersInv
<1> SUFFICES ASSUME Init PROVE OwnersInv
  OBVIOUS
<1> USE DEF Init
<1>1. BagToSet(held) = {}
  BY DEF EmptyBag, SetToBag, BagToSet
<1>2. Managed = {} /\ Granted = {}
  BY <1>1 DEF Managed, Granted
<1>3. [i \in 0 .. Sz - 1 |-> 0] \in Rings({})
  BY WordPagesBuilt DEF Rings, Ring
<1>4. 0 \in 0 .. Sz - 1
  BY SizeFact
<1>5. btm_level \in Queues(Managed \ Granted)
  BY <1>2, <1>3, <1>4 DEF Queues
<1>6. region \in 1 .. Len(MemoryMap) + 1
  <2>1. Len(MemoryMap) \in Nat
    BY MemoryMapAssumption
  <2> QED BY <2>1
<1> QED BY <1>1, <1>5, <1>6 DEF OwnersInv

(* What the turn of pmem_init for a region frees.                          *)
RegionFrees(page, pages, size) ==
  /\ page \in Nat /\ pages \in Nat /\ size \in Nat
  /\ size = pages * BtmLevel /\ PagesIn(size) = pages /\ size % BtmLevel = 0
  /\ pages > 0 => page # 0
  /\ Span(page, pages) \cap Managed = {}
  /\ Settle(FreeBytes(btm_level, page * BtmLevel, size), FALSE)
  /\ free_mem' = free_mem + size /\ region' \in 1 .. Len(MemoryMap) + 1
  /\ Granted = {} /\ (Managed \ Granted)' = Managed \cup Span(page, pages)
  /\ held = EmptyBag /\ held' = held /\ BagToSet(held') = {}

LEMMA RegionFreed ==
  ASSUME OwnersInv, PmemInitRegion
  PROVE  \E page, pages, size : RegionFrees(page, pages, size)
<1> DEFINE r == MemoryMap[region]
<1>1. /\ region \in DOMAIN MemoryMap /\ region \in Nat /\ region' = region + 1
      /\ r.addr \in Nat /\ r.len \in Nat /\ region <= Len(MemoryMap)
      /\ held = EmptyBag /\ held' = held
  <2>1. region \in 1 .. Len(MemoryMap) /\ region \in Nat
    BY MapFact DEF OwnersInv, PmemInitRegion
  <2> QED BY <2>1, MapFact DEF PmemInitRegion, OwnersInv
<1>2. BagToSet(held) = {} /\ Granted = {} /\ Granted' = {}
  BY <1>1 DEF EmptyBag, SetToBag, BagToSet, Granted
<1>3. Managed' = Managed \cup RegionPages(region)
  <2>1. 1 .. region' - 1 = (1 .. region - 1) \cup {region}
    BY <1>1
  <2> QED BY <2>1 DEF Managed
<1>4. Managed \cap RegionPages(region) = {}
  <2>1. \A s \in 1 .. region - 1 : s \in DOMAIN MemoryMap /\ s # region
    BY <1>1, MapFact
  <2>2. \A s \in 1 .. region - 1 : RegionPages(s) \cap RegionPages(region) = {}
    BY <1>1, <2>1, MemoryMapAssumption
  <2> QED BY <2>2 DEF Managed
<1>5. PICK page \in Nat, pages \in Nat :
        /\ page = PagesIn(AlignUp(r.addr)) /\ AlignUp(r.addr) = page * BtmLevel
        /\ pages = PagesIn(r.len)
  BY <1>1, Rounding
<1>6. Span(page, pages) = RegionPages(region)
  BY <1>1, <1>5, MemoryMapAssumption DEF Span, RegionPages
<1>7. PICK size \in Nat :
        size = pages * BtmLevel /\ PagesIn(size) = pages /\ size % BtmLevel = 0
  <2>1. 0 \in Nat /\ 0 < BtmLevel /\ pages * BtmLevel + 0 = pages * BtmLevel
        /\ pages * BtmLevel \in Nat
    BY RingSizeAssumption
  <2>2. (pages * BtmLevel + 0) \div BtmLevel = pages
    BY <2>1, QuotientIs, RingSizeAssumption
  <2>3. (pages * BtmLevel) % BtmLevel = 0
    BY WholePages
  <2> QED BY <2>1, <2>2, <2>3 DEF PagesIn
<1>8. pages > 0 => page # 0
  <2> SUFFICES ASSUME pages > 0, page = 0 PROVE FALSE
    OBVIOUS
  <2>1. 0 \in RegionPages(region)
    BY <1>5 DEF RegionPages
  <2> QED BY <1>1, <2>1, MemoryMapAssumption
<1>9. /\ Settle(FreeBytes(btm_level, page * BtmLevel, size), FALSE)
      /\ free_mem' = free_mem + size
  BY <1>5, <1>7 DEF PmemInitRegion
<1>10. (Managed \ Granted)' = Managed \cup Span(page, pages)
  BY <1>2, <1>3, <1>6
<1>11. Span(page, pages) \cap Managed = {}
  BY <1>4, <1>6
<1>12. region' \in 1 .. Len(MemoryMap) + 1
  <2>1. Len(MemoryMap) \in Nat
    BY MemoryMapAssumption
  <2> QED BY <1>1, <2>1
<1>13. RegionFrees(page, pages, size)
  BY <1>1, <1>2, <1>7, <1>8, <1>9, <1>10, <1>11, <1>12 DEF RegionFrees
<1> QED BY <1>13

LEMMA RegionOwners ==
  ASSUME OwnersInv, PmemInitRegion
  PROVE  OwnersInv'
<1>1. PICK page, pages, size : RegionFrees(page, pages, size)
  BY RegionFreed
<1>2. btm_level \in Queues(Managed)
  <2>1. Managed \ Granted = Managed
    BY <1>1 DEF RegionFrees
  <2> QED BY <2>1 DEF OwnersInv
<1>3. FreeBytes(btm_level, page * BtmLevel, size) \in Queues(Managed \cup Span(page, pages))
  BY <1>1, <1>2, FreeBytesSound DEF RegionFrees
<1>4. btm_level' \in Queues((Managed \ Granted)')
  BY <1>1, <1>3, SettleSound DEF RegionFrees
<1> QED BY <1>1, <1>4 DEF OwnersInv, RegionFrees

(* What callers hold, after a grant and after a release.                   *)
LEMMA HeldGains ==
  ASSUME OwnersInv, NEW g, held' = held (+) SetToBag({g})
  PROVE  /\ BagToSet(held') = BagToSet(held) \cup {g}
         /\ \A c \in BagToSet(held) : c # g => held'[c] = held[c]
         /\ held'[g] = IF g \in BagToSet(held) THEN held[g] + 1 ELSE 1
         /\ Granted' = Granted \cup GrantPages(g)
<1>1. \A c \in BagToSet(held) : held[c] \in Nat \ {0}
  BY DEF OwnersInv
<1>2. PICK H, G : H = held /\ G = held'
  OBVIOUS
<1>3. (\A c \in BagToSet(H) : H[c] \in Nat \ {0}) /\ G = H (+) SetToBag({g})
  BY <1>1, <1>2
<1>4. /\ BagToSet(G) = BagToSet(H) \cup {g}
      /\ \A c \in BagToSet(H) : c # g => G[c] = H[c]
      /\ G[g] = IF g \in BagToSet(H) THEN H[g] + 1 ELSE 1
  BY <1>3, BagGains
<1>5. BagToSet(held') = BagToSet(held) \cup {g}
  BY <1>2, <1>4
<1>6. Granted' = Granted \cup GrantPages(g)
  BY <1>5 DEF Granted
<1> QED BY <1>2, <1>4, <1>6

LEMMA HeldLoses ==
  ASSUME OwnersInv, NEW b \in BagToSet(held), held' = held (-) SetToBag({b})
  PROVE  /\ held[b] = 1 => BagToSet(held') = BagToSet(held) \ {b}
         /\ held[b] # 1 => BagToSet(held') = BagToSet(held)
         /\ \A c \in BagToSet(held) : c # b => held'[c] = held[c]
         /\ held[b] # 1 => held'[b] = held[b] - 1
<1>1. \A c \in BagToSet(held) : held[c] \in Nat \ {0}
  BY DEF OwnersInv
<1> QED BY <1>1, BagLoses

(* A grant comes out of the ring.                                          *)
LEMMA AllocateOwners ==
  ASSUME OwnersInv, NEW size \in DmaSizes \cup {BtmLevel}, Allocate(size)
  PROVE  OwnersInv'
<1> DEFINE A == Managed \ Granted
           b(page) == [page |-> page, size |-> size]
<1>1. PICK pages \in Nat : pages = PagesIn(AlignUp(size))
  BY RingSizeAssumption, DmaSizesAssumption, Rounding
<1>2. PICK res : /\ res = Alloc(btm_level, pages) /\ res.found \in BOOLEAN
                 /\ ~res.found => res.q \in Queues(A)
                 /\ res.found => /\ res.page \in Nat /\ Span(res.page, pages) \subseteq A
                                 /\ res.q \in Queues(A \ Span(res.page, pages))
  <2>1. btm_level \in Queues(A)
    BY DEF OwnersInv
  <2> HIDE DEF A
  <2>2. Served(A, pages, Alloc(btm_level, pages))
    BY <2>1, AllocSound
  <2> QED BY <1>1, <2>2 DEF Served
<1>3. /\ region' = region /\ Managed' = Managed /\ phase = "running" /\ phase' # "init"
      /\ Settle(res.q, TRUE)
      /\ IF res.found THEN held' = held (+) SetToBag({b(res.page)}) ELSE held' = held
  BY <1>1, <1>2 DEF Allocate, Grant, Settle, Managed
<1>4. CASE ~res.found
  <2>1. held' = held /\ Granted' = Granted
    BY <1>3, <1>4 DEF Granted
  <2>2. btm_level' \in Queues(A)
    BY <1>2, <1>3, <1>4, SettleSound
  <2>3. (Managed \ Granted)' = A
    BY <1>3, <2>1
  <2> QED BY <1>3, <2>1, <2>2, <2>3 DEF OwnersInv
<1>5. CASE res.found
  <2>1. PICK page \in Nat : /\ page = res.page /\ Span(page, pages) \subseteq A
                            /\ res.q \in Queues(A \ Span(page, pages))
    BY <1>2, <1>5
  <2>2. PICK g \in [page : Nat, size : DmaSizes \cup {BtmLevel}] :
          g = b(page) /\ GrantPages(g) = Span(page, pages)
    <3>1. PICK g : g = b(page)
      OBVIOUS
    <3>2. g.page = page /\ g.size = size /\ g \in [page : Nat, size : DmaSizes \cup {BtmLevel}]
      BY <3>1
    <3>3. GrantPages(g) = Span(page, pages)
      <4> HIDE DEF b
      <4> QED BY <1>1, <3>2 DEF GrantPages
    <3> QED BY <3>1, <3>2, <3>3
  <2>3. /\ BagToSet(held') = BagToSet(held) \cup {g}
        /\ \A c \in BagToSet(held) : c # g => held'[c] = held[c]
        /\ held'[g] = IF g \in BagToSet(held) THEN held[g] + 1 ELSE 1
        /\ Granted' = Granted \cup GrantPages(g)
    <3>1. held' = held (+) SetToBag({g})
      BY <1>3, <1>5, <2>1, <2>2
    <3> HIDE DEF b
    <3> QED BY <3>1, HeldGains
  <2>4. btm_level' \in Queues((Managed \ Granted)')
    <3>1. (Managed \ Granted)' = A \ Span(page, pages)
      BY <1>3, <2>2, <2>3
    <3>2. btm_level' \in Queues(A \ Span(page, pages))
      BY <1>3, <2>1, SettleSound
    <3> QED BY <3>1, <3>2
  <2>6. GrantPages(g) \subseteq Managed /\ GrantPages(g) \cap Granted = {}
    BY <2>1, <2>2
  <2>7. \A c \in BagToSet(held) : GrantPages(c) \cap GrantPages(g) = {}
    BY <2>6 DEF Granted
  <2>8. BagToSet(held') \subseteq [page : Nat, size : DmaSizes \cup {BtmLevel}]
    BY <2>2, <2>3 DEF OwnersInv
  <2>9. ASSUME NEW c \in BagToSet(held')
        PROVE  /\ held'[c] \in Nat \ {0} /\ GrantPages(c) \subseteq Managed
               /\ GrantPages(c) # {} => held'[c] = 1
    <3>1. CASE c # g
      BY <2>3, <2>9, <3>1 DEF OwnersInv
    <3>2. CASE c = g /\ g \notin BagToSet(held)
      BY <2>3, <2>6, <3>2
    <3>3. CASE c = g /\ g \in BagToSet(held)
      <4>1. GrantPages(g) = {}
        BY <2>7, <3>3
      <4>2. held[g] \in Nat \ {0}
        BY <3>3 DEF OwnersInv
      <4> QED BY <2>3, <3>3, <4>1, <4>2
    <3> QED BY <3>1, <3>2, <3>3
  <2>10. ASSUME NEW c \in BagToSet(held'), NEW d \in BagToSet(held'), c # d
         PROVE  GrantPages(c) \cap GrantPages(d) = {}
    BY <2>3, <2>7, <2>10 DEF OwnersInv
  <2> HIDE DEF b
  <2> QED BY <1>3, <2>4, <2>8, <2>9, <2>10 DEF OwnersInv
<1> QED BY <1>4, <1>5

(* A release gives the ring pages of its grant only.                       *)
LEMMA ReleaseOwners ==
  ASSUME OwnersInv, NEW b \in BagToSet(held), Release(b)
  PROVE  OwnersInv'
<1> DEFINE A == Managed \ Granted
<1>1. b \in [page : Nat, size : DmaSizes \cup {BtmLevel}]
  BY DEF OwnersInv
<1>2. PICK page \in Nat, size \in Nat :
        /\ page = b.page /\ size = b.size
        /\ Span(page, PagesIn(size)) \subseteq GrantPages(b)
  BY <1>1, GrantType
<1>3. PICK F : F = Span(page, PagesIn(size)) /\ F \subseteq GrantPages(b) /\ F \cap A = {}
               /\ F \subseteq Managed
  BY <1>2 DEF Granted, OwnersInv
<1>4. /\ region' = region /\ Managed' = Managed /\ phase = "running" /\ phase' # "init"
      /\ Settle(FreeBytes(btm_level, page * BtmLevel, size), TRUE)
      /\ held' = held (-) SetToBag({b})
  BY <1>2 DEF Release, Settle, Managed
<1>5. btm_level' \in Queues(A \cup F)
  <2>1. FreeBytes(btm_level, page * BtmLevel, size) \in Queues(A \cup F)
    BY <1>3, FreeBytesSound DEF OwnersInv
  <2> QED BY <1>4, <2>1, SettleSound
<1>6. /\ held[b] = 1 => BagToSet(held') = BagToSet(held) \ {b}
      /\ held[b] # 1 => BagToSet(held') = BagToSet(held)
      /\ \A c \in BagToSet(held) : c # b => held'[c] = held[c]
      /\ held[b] # 1 => held'[b] = held[b] - 1
  BY <1>4, HeldLoses
<1>7. \A c \in BagToSet(held') :
        c \in BagToSet(held) /\ GrantPages(c) \cap GrantPages(b) = {}
  <2>1. CASE held[b] = 1
    BY <1>6, <2>1 DEF OwnersInv
  <2>2. CASE held[b] # 1
    BY <1>6, <2>2 DEF OwnersInv
  <2> QED BY <2>1, <2>2
<1>8. A \cup F \subseteq (Managed \ Granted)'
  <2>1. Granted' \subseteq Granted /\ Granted' \cap GrantPages(b) = {}
    BY <1>7 DEF Granted
  <2> QED BY <1>3, <1>4, <2>1
<1>9. btm_level' \in Queues((Managed \ Granted)')
  BY <1>5, <1>8, QueuesGrow
<1>10. ASSUME NEW c \in BagToSet(held')
       PROVE  /\ held'[c] \in Nat \ {0} /\ GrantPages(c) \subseteq Managed
              /\ GrantPages(c) # {} => held'[c] = 1
  <2>1. CASE c # b
    BY <1>6, <1>7, <2>1 DEF OwnersInv
  <2>2. CASE c = b
    <3>1. GrantPages(b) = {} /\ held[b] \in Nat \ {0} /\ held[b] # 1
      BY <1>6, <1>7, <2>2 DEF OwnersInv
    <3> QED BY <1>6, <2>2, <3>1
  <2> QED BY <2>1, <2>2
<1>11. BagToSet(held') \subseteq [page : Nat, size : DmaSizes \cup {BtmLevel}]
  BY <1>7 DEF OwnersInv
<1>12. ASSUME NEW c \in BagToSet(held'), NEW d \in BagToSet(held'), c # d
       PROVE  GrantPages(c) \cap GrantPages(d) = {}
  BY <1>7, <1>12 DEF OwnersInv
<1> QED BY <1>4, <1>9, <1>10, <1>11, <1>12 DEF OwnersInv

LEMMA NextOwners == OwnersInv /\ [Next]_vars => OwnersInv'
<1> SUFFICES ASSUME OwnersInv, [Next]_vars PROVE OwnersInv'
  OBVIOUS
<1>1. CASE PmemInitRegion
  BY <1>1, RegionOwners
<1>2. CASE PmemInitDone
  BY <1>2 DEF PmemInitDone, OwnersInv, Managed, Granted
<1>3. CASE PmemAllocPage
  BY <1>3, AllocateOwners DEF PmemAllocPage
<1>4. CASE PmemAllocDma
  BY <1>4, AllocateOwners DEF PmemAllocDma
<1>5. CASE PmemFree
  BY <1>5, ReleaseOwners DEF PmemFree
<1>6. CASE PmemFreeDma
  BY <1>6, ReleaseOwners DEF PmemFreeDma
<1>7. CASE UNCHANGED vars
  BY <1>7 DEF vars, OwnersInv, Managed, Granted
<1> QED BY <1>1, <1>2, <1>3, <1>4, <1>5, <1>6, <1>7 DEF Next

(* What the invariant is for.                                              *)
LEMMA ManagedPages == OwnersInv => Managed \subseteq Nat \ {0}
<1> SUFFICES ASSUME OwnersInv, NEW p \in Managed PROVE p \in Nat \ {0}
  OBVIOUS
<1>1. PICK r \in 1 .. region - 1 : p \in RegionPages(r)
  BY DEF Managed
<1>2. r \in DOMAIN MemoryMap /\ MemoryMap[r].addr \in Nat
  <2>1. region \in 1 .. Len(MemoryMap) + 1
    BY DEF OwnersInv
  <2> QED BY <2>1, MapFact
<1>3. PICK first \in Nat : first = PagesIn(AlignUp(MemoryMap[r].addr))
  BY <1>2, Rounding
<1> QED BY <1>1, <1>2, <1>3, MemoryMapAssumption DEF RegionPages

LEMMA OneOwner ==
  ASSUME OwnersInv, NEW p \in Managed, NEW x \in Owners(p), NEW y \in Owners(p)
  PROVE  x = y
<1>1. p \in Nat \ {0}
  BY ManagedPages
<1> DEFINE InSlot(z) == \E i \in 0 .. Sz - 1 :
                          z = <<i>> /\ p \in WordPages(btm_level.slot[i])
           InGrant(z) == \E b \in BagToSet(held) : \E n \in 1 .. held[b] :
                           z = <<b, n>> /\ p \in GrantPages(b)
<1>2. \A z \in Owners(p) : InSlot(z) \/ InGrant(z)
  <2> SUFFICES ASSUME NEW z \in Owners(p) PROVE InSlot(z) \/ InGrant(z)
    OBVIOUS
  <2>1. CASE \E i \in InUse : z = <<i>> /\ p \in PagesOf(btm_level.slot[i])
    <3>1. PICK i \in InUse : z = <<i>> /\ p \in PagesOf(btm_level.slot[i])
      BY <2>1
    <3>2. i \in 0 .. Sz - 1
      <4>1. btm_level.head \in Int /\ btm_level.tail \in Int
        BY DEF OwnersInv, Queues
      <4>2. PICK d \in Int : d = btm_level.tail - btm_level.head
        BY <4>1
      <4>3. PICK m \in Int : m = d % Sz
        BY <4>2, SizeFact
      <4>4. PICK k \in Int : i = (btm_level.head + k) % Sz
        BY <4>2, <4>3 DEF InUse
      <4>5. PICK j \in Int : j = btm_level.head + k
        BY <4>1
      <4> QED BY <4>4, <4>5, SizeFact
    <3>3. p \in WordPages(btm_level.slot[i])
      BY <1>1, <3>1 DEF WordPages, PagesOf, Span
    <3> QED BY <3>1, <3>2, <3>3
  <2>2. CASE \E b \in BagToSet(held) : p \in HeldPages(b) /\ \E n \in 1 .. held[b] : z = <<b, n>>
    BY <1>1, <2>2 DEF HeldPages, GrantPages, Span
  <2> QED BY <2>1, <2>2 DEF Owners
<1>3. btm_level.slot \in Rings(Managed \ Granted)
  BY DEF OwnersInv, Queues
<1>4. CASE InSlot(x) /\ InSlot(y)
  BY <1>3, <1>4 DEF Rings
<1>5. CASE InGrant(x) /\ InGrant(y)
  <2>1. PICK b \in BagToSet(held) :
          p \in GrantPages(b) /\ \E n \in 1 .. held[b] : x = <<b, n>>
    BY <1>5
  <2>2. PICK c \in BagToSet(held) :
          p \in GrantPages(c) /\ \E n \in 1 .. held[c] : y = <<c, n>>
    BY <1>5
  <2>3. b = c /\ held[b] = 1
    BY <2>1, <2>2 DEF OwnersInv
  <2> QED BY <2>1, <2>2, <2>3
<1>6. ASSUME NEW z, InSlot(z), NEW w, InGrant(w) PROVE FALSE
  <2>1. p \in Granted
    BY <1>6 DEF Granted
  <2>2. p \in Managed \ Granted
    BY <1>3, <1>6 DEF Rings
  <2> QED BY <2>1, <2>2
<1> HIDE DEF InSlot, InGrant
<1> QED BY <1>2, <1>4, <1>5, <1>6

(* No page is ever in two free blocks, held by two callers, or free while  *)
(* a caller holds it: whatever is sorted, merged, dropped behind the       *)
(* window and found again, the words of the ring and the grants stand for  *)
(* pages of their own.                                                     *)
THEOREM OneOwnerEach == Spec => []NoSharedPage
<1>1. Init => OwnersInv
  BY InitOwners
<1>2. OwnersInv /\ [Next]_vars => OwnersInv'
  BY NextOwners
<1>3. OwnersInv => NoSharedPage
  BY OneOwner DEF NoSharedPage
<1> QED BY <1>1, <1>2, <1>3, PTL DEF Spec

-----------------------------------------------------------------------------
(* The tally.                                                              *)

(* The pages that a call adds to the free ones, and takes from them.       *)
LEMMA TallyGains ==
  ASSUME NEW A, IsFiniteSet(A), NEW page \in Nat, NEW pages \in Nat, pages > 0 => page # 0,
         Span(page, pages) \cap A = {}, NEW f, f = BtmLevel * Cardinality(A)
  PROVE  /\ IsFiniteSet(A \cup Span(page, pages))
         /\ f + pages * BtmLevel = BtmLevel * Cardinality(A \cup Span(page, pages))
         /\ f \in Nat
<1>1. PICK S : S = Span(page, pages)
  OBVIOUS
<1>2. IsFiniteSet(S) /\ Cardinality(S) = pages
  <2>1. S = page .. page + pages - 1
    BY <1>1 DEF Span
  <2>2. PICK last \in Int : last = page + pages - 1
    OBVIOUS
  <2>3. /\ IsFiniteSet(page .. last)
        /\ Cardinality(page .. last) = IF page > last THEN 0 ELSE last - page + 1
    BY FS_Interval
  <2> QED BY <2>1, <2>2, <2>3
<1>3. IsFiniteSet(A \cup S) /\ Cardinality(A \cup S) = Cardinality(A) + Cardinality(S)
                                                      - Cardinality(S \cap A)
  <2>1. A \cap S = S \cap A
    OBVIOUS
  <2> QED BY <1>2, <2>1, FS_Union
<1>4. Cardinality(S \cap A) = 0
  BY <1>1, FS_EmptySet
<1>5. PICK a \in Nat, b \in Nat \ {0} : a = Cardinality(A) /\ b = BtmLevel
  BY FS_CardinalityType, RingSizeAssumption
<1>6. Cardinality(A \cup S) = a + pages
  BY <1>2, <1>3, <1>4, <1>5
<1>7. b * a + pages * b = b * (a + pages) /\ b * a \in Nat
  OBVIOUS
<1> QED BY <1>1, <1>3, <1>5, <1>6, <1>7

LEMMA TallyLoses ==
  ASSUME NEW A, IsFiniteSet(A), NEW page \in Nat, NEW pages \in Nat, page # 0,
         Span(page, pages) \subseteq A, NEW f, f = BtmLevel * Cardinality(A)
  PROVE  /\ IsFiniteSet(A \ Span(page, pages))
         /\ f - pages * BtmLevel = BtmLevel * Cardinality(A \ Span(page, pages))
<1>1. PICK S : S = A \ Span(page, pages)
  OBVIOUS
<1>2. IsFiniteSet(S)
  BY <1>1, FS_Difference
<1>3. S \cup Span(page, pages) = A /\ Span(page, pages) \cap S = {}
  BY <1>1
<1>4. PICK g \in Int : g = BtmLevel * Cardinality(S)
  BY <1>2, FS_CardinalityType, RingSizeAssumption
<1>5. g + pages * BtmLevel = f
  BY <1>2, <1>3, <1>4, TallyGains
<1>6. PICK x \in Int : x = pages * BtmLevel
  BY RingSizeAssumption
<1> QED BY <1>1, <1>2, <1>4, <1>5, <1>6

(* The queue between calls, as the tally has it.                           *)
LEMMA TrackedQueue ==
  ASSUME OwnersInv, TallyInv
  PROVE  \E m, c : /\ m <=> ~lossy
                   /\ c <=> ~paniced
                   /\ btm_level \in Tracked(Managed \ Granted, m, c)
<1>1. PICK m, c : m = ~lossy /\ c = ~paniced
  OBVIOUS
<1>2. btm_level \in Tracked(Managed \ Granted, m, c)
  BY <1>1 DEF OwnersInv, TallyInv, Tracked
<1> QED BY <1>1, <1>2

(* Once a call is over.                                                    *)
LEMMA TallySettles ==
  ASSUME NEW A, NEW m, NEW c, m <=> ~lossy, c <=> ~paniced,
         NEW q \in Tracked(A, m, c), NEW resumes, Settle(q, resumes), ~lossy'
  PROVE  /\ ~q.lossy /\ m /\ ~lossy
         /\ TightAt(btm_level'.slot, btm_level'.head, btm_level'.tail, btm_level'.ent_cnt)
         /\ ~paniced' => c /\ ~paniced /\ ~q.panic /\ CoversAt(A, btm_level'.slot)
<1>1. ~lossy /\ ~q.lossy
  BY DEF Settle
<1>2. ~paniced' => ~paniced /\ ~q.panic
  BY DEF Settle
<1> QED BY <1>1, <1>2, SettleTracked

LEMMA InitTally == Init => TallyInv
<1> SUFFICES ASSUME Init PROVE TallyInv
  OBVIOUS
<1> USE DEF Init
<1>1. BagToSet(held) = {}
  BY DEF EmptyBag, SetToBag, BagToSet
<1>2. Managed \ Granted = {}
  BY <1>1 DEF Managed, Granted
<1>3. Apart(0, 0) = 0
  BY DEF Apart
<1>4. \A i \in 0 .. Sz - 1 : ~(Apart(0, i) < 0)
  BY SizeFact DEF Apart
<1>5. TightAt(btm_level.slot, btm_level.head, btm_level.tail, btm_level.ent_cnt)
  BY <1>3, <1>4 DEF TightAt
<1>6. BtmLevel * Cardinality({}) = 0 /\ IsFiniteSet({})
  BY FS_EmptySet, RingSizeAssumption
<1> QED BY <1>1, <1>2, <1>5, <1>6 DEF TallyInv, CoversAt

LEMMA RegionTally ==
  ASSUME OwnersInv, TallyInv, PmemInitRegion
  PROVE  TallyInv'
<1> SUFFICES ASSUME ~lossy'
             PROVE  /\ TightAt(btm_level'.slot, btm_level'.head, btm_level'.tail,
                               btm_level'.ent_cnt)
                    /\ \A b \in BagToSet(held') : b.page # 0
                    /\ ~paniced' =>
                         /\ CoversAt((Managed \ Granted)', btm_level'.slot)
                         /\ IsFiniteSet((Managed \ Granted)')
                         /\ free_mem' = BtmLevel * Cardinality((Managed \ Granted)')
  BY DEF TallyInv
<1>1. PICK page, pages, size : RegionFrees(page, pages, size)
  BY RegionFreed
<1>2. PICK m, c : (m <=> ~lossy) /\ (c <=> ~paniced)
                  /\ btm_level \in Tracked(Managed \ Granted, m, c)
  BY TrackedQueue
<1>3. Managed \ Granted = Managed
  BY <1>1 DEF RegionFrees
<1>4. PICK q : /\ q = FreeBytes(btm_level, page * BtmLevel, size)
               /\ q \in Tracked(Managed \cup Span(page, pages), m, c)
  <2>1. FreeBytes(btm_level, page * BtmLevel, size) \in Tracked(Managed \cup Span(page, pages), m, c)
    BY <1>1, <1>2, <1>3, FreeBytesTracked DEF RegionFrees
  <2> QED BY <2>1
<1>5. Settle(q, FALSE)
  BY <1>1, <1>4 DEF RegionFrees
<1>6. /\ ~lossy
      /\ TightAt(btm_level'.slot, btm_level'.head, btm_level'.tail, btm_level'.ent_cnt)
      /\ ~paniced' => ~paniced /\ CoversAt(Managed \cup Span(page, pages), btm_level'.slot)
  BY <1>2, <1>4, <1>5, TallySettles
<1>7. ASSUME ~paniced'
      PROVE  /\ IsFiniteSet(Managed \cup Span(page, pages))
             /\ free_mem' = BtmLevel * Cardinality(Managed \cup Span(page, pages))
  <2>1. IsFiniteSet(Managed) /\ free_mem = BtmLevel * Cardinality(Managed)
    BY <1>3, <1>6, <1>7 DEF TallyInv
  <2>2. free_mem' = free_mem + pages * BtmLevel
    BY <1>1 DEF RegionFrees
  <2>3. /\ page \in Nat /\ pages \in Nat /\ (pages > 0 => page # 0)
        /\ Span(page, pages) \cap Managed = {}
    BY <1>1 DEF RegionFrees
  <2> QED BY <2>1, <2>2, <2>3, TallyGains
<1>8. (Managed \ Granted)' = Managed \cup Span(page, pages) /\ BagToSet(held') = {}
  BY <1>1 DEF RegionFrees
<1> QED BY <1>6, <1>7, <1>8

LEMMA AllocateTally ==
  ASSUME OwnersInv, TallyInv, NEW size \in DmaSizes \cup {BtmLevel}, Allocate(size)
  PROVE  TallyInv'
<1> SUFFICES ASSUME ~lossy'
             PROVE  /\ TightAt(btm_level'.slot, btm_level'.head, btm_level'.tail,
                               btm_level'.ent_cnt)
                    /\ \A b \in BagToSet(held') : b.page # 0
                    /\ ~paniced' =>
                         /\ CoversAt((Managed \ Granted)', btm_level'.slot)
                         /\ IsFiniteSet((Managed \ Granted)')
                         /\ free_mem' = BtmLevel * Cardinality((Managed \ Granted)')
  BY DEF TallyInv
<1>1. PICK pages \in Nat : pages = PagesIn(AlignUp(size)) /\ AlignUp(size) = pages * BtmLevel
  BY RingSizeAssumption, DmaSizesAssumption, Rounding
<1>2. PICK m, c, A : /\ (m <=> ~lossy) /\ (c <=> ~paniced) /\ A = Managed \ Granted
                     /\ btm_level \in Tracked(A, m, c)
  BY TrackedQueue
<1>3. PICK res : res = Alloc(btm_level, pages) /\ ScanOk(A, m, c, pages, res)
  BY <1>2, AllocTracked
<1>4. /\ Managed' = Managed /\ Settle(res.q, TRUE)
      /\ IF res.found
           THEN /\ free_mem' = free_mem - pages * BtmLevel
                /\ held' = held (+) SetToBag({[page |-> res.page, size |-> size]})
           ELSE free_mem' = free_mem /\ held' = held
  BY <1>1, <1>3 DEF Allocate, Grant, Managed
<1>5. CASE ~res.found
  <2>1. res.q \in Tracked(A, m, c)
    BY <1>3, <1>5 DEF ScanOk
  <2>2. /\ ~lossy
        /\ TightAt(btm_level'.slot, btm_level'.head, btm_level'.tail, btm_level'.ent_cnt)
        /\ ~paniced' => ~paniced /\ CoversAt(A, btm_level'.slot)
    BY <1>2, <1>4, <2>1, TallySettles
  <2>3. (Managed \ Granted)' = A
    BY <1>2, <1>4, <1>5 DEF Granted
  <2> QED BY <1>2, <1>4, <1>5, <2>2, <2>3 DEF TallyInv
<1>6. CASE res.found
  <2>1. PICK page, F, q :
          /\ page \in Nat
          /\ page = res.page /\ F = Span(page, pages) /\ F \subseteq A /\ q = res.q
          /\ q \in Tracked(A \ F, m, c) /\ (m /\ ~q.lossy => page # 0)
    BY <1>3, <1>6 DEF ScanOk
  <2>2. /\ ~lossy /\ page # 0
        /\ TightAt(btm_level'.slot, btm_level'.head, btm_level'.tail, btm_level'.ent_cnt)
        /\ ~paniced' => ~paniced /\ CoversAt(A \ F, btm_level'.slot)
    BY <1>2, <1>4, <2>1, TallySettles
  <2>3. PICK g : g = [page |-> page, size |-> size]
    OBVIOUS
  <2>4. GrantPages(g) = F /\ g.page = page
    <3>1. g.page = page /\ g.size = size
      BY <2>3
    <3> QED BY <1>1, <2>1, <3>1 DEF GrantPages
  <2>5. BagToSet(held') = BagToSet(held) \cup {g} /\ Granted' = Granted \cup GrantPages(g)
    <3>1. held' = held (+) SetToBag({g})
      BY <1>4, <1>6, <2>1, <2>3
    <3> QED BY <3>1, HeldGains
  <2>6. (Managed \ Granted)' = A \ F
    BY <1>2, <1>4, <2>4, <2>5
  <2>7. \A b \in BagToSet(held') : b.page # 0
    BY <2>2, <2>4, <2>5 DEF TallyInv
  <2>8. ASSUME ~paniced'
        PROVE  IsFiniteSet(A \ F) /\ free_mem' = BtmLevel * Cardinality(A \ F)
    <3>1. IsFiniteSet(A) /\ free_mem = BtmLevel * Cardinality(A)
      BY <1>2, <2>2, <2>8 DEF TallyInv
    <3>2. free_mem' = free_mem - pages * BtmLevel
      BY <1>4, <1>6
    <3> QED BY <2>1, <2>2, <3>1, <3>2, TallyLoses
  <2> QED BY <2>2, <2>6, <2>7, <2>8
<1> QED BY <1>5, <1>6

(* A release returns all pages of its grant, unless it PANICs.             *)
LEMMA ReleaseTally ==
  ASSUME OwnersInv, TallyInv, NEW b \in BagToSet(held), Release(b)
  PROVE  TallyInv'
<1> SUFFICES ASSUME ~lossy'
             PROVE  /\ TightAt(btm_level'.slot, btm_level'.head, btm_level'.tail,
                               btm_level'.ent_cnt)
                    /\ \A g \in BagToSet(held') : g.page # 0
                    /\ ~paniced' =>
                         /\ CoversAt((Managed \ Granted)', btm_level'.slot)
                         /\ IsFiniteSet((Managed \ Granted)')
                         /\ free_mem' = BtmLevel * Cardinality((Managed \ Granted)')
  BY DEF TallyInv
<1>1. b \in [page : Nat, size : DmaSizes \cup {BtmLevel}]
  BY DEF OwnersInv
<1>2. PICK page, size, F :
        /\ page \in Nat /\ size \in Nat
        /\ page = b.page /\ size = b.size /\ F = Span(page, PagesIn(size))
        /\ F \subseteq GrantPages(b)
        /\ GrantPages(b) = Span(page, PagesIn(AlignUp(size)))
  BY <1>1, GrantType
<1>3. PICK m, c, A : /\ (m <=> ~lossy) /\ (c <=> ~paniced) /\ A = Managed \ Granted
                     /\ btm_level \in Tracked(A, m, c)
  BY TrackedQueue
<1>4. /\ Managed' = Managed /\ Settle(FreeBytes(btm_level, page * BtmLevel, size), TRUE)
      /\ held' = held (-) SetToBag({b}) /\ free_mem' = free_mem + size
  BY <1>2 DEF Release, Managed
<1>5. ~lossy /\ page # 0
  <2>1. ~lossy
    BY <1>4 DEF Settle
  <2> QED BY <1>2, <2>1 DEF TallyInv
<1>6. GrantPages(b) \cap A = {} /\ GrantPages(b) \subseteq Managed
  BY <1>3 DEF Granted, OwnersInv
<1>7. PICK q : /\ q = FreeBytes(btm_level, page * BtmLevel, size)
               /\ q \in Tracked(A \cup F, m, c)
               /\ size % BtmLevel # 0 => q.panic
  <2>1. /\ FreeBytes(btm_level, page * BtmLevel, size) \in Tracked(A \cup F, m, c)
        /\ size % BtmLevel # 0 => FreeBytes(btm_level, page * BtmLevel, size).panic
    BY <1>2, <1>3, <1>5, <1>6, FreeBytesTracked
  <2> QED BY <2>1
<1>8. /\ TightAt(btm_level'.slot, btm_level'.head, btm_level'.tail, btm_level'.ent_cnt)
      /\ ~paniced' => ~paniced /\ ~q.panic /\ CoversAt(A \cup F, btm_level'.slot)
  BY <1>3, <1>4, <1>7, TallySettles
<1>9. /\ held[b] = 1 => BagToSet(held') = BagToSet(held) \ {b}
      /\ held[b] # 1 => BagToSet(held') = BagToSet(held)
  BY <1>4, HeldLoses
<1>10. \A g \in BagToSet(held') : g.page # 0
  BY <1>5, <1>9 DEF TallyInv
<1>11. ASSUME ~paniced'
       PROVE  /\ CoversAt((Managed \ Granted)', btm_level'.slot)
              /\ IsFiniteSet((Managed \ Granted)')
              /\ free_mem' = BtmLevel * Cardinality((Managed \ Granted)')
  <2>1. size % BtmLevel = 0
    BY <1>7, <1>8, <1>11
  <2>2. PICK pages \in Nat \ {0} :
          pages = PagesIn(size) /\ size = pages * BtmLevel /\ AlignUp(size) = size
    <3>1. size \in Nat \ {0}
      BY <1>1, <1>2, RingSizeAssumption, DmaSizesAssumption
    <3> QED BY <2>1, <3>1, AlignedSize
  <2>3. F = GrantPages(b) /\ page \in F
    BY <1>2, <1>5, <2>2 DEF Span
  <2>4. held[b] = 1
    BY <2>3 DEF OwnersInv
  <2>5. Granted' = Granted \ GrantPages(b)
    <3>1. \A g \in BagToSet(held) : g # b => GrantPages(g) \cap GrantPages(b) = {}
      BY DEF OwnersInv
    <3> QED BY <1>9, <2>4, <3>1 DEF Granted
  <2>6. (Managed \ Granted)' = A \cup F
    BY <1>3, <1>4, <1>6, <2>3, <2>5 DEF Granted
  <2>7. IsFiniteSet(A) /\ free_mem = BtmLevel * Cardinality(A)
    BY <1>3, <1>5, <1>8, <1>11 DEF TallyInv
  <2>8. IsFiniteSet(A \cup F) /\ free_mem' = BtmLevel * Cardinality(A \cup F)
    <3>1. page \in Nat /\ F = Span(page, pages) /\ F \cap A = {}
      BY <1>2, <1>6, <2>2
    <3>2. free_mem' = free_mem + pages * BtmLevel
      BY <1>4, <2>2
    <3> QED BY <1>5, <2>7, <3>1, <3>2, TallyGains
  <2> QED BY <1>8, <1>11, <2>6, <2>8
<1> QED BY <1>8, <1>10, <1>11

LEMMA NextTally == OwnersInv /\ TallyInv /\ [Next]_vars => TallyInv'
<1> SUFFICES ASSUME OwnersInv, TallyInv, [Next]_vars PROVE TallyInv'
  OBVIOUS
<1>1. CASE PmemInitRegion
  BY <1>1, RegionTally
<1>2. CASE PmemInitDone
  BY <1>2 DEF PmemInitDone, TallyInv, Managed, Granted
<1>3. CASE PmemAllocPage
  BY <1>3, AllocateTally DEF PmemAllocPage
<1>4. CASE PmemAllocDma
  BY <1>4, AllocateTally DEF PmemAllocDma
<1>5. CASE PmemFree
  BY <1>5, ReleaseTally DEF PmemFree
<1>6. CASE PmemFreeDma
  BY <1>6, ReleaseTally DEF PmemFreeDma
<1>7. CASE UNCHANGED vars
  BY <1>7 DEF vars, TallyInv, Managed, Granted
<1> QED BY <1>1, <1>2, <1>3, <1>4, <1>5, <1>6, <1>7 DEF Next


LEMMA PoolInvariant == Spec => [](OwnersInv /\ TallyInv)
<1>1. Init => OwnersInv /\ TallyInv
  BY InitOwners, InitTally
<1>2. (OwnersInv /\ TallyInv) /\ [Next]_vars => (OwnersInv /\ TallyInv)'
  BY NextOwners, NextTally
<1> QED BY <1>1, <1>2, PTL DEF Spec

(* The window of the ring, by the distance from its head.                  *)
LEMMA InUseIs ==
  ASSUME OwnersInv
  PROVE  InUse = {i \in 0 .. Sz - 1 :
                    Apart(btm_level.head, i) < Apart(btm_level.head, btm_level.tail)}
<1>1. PICK h \in 0 .. Sz - 1, t \in 0 .. Sz - 1 : h = btm_level.head /\ t = btm_level.tail
  BY DEF OwnersInv, Queues
<1>2. PICK n \in 0 .. Sz - 1 : n = Apart(h, t) /\ (t - h) % Sz = n
  BY ApartIs
<1>3. InUse = {(h + k) % Sz : k \in 0 .. n - 1}
  BY <1>1, <1>2 DEF InUse
<1>4. \A k \in 0 .. n - 1 : /\ (h + k) % Sz \in 0 .. Sz - 1
                            /\ Apart(h, (h + k) % Sz) = k
  <2> SUFFICES ASSUME NEW k \in 0 .. n - 1
               PROVE  (h + k) % Sz \in 0 .. Sz - 1 /\ Apart(h, (h + k) % Sz) = k
    OBVIOUS
  <2>1. PICK x \in Int : x = h + k /\ 0 <= x /\ -Sz <= x /\ x < 2 * Sz
    BY SizeFact
  <2>2. PICK i : i = x % Sz /\ i = IF x < 0 THEN x + Sz ELSE IF x < Sz THEN x ELSE x - Sz
    <3>1. x % Sz = IF x < 0 THEN x + Sz ELSE IF x < Sz THEN x ELSE x - Sz
      <4>1. -Sz <= x /\ x < 2 * Sz
        BY <2>1
      <4> QED BY <4>1, ModIs
    <3> QED BY <3>1
  <2>3. i \in 0 .. Sz - 1 /\ Apart(h, i) = k
    BY <2>1, <2>2, SizeFact DEF Apart
  <2> QED BY <2>1, <2>2, <2>3
<1>5. ASSUME NEW i \in 0 .. Sz - 1, Apart(h, i) < n
      PROVE  \E k \in 0 .. n - 1 : i = (h + k) % Sz
  <2>1. PICK k \in 0 .. n - 1 : k = Apart(h, i)
    BY <1>5, ApartIs
  <2>2. PICK x \in Int : x = h + k /\ 0 <= x /\ -Sz <= x /\ x < 2 * Sz
    BY SizeFact
  <2>3. x % Sz = IF x < 0 THEN x + Sz ELSE IF x < Sz THEN x ELSE x - Sz
    <3>1. -Sz <= x /\ x < 2 * Sz
      BY <2>2
    <3> QED BY <3>1, ModIs
  <2>4. i = x % Sz
    BY <2>1, <2>2, <2>3, SizeFact DEF Apart
  <2> QED BY <2>2, <2>4
<1> QED BY <1>1, <1>2, <1>3, <1>4, <1>5

(* The blocks of the window are the pages that no caller has.              *)
LEMMA WindowPages ==
  ASSUME OwnersInv, TallyInv, ~lossy, ~paniced
  PROVE  /\ \A i \in InUse : PagesOf(btm_level.slot[i]) \subseteq Managed \ Granted
         /\ \A p \in Managed \ Granted : \E i \in InUse : p \in PagesOf(btm_level.slot[i])
<1>1. PICK d, h, t : /\ d = btm_level.slot /\ h = btm_level.head /\ t = btm_level.tail
                     /\ d \in Rings(Managed \ Granted) /\ d \in Ring
  BY DEF OwnersInv, Queues, Rings
<1>2. /\ \A i \in 0 .. Sz - 1 :
           IF Apart(h, i) < Apart(h, t) THEN GetAddr(d[i]) # 0 ELSE d[i] = 0
      /\ CoversAt(Managed \ Granted, d)
  BY <1>1 DEF TallyInv, TightAt
<1>3. InUse = {i \in 0 .. Sz - 1 : Apart(h, i) < Apart(h, t)}
  BY <1>1, InUseIs
<1>4. ASSUME NEW i \in InUse PROVE PagesOf(d[i]) \subseteq Managed \ Granted
  <2>1. i \in 0 .. Sz - 1 /\ GetAddr(d[i]) # 0
    BY <1>2, <1>3
  <2>2. d[i] \in Nat /\ WordPages(d[i]) \subseteq Managed \ Granted
    BY <1>1, <2>1 DEF Rings, Ring
  <2>3. PICK a \in Nat \ {0}, n \in Nat : a = GetAddr(d[i]) /\ n = GetPgCnt(d[i])
    BY <2>1, <2>2, WordType
  <2>4. PagesOf(d[i]) = WordPages(d[i])
    BY <2>3 DEF PagesOf, WordPages, Span
  <2> QED BY <2>2, <2>4
<1>5. ASSUME NEW p \in Managed \ Granted PROVE \E i \in InUse : p \in PagesOf(d[i])
  <2>1. PICK i \in 0 .. Sz - 1 : p \in WordPages(d[i])
    BY <1>2 DEF CoversAt
  <2>2. d[i] # 0
    BY <2>1, WordPagesBuilt
  <2>3. i \in InUse
    BY <1>2, <1>3, <2>2
  <2>4. p \in PagesOf(d[i])
    BY <2>1 DEF WordPages, PagesOf, Span
  <2> QED BY <2>3, <2>4
<1> QED BY <1>1, <1>4, <1>5

LEMMA OwnerEach ==
  ASSUME OwnersInv, TallyInv, ~lossy, ~paniced, NEW p \in Managed
  PROVE  \E x \in Owners(p) : Owners(p) = {x}
<1>1. \E x : x \in Owners(p)
  <2>1. CASE p \in Granted
    <3>1. PICK b \in BagToSet(held) : p \in GrantPages(b)
      BY <2>1 DEF Granted
    <3>2. held[b] = 1 /\ p \in HeldPages(b)
      BY <3>1 DEF OwnersInv, GrantPages, HeldPages, Span
    <3>3. <<b, 1>> \in Owners(p)
      BY <3>1, <3>2 DEF Owners
    <3> QED BY <3>3
  <2>2. CASE p \notin Granted
    <3>1. PICK i \in InUse : p \in PagesOf(btm_level.slot[i])
      BY <2>2, WindowPages
    <3>2. <<i>> \in Owners(p)
      BY <3>1 DEF Owners
    <3> QED BY <3>2
  <2> QED BY <2>1, <2>2
<1>2. PICK x : x \in Owners(p)
  BY <1>1
<1>3. \A y \in Owners(p) : y = x
  BY <1>2, OneOwner
<1> QED BY <1>2, <1>3

(* Until a merge elsewhere than at the head drops a block, or an insertion *)
(* is given up, no page is lost: each is in a block of the window or with  *)
(* the one caller that was given it.                                       *)
THEOREM NoneLost == Spec => []NoLostPage
<1>1. OwnersInv /\ TallyInv => NoLostPage
  BY OwnerEach DEF NoLostPage
<1> QED BY <1>1, PoolInvariant, PTL

(* As long, the queue's count and the byte count are what the ring says.   *)
THEOREM Counted == Spec => []CountsExact
<1>1. OwnersInv /\ TallyInv => CountsExact
  <2> SUFFICES ASSUME OwnersInv, TallyInv, ~lossy PROVE CountsExact
    BY DEF CountsExact
  <2>1. CountExact
    <3>1. btm_level.head \in 0 .. Sz - 1 /\ btm_level.tail \in 0 .. Sz - 1
      BY DEF OwnersInv, Queues
    <3>2. (btm_level.tail - btm_level.head) % Sz = Apart(btm_level.head, btm_level.tail)
      BY <3>1, ApartIs
    <3> QED BY <3>2 DEF TallyInv, TightAt, CountExact
  <2>2. ASSUME ~paniced
        PROVE  free_mem = BtmLevel * Cardinality(UNION {PagesOf(btm_level.slot[i]) : i \in InUse})
    <3>1. UNION {PagesOf(btm_level.slot[i]) : i \in InUse} = Managed \ Granted
      BY <2>2, WindowPages
    <3>2. free_mem = BtmLevel * Cardinality(Managed \ Granted)
      BY <2>2 DEF TallyInv
    <3> QED BY <3>1, <3>2
  <2> QED BY <2>1, <2>2 DEF CountsExact
<1> QED BY <1>1, PoolInvariant, PTL

-----------------------------------------------------------------------------
(* Rotations.                                                              *)

PlainQueues ==
  [slot : Ring, head : 0 .. Sz - 1, tail : 0 .. Sz - 1, ent_cnt : Int, panic : BOOLEAN,
   lossy : BOOLEAN]

(* Behind turn k of a pass over q: a block that is large enough is still   *)
(* to come.                                                                *)
Rotated(q, pages, n, k, r) ==
  /\ r \in PlainQueues /\ Apart(r.head, r.tail) = n
  /\ \A i \in 0 .. Sz - 1 :
       Apart(q.head, i) < n /\ ~(GetPgCnt(q.slot[i]) < pages) =>
         Apart(r.head, i) < n - k /\ r.slot[i] = q.slot[i]

Missed(q, pages, n, k, s) ==
  s.found \/ (s = [found |-> FALSE, page |-> 0, q |-> s.q] /\ Rotated(q, pages, n, k, s.q))

LEMMA ApartMoves ==
  ASSUME NEW h \in 0 .. Sz - 1, NEW t \in 0 .. Sz - 1, NEW h1, NEW t1,
         h1 = (IF h = Sz - 1 THEN 0 ELSE h + 1), t1 = (IF t = Sz - 1 THEN 0 ELSE t + 1)
  PROVE  Apart(h1, t1) = Apart(h, t)
<1>1. CASE h = Sz - 1
  BY <1>1, SizeFact DEF Apart
<1>2. CASE h # Sz - 1
  BY <1>2, SizeFact DEF Apart
<1> QED BY <1>1, <1>2

(* What full and put come to, part by part.                                *)
LEMMA PutIs ==
  ASSUME NEW q, NEW d, NEW h, NEW t, NEW n, NEW p, NEW l, NEW e,
         q = [slot |-> d, head |-> h, tail |-> t, ent_cnt |-> n, panic |-> p, lossy |-> l]
  PROVE  /\ Full(q) <=> h = Next1(t)
         /\ Put(q, e) = [slot |-> [d EXCEPT ![t] = e], head |-> h, tail |-> Next1(t),
                         ent_cnt |-> n + 1, panic |-> p, lossy |-> l]
<1>1. Full(q) <=> h = Next1(t)
  BY DEF Full
<1>2. Put(q, e) = [q EXCEPT !.slot[t] = e, !.tail = Next1(t), !.ent_cnt = n + 1]
  BY DEF Put
<1> QED BY <1>1, <1>2

LEMMA VisitRotates ==
  ASSUME NEW q, NEW pages \in Nat, NEW n \in Nat, NEW k \in Nat, k + 1 <= n,
         NEW s, Missed(q, pages, n, k, s)
  PROVE  Missed(q, pages, n, k + 1, Visit(s, pages))
<1>1. CASE s.found
  <2>1. Visit(s, pages) = s
    BY <1>1 DEF Visit
  <2> QED BY <1>1, <2>1 DEF Missed
<1>2. CASE ~s.found
  <2>1. PICK r : s = [found |-> FALSE, page |-> 0, q |-> r] /\ Rotated(q, pages, n, k, r)
    BY <1>2 DEF Missed
  <2>2. PICK d \in Ring, h \in 0 .. Sz - 1, t \in 0 .. Sz - 1, c \in Int, p \in BOOLEAN,
             l \in BOOLEAN :
          r = [slot |-> d, head |-> h, tail |-> t, ent_cnt |-> c, panic |-> p, lossy |-> l]
    BY <2>1 DEF Rotated, PlainQueues
  <2>3. /\ Apart(h, t) = n
        /\ \A i \in 0 .. Sz - 1 :
             Apart(q.head, i) < n /\ ~(GetPgCnt(q.slot[i]) < pages) =>
               Apart(h, i) < n - k /\ d[i] = q.slot[i]
    BY <2>1, <2>2 DEF Rotated
  <2>4. h # t /\ n <= Sz - 1
    <3>1. Apart(h, h) = 0
      BY DEF Apart
    <3>2. Apart(h, t) \in 0 .. Sz - 1
      BY ApartIs
    <3> QED BY <2>3, <3>1, <3>2
  <2>5. PICK h1 \in 0 .. Sz - 1, t1 \in 0 .. Sz - 1 :
          /\ h1 = Next1(h) /\ t1 = Next1(t)
          /\ h1 = (IF h = Sz - 1 THEN 0 ELSE h + 1) /\ t1 = (IF t = Sz - 1 THEN 0 ELSE t + 1)
    <3>1. h \in Int /\ t \in Int
      OBVIOUS
    <3>2. Next1(h) \in 0 .. Sz - 1 /\ Next1(t) \in 0 .. Sz - 1
      BY <3>1, NextType
    <3> QED BY <3>2, NextIs
  <2>6. h1 # t1
    BY <2>4, <2>5
  <2>7. PICK e \in Nat : e = d[h]
    BY DEF Ring
  <2>8. PICK f, g : f = [d EXCEPT ![h] = 0] /\ g = [f EXCEPT ![t] = e]
    OBVIOUS
  <2>9. PICK rest, c1 :
          /\ rest = Take(r) /\ c1 = c - 1
          /\ rest = [slot |-> f, head |-> h1, tail |-> t, ent_cnt |-> c1, panic |-> p,
                     lossy |-> l]
    <3>1. Take(r) = [r EXCEPT !.slot[h] = 0, !.head = h1, !.ent_cnt = c - 1]
      BY <2>2, <2>5 DEF Take
    <3>2. Take(r) = [slot |-> f, head |-> h1, tail |-> t, ent_cnt |-> c - 1, panic |-> p,
                     lossy |-> l]
      BY <2>2, <2>8, <3>1
    <3> QED BY <3>2
  <2>10. PICK c2 \in Int :
           Insert(rest, e) = [slot |-> g, head |-> h1, tail |-> t1, ent_cnt |-> c2,
                              panic |-> p, lossy |-> l]
    <3>1. /\ Full(rest) <=> h1 = Next1(t)
          /\ Put(rest, e) = [slot |-> [f EXCEPT ![t] = e], head |-> h1, tail |-> Next1(t),
                             ent_cnt |-> c1 + 1, panic |-> p, lossy |-> l]
      BY <2>9, PutIs
    <3>2. Insert(rest, e) = Put(rest, e)
      BY <2>5, <2>6, <3>1 DEF Insert, InsertWith
    <3>3. PICK c2 \in Int : c2 = c1 + 1
      BY <2>9
    <3> QED BY <2>5, <2>8, <3>1, <3>2, <3>3
  <2>11. PICK left \in Int : left = GetPgCnt(e) - pages
    <3>1. GetPgCnt(e) \in Int
      BY WordType
    <3> QED BY <3>1
  <2>12. s.q = r /\ ~Empty(r) /\ r.slot[r.head] = e
    BY <2>1, <2>2, <2>4, <2>7 DEF Empty
  <2>13. CASE left >= 0
    <3>1. Visit(s, pages).found
      BY <1>2, <2>11, <2>12, <2>13 DEF Visit
    <3> QED BY <3>1 DEF Missed
  <2>14. CASE left < 0
    <3>1. PICK r1 : r1 = Insert(rest, e)
      OBVIOUS
    <3>2. Visit(s, pages) = [s EXCEPT !.q = r1]
      <4>1. /\ e = IF Empty(s.q) THEN 0 ELSE s.q.slot[s.q.head]
            /\ rest = IF Empty(s.q) THEN Panic(s.q) ELSE Take(s.q)
            /\ left = GetPgCnt(e) - pages
        BY <2>9, <2>11, <2>12
      <4> QED BY <1>2, <2>14, <3>1, <4>1 DEF Visit
    <3>3. Visit(s, pages) = [found |-> FALSE, page |-> 0, q |-> r1]
      BY <2>1, <3>2
    <3>4. f \in Ring /\ g \in Ring
      BY <2>8 DEF Ring
    <3>5. r1 \in PlainQueues /\ r1.head = h1 /\ r1.tail = t1 /\ r1.slot = g
      BY <2>10, <3>1, <3>4 DEF PlainQueues
    <3>6. Apart(h1, t1) = n
      BY <2>3, <2>5, ApartMoves
    <3>7. ASSUME NEW i \in 0 .. Sz - 1, Apart(q.head, i) < n, ~(GetPgCnt(q.slot[i]) < pages)
          PROVE  Apart(h1, i) < n - (k + 1) /\ g[i] = q.slot[i]
      <4>1. Apart(h, i) < n - k /\ d[i] = q.slot[i]
        BY <2>3, <3>7
      <4>2. i # h
        <5>1. PICK z \in Int : z = GetPgCnt(e)
          BY WordType
        <5>2. z < pages
          BY <2>11, <2>14, <5>1
        <5> QED BY <2>7, <3>7, <4>1, <5>1, <5>2
      <4>3. Apart(h, i) \in Int /\ Apart(h1, i) = Apart(h, i) - 1
        BY <2>5, <4>2, SizeFact DEF Apart
      <4>4. i # t
        BY <2>3, <4>1
      <4>5. g[i] = d[i]
        BY <2>8, <4>2, <4>4 DEF Ring
      <4> QED BY <4>1, <4>3, <4>5
    <3>8. Rotated(q, pages, n, k + 1, r1)
      BY <3>5, <3>6, <3>7 DEF Rotated
    <3> QED BY <3>3, <3>8 DEF Missed
  <2> QED BY <2>11, <2>13, <2>14
<1> QED BY <1>1, <1>2

(* A pass over a queue whose count is right misses nothing.                *)
LEMMA PassMisses ==
  ASSUME NEW q \in PlainQueues, NEW pages \in Nat, q.ent_cnt = Apart(q.head, q.tail),
         ~ScanPass(q, pages).found
  PROVE  \A i \in 0 .. Sz - 1 :
           Apart(q.head, i) < Apart(q.head, q.tail) => GetPgCnt(q.slot[i]) < pages
<1>1. PICK n \in Nat : n = q.ent_cnt
  BY ApartIs DEF PlainQueues
<1>2. PICK st : /\ st[0] = [found |-> FALSE, page |-> 0, q |-> q]
                /\ \A k \in 1 .. n : st[k] = Visit(st[k - 1], pages)
                /\ ScanPass(q, pages) = IF n > 0 THEN st[n] ELSE st[0]
  BY <1>1, ScanTurns
<1> DEFINE S == {k \in Nat : k <= n => Missed(q, pages, n, k, st[k])}
<1>3. Missed(q, pages, n, 0, st[0])
  <2>1. Rotated(q, pages, n, 0, q)
    BY <1>1 DEF Rotated
  <2> QED BY <1>2, <2>1 DEF Missed
<1>4. ASSUME NEW k \in Nat, k \in S PROVE k + 1 \in S
  <2> SUFFICES ASSUME k + 1 <= n PROVE Missed(q, pages, n, k + 1, st[k + 1])
    OBVIOUS
  <2>1. k + 1 \in 1 .. n /\ (k + 1) - 1 = k
    OBVIOUS
  <2>2. st[k + 1] = Visit(st[k], pages)
    BY <1>2, <2>1
  <2>3. Missed(q, pages, n, k, st[k])
    BY <1>4
  <2> QED BY <2>2, <2>3, VisitRotates
<1>5. Nat \subseteq S
  <2>1. 0 \in S
    BY <1>3
  <2> HIDE DEF S
  <2> QED BY <1>4, <2>1, SetInduction
<1>6. Missed(q, pages, n, n, st[n]) /\ ~st[n].found
  <2>1. ScanPass(q, pages) = st[n]
    BY <1>2
  <2> QED BY <1>5, <2>1
<1>7. PICK r : Rotated(q, pages, n, n, r)
  BY <1>6 DEF Missed
<1>8. r.head \in 0 .. Sz - 1
  BY <1>7 DEF Rotated, PlainQueues
<1>9. ASSUME NEW i \in 0 .. Sz - 1, Apart(q.head, i) < n
      PROVE  GetPgCnt(q.slot[i]) < pages
  <2>1. PICK a \in 0 .. Sz - 1 : a = Apart(r.head, i)
    BY <1>8, ApartIs
  <2>2. ~(a < n - n)
    BY <2>1
  <2> QED BY <1>7, <1>9, <2>1, <2>2 DEF Rotated
<1> QED BY <1>1, <1>9

LEMMA AllocMisses ==
  ASSUME NEW q, NEW pages, ~Alloc(q, pages).found
  PROVE  ~ScanPass(q, pages).found
<1> SUFFICES ASSUME ScanPass(q, pages).found PROVE FALSE
  OBVIOUS
<1>1. PICK s : s = ScanPass(q, pages) /\ s.found
  OBVIOUS
<1>2. Alloc(q, pages) = s
  BY <1>1 DEF Alloc
<1> QED BY <1>1, <1>2

(* A grant shows in what callers hold.                                     *)
LEMMA GrantShows ==
  ASSUME OwnersInv, NEW g, held' = held (+) SetToBag({g}) PROVE held' # held
<1>1. /\ BagToSet(held') = BagToSet(held) \cup {g}
      /\ held'[g] = IF g \in BagToSet(held) THEN held[g] + 1 ELSE 1
  BY HeldGains
<1>2. g \in BagToSet(held) => held[g] \in Nat
  BY DEF OwnersInv
<1>3. g \in BagToSet(held) => held[g] + 1 # held[g]
  BY <1>2
<1> QED BY <1>1, <1>3

(* An allocation fails only if no block of the queue was large enough, as  *)
(* long as the queue's count is right: whatever the rotation of a pass, it *)
(* steps over no block.                                                    *)
THEOREM FitsFound == Spec => AllocFindsFit
<1>1. ASSUME OwnersInv, NEW size \in DmaSizes \cup {BtmLevel}, CountExact, Allocate(size),
             held' = held
      PROVE  \A i \in InUse : GetPgCnt(btm_level.slot[i]) < PagesIn(AlignUp(size))
  <2>1. PICK pages \in Nat : pages = PagesIn(AlignUp(size))
    BY RingSizeAssumption, DmaSizesAssumption, Rounding
  <2>2. ~Alloc(btm_level, pages).found
    <3> SUFFICES ASSUME Alloc(btm_level, pages).found PROVE FALSE
      OBVIOUS
    <3>1. PICK g : held' = held (+) SetToBag({g})
      BY <1>1, <2>1 DEF Allocate, Grant
    <3> QED BY <1>1, <3>1, GrantShows
  <2>3. ~ScanPass(btm_level, pages).found
    BY <2>2, AllocMisses
  <2>4. btm_level \in PlainQueues
    BY <1>1 DEF OwnersInv, Queues, PlainQueues, Rings
  <2>5. btm_level.ent_cnt = Apart(btm_level.head, btm_level.tail)
    BY <1>1, <2>4, ApartIs DEF CountExact, PlainQueues
  <2> QED BY <1>1, <2>1, <2>3, <2>4, <2>5, InUseIs, PassMisses
<1>2. OwnersInv => [\A size \in DmaSizes \cup {BtmLevel} :
                      CountExact /\ Allocate(size) /\ held' = held =>
                        \A i \in InUse :
                          GetPgCnt(btm_level.slot[i]) < PagesIn(AlignUp(size))]_vars
  BY <1>1
<1> QED BY <1>2, PoolInvariant, PTL DEF AllocFindsFit

-----------------------------------------------------------------------------
(* The sort as it runs, on any ring and any window that fits in it.        *)

(* Positions less than a ring apart are in slots of their own.             *)
LEMMA SlotsApart ==
  ASSUME NEW i \in Int, NEW j \in Int, i # j, i - j < Sz, j - i < Sz
  PROVE  i % Sz # j % Sz
<1> SUFFICES ASSUME i % Sz = j % Sz PROVE FALSE
  OBVIOUS
<1>1. PICK n \in Nat \ {0} : n = Sz
  BY SizeFact
<1>2. PICK r \in Int, a \in Int : r = i % n /\ 0 <= r /\ r < n /\ i = a * n + r
  BY Division
<1>3. PICK q \in Int, b \in Int : q = j % n /\ 0 <= q /\ q < n /\ j = b * n + q
  BY Division
<1>4. PICK x \in Int, y \in Int : x = a * n /\ y = b * n /\ i = x + r /\ j = y + r
  BY <1>1, <1>2, <1>3
<1>5. x # y /\ x - y < n /\ y - x < n
  BY <1>1, <1>4
<1>6. CASE a < b
  <2>1. PICK c \in Int : c = b - a /\ 1 <= c /\ c * n = y - x
    <3>1. PICK c \in Int : c = b - a /\ b = a + c /\ 1 <= c
      BY <1>6
    <3>2. (a + c) * n = a * n + c * n
      OBVIOUS
    <3> QED BY <1>4, <3>1, <3>2
  <2> QED BY <1>5, <2>1, Multiples
<1>7. CASE b < a
  <2>1. PICK c \in Int : c = a - b /\ 1 <= c /\ c * n = x - y
    <3>1. PICK c \in Int : c = a - b /\ a = b + c /\ 1 <= c
      BY <1>7
    <3>2. (b + c) * n = b * n + c * n
      OBVIOUS
    <3> QED BY <1>4, <3>1, <3>2
  <2> QED BY <1>5, <2>1, Multiples
<1>8. a # b
  BY <1>4, <1>5
<1> QED BY <1>6, <1>7, <1>8

(* An exchange leaves the block of every other position where it was.      *)
LEMMA SwapElsewhere ==
  ASSUME NEW d \in Ring, NEW i \in Int, NEW j \in Int, NEW p \in Int,
         p % Sz # i % Sz, p % Sz # j % Sz
  PROVE  Swap(d, i, j)[p % Sz] = d[p % Sz] /\ AddrAt(Swap(d, i, j), p) = AddrAt(d, p)
<1>1. PICK a \in 0 .. Sz - 1, b \in 0 .. Sz - 1, c \in 0 .. Sz - 1 :
        a = i % Sz /\ b = j % Sz /\ c = p % Sz
  BY SizeFact
<1>2. [d EXCEPT ![a] = d[b], ![b] = d[a]][c] = d[c]
  BY <1>1 DEF Ring
<1> QED BY <1>1, <1>2 DEF Swap, AddrAt

(* Behind a turn of partition_pgs: what the upward scan has passed is at   *)
(* or below the pivot, what the downward scan has passed is at or above.   *)
TurnSorts(pivot, lo, hi, s) ==
  /\ ~s.met => /\ \A p \in Int : lo <= p /\ p <= s.i => AddrAt(s.data, p) <= pivot
               /\ \A p \in Int : s.j <= p /\ p <= hi => pivot <= AddrAt(s.data, p)
  /\ s.met  => /\ \A p \in Int : lo <= p /\ p <= s.j => AddrAt(s.data, p) <= pivot
               /\ \A p \in Int : s.j < p /\ p <= hi => pivot <= AddrAt(s.data, p)

LEMMA TurnOrders ==
  ASSUME NEW lo \in Int, NEW hi \in Int, hi - lo < Sz, NEW pivot \in Nat, NEW k \in Nat,
         NEW s, TurnOk(Ring, pivot, lo, hi, s, k), TurnSorts(pivot, lo, hi, s)
  PROVE  TurnSorts(pivot, lo, hi, PartitionTurn(s, pivot, lo, hi))
<1>1. CASE s.met
  BY <1>1 DEF TurnSorts, PartitionTurn
<1>2. CASE ~s.met
  <2>1. PICK d \in Ring, x \in Int, y \in Int :
          s = [data |-> d, i |-> x, j |-> y, met |-> FALSE]
    BY <1>2 DEF TurnOk
  <2>2. lo - 1 + k <= x /\ x < y /\ y <= hi + 1 - k
    BY <1>2, <2>1 DEF TurnOk
  <2>3. PICK a \in Int : lo <= a /\ a < y /\ AddrAt(d, a) <= pivot
    BY <1>2, <2>1 DEF TurnOk
  <2>4. PICK b \in Int : x < b /\ b <= hi /\ pivot <= AddrAt(d, b)
    BY <1>2, <2>1 DEF TurnOk
  <2>5. /\ \A p \in Int : lo <= p /\ p <= x => AddrAt(d, p) <= pivot
        /\ \A p \in Int : y <= p /\ p <= hi => pivot <= AddrAt(d, p)
    BY <2>1 DEF TurnSorts
  <2>6. \A m \in Int : AddrAt(d, m) \in Nat
    BY AddrType
  <2> DEFINE below == {m \in lo .. y - 1 : AddrAt(d, m) <= pivot}
             above == {m \in x + 1 .. hi : AddrAt(d, m) >= pivot}
  <2>7. PICK j \in Int :
          /\ j = Down(d, pivot, lo, y) /\ a <= j /\ j < y /\ AddrAt(d, j) <= pivot
          /\ \A p \in Int : j < p /\ p < y => pivot <= AddrAt(d, p)
    <3>1. PICK top \in Int : top = y - 1
      OBVIOUS
    <3>2. a \in below /\ below # {} /\ below \subseteq Int /\ \A m \in below : m <= top
      BY <2>3, <3>1
    <3>3. Max(below) \in below /\ \A m \in below : m <= Max(below)
      <4> HIDE DEF below
      <4> QED BY <3>2, MaxOf
    <3>4. PICK j \in Int : j = Max(below)
      <4> HIDE DEF below
      <4> QED BY <3>2, <3>3
    <3>5. a <= j /\ j < y /\ AddrAt(d, j) <= pivot
      BY <3>2, <3>3, <3>4
    <3>6. ASSUME NEW p \in Int, j < p, p < y PROVE pivot <= AddrAt(d, p)
      <4>1. p \notin below
        <5> HIDE DEF below
        <5> QED BY <3>3, <3>4, <3>6
      <4>2. lo <= p /\ p <= y - 1
        BY <2>3, <3>5, <3>6
      <4> QED BY <2>6, <4>1, <4>2
    <3> QED BY <3>4, <3>5, <3>6 DEF Down
  <2>8. PICK i \in Int :
          /\ i = Up(d, pivot, hi, x) /\ x < i /\ i <= b /\ pivot <= AddrAt(d, i)
          /\ \A p \in Int : x < p /\ p < i => AddrAt(d, p) <= pivot
    <3>1. PICK bottom \in Int : bottom = x + 1
      OBVIOUS
    <3>2. b \in above /\ above # {} /\ above \subseteq Int /\ \A m \in above : bottom <= m
      BY <2>4, <2>6, <3>1
    <3>3. Min(above) \in above /\ \A m \in above : Min(above) <= m
      <4> HIDE DEF above
      <4> QED BY <3>2, MinOf
    <3>4. PICK i \in Int : i = Min(above)
      <4> HIDE DEF above
      <4> QED BY <3>2, <3>3
    <3>5. x < i /\ i <= b /\ pivot <= AddrAt(d, i)
      BY <2>6, <3>2, <3>3, <3>4
    <3>6. ASSUME NEW p \in Int, x < p, p < i PROVE AddrAt(d, p) <= pivot
      <4>1. p \notin above
        <5> HIDE DEF above
        <5> QED BY <3>3, <3>4, <3>6
      <4>2. x + 1 <= p /\ p <= hi
        BY <2>4, <3>5, <3>6
      <4> QED BY <2>6, <4>1, <4>2
    <3> QED BY <3>4, <3>5, <3>6 DEF Up
  <2> HIDE DEF below, above
  <2>9. CASE i >= j
    <3>1. PartitionTurn(s, pivot, lo, hi) = [data |-> d, i |-> x, j |-> j, met |-> TRUE]
      <4>1. PartitionTurn(s, pivot, lo, hi) = [s EXCEPT !.met = TRUE, !.j = j]
        BY <2>1, <2>7, <2>8, <2>9 DEF PartitionTurn
      <4> QED BY <2>1, <4>1
    <3>2. ASSUME NEW p \in Int, lo <= p, p <= j PROVE AddrAt(d, p) <= pivot
      <4>1. p <= x \/ (x < p /\ p < i) \/ p = j
        BY <2>9, <3>2
      <4> QED BY <2>5, <2>7, <2>8, <3>2, <4>1
    <3>3. ASSUME NEW p \in Int, j < p, p <= hi PROVE pivot <= AddrAt(d, p)
      <4>1. p < y \/ y <= p
        BY <3>3
      <4> QED BY <2>5, <2>7, <3>3, <4>1
    <3> QED BY <3>1, <3>2, <3>3 DEF TurnSorts
  <2>10. CASE i < j
    <3> DEFINE e == Swap(d, i, j)
    <3>1. PartitionTurn(s, pivot, lo, hi) = [data |-> e, i |-> i, j |-> j, met |-> FALSE]
      BY <2>1, <2>7, <2>8, <2>10 DEF PartitionTurn
    <3>2. AddrAt(e, i) <= pivot /\ pivot <= AddrAt(e, j)
      BY <2>7, <2>8, SwapFact
    <3>3. ASSUME NEW p \in Int, lo <= p, p <= hi, p # i, p # j PROVE AddrAt(e, p) = AddrAt(d, p)
      <4>1. /\ p - i < Sz /\ i - p < Sz
            /\ p - j < Sz /\ j - p < Sz
        BY <2>2, <2>3, <2>4, <2>7, <2>8, <3>3, SizeFact
      <4>2. p % Sz # i % Sz /\ p % Sz # j % Sz
        BY <3>3, <4>1, SlotsApart
      <4> QED BY <4>2, SwapElsewhere
    <3> HIDE DEF e
    <3>4. ASSUME NEW p \in Int, lo <= p, p <= i PROVE AddrAt(e, p) <= pivot
      <4>1. p = i \/ (p # i /\ p # j /\ p <= hi /\ (p <= x \/ (x < p /\ p < i)))
        BY <2>4, <2>8, <2>10, <3>4
      <4> QED BY <2>5, <2>8, <3>2, <3>3, <3>4, <4>1
    <3>5. ASSUME NEW p \in Int, j <= p, p <= hi PROVE pivot <= AddrAt(e, p)
      <4>1. p = j \/ (p # i /\ p # j /\ lo <= p /\ (y <= p \/ (j < p /\ p < y)))
        BY <2>3, <2>7, <2>10, <3>5
      <4> QED BY <2>5, <2>7, <3>2, <3>3, <3>5, <4>1
    <3> QED BY <3>1, <3>4, <3>5 DEF TurnSorts
  <2> QED BY <2>9, <2>10
<1> QED BY <1>1, <1>2 DEF TurnOk

(* Behind partition_pgs no block of the first part lies above one of the   *)
(* second.                                                                 *)
LEMMA PartitionOrders ==
  ASSUME NEW lo \in Int, NEW hi \in Int, lo < hi, hi - lo < Sz, NEW d0 \in Ring
  PROVE  LET part == PartitionPgs(d0, lo, hi)
         IN  \A p, q \in Int : lo <= p /\ p <= part.at /\ part.at < q /\ q <= hi =>
                                 AddrAt(part.data, p) <= AddrAt(part.data, q)
<1>1. PICK n \in Nat : n = hi - lo + 1 /\ n > 0
  OBVIOUS
<1>2. PICK mid \in Int : mid = (lo + hi) \div 2 /\ lo <= mid /\ mid < hi
  OBVIOUS
<1>3. PICK pivot \in Nat : pivot = AddrAt(d0, (lo + hi) \div 2) /\ pivot = AddrAt(d0, mid)
  BY <1>2, AddrType
<1>4. PICK st : /\ st[0] = [data |-> d0, i |-> lo - 1, j |-> hi + 1, met |-> FALSE]
                /\ \A k \in 1 .. n : st[k] = PartitionTurn(st[k - 1], pivot, lo, hi)
                /\ PartitionPgs(d0, lo, hi) = [data |-> st[n].data, at |-> st[n].j]
  <2>1. (hi - lo + 1) \in Int
    OBVIOUS
  <2>2. PICK st :
          /\ st[0] = [data |-> d0, i |-> lo - 1, j |-> hi + 1, met |-> FALSE]
          /\ \A k \in 1 .. (hi - lo + 1) :
               st[k] = PartitionTurn(st[k - 1], AddrAt(d0, (lo + hi) \div 2), lo, hi)
          /\ PartitionPgs(d0, lo, hi) =
               LET end == IF (hi - lo + 1) > 0 THEN st[(hi - lo + 1)] ELSE st[0]
               IN  [data |-> end.data, at |-> end.j]
    BY <2>1, PartitionTurns
  <2> QED BY <1>1, <1>3, <2>2
<1> DEFINE Behind(k) == TurnOk(Ring, pivot, lo, hi, st[k], k) /\ TurnSorts(pivot, lo, hi, st[k])
           S == {k \in Nat : k <= n => Behind(k)}
<1>5. 0 \in S
  <2>1. AddrAt(d0, mid) <= pivot /\ pivot <= AddrAt(d0, mid)
    BY <1>3
  <2>2. TurnOk(Ring, pivot, lo, hi, [data |-> d0, i |-> lo - 1, j |-> hi + 1, met |-> FALSE], 0)
    BY <1>2, <2>1 DEF TurnOk
  <2>3. TurnSorts(pivot, lo, hi, [data |-> d0, i |-> lo - 1, j |-> hi + 1, met |-> FALSE])
    BY DEF TurnSorts
  <2> QED BY <1>4, <2>2, <2>3
<1>6. ASSUME NEW k \in Nat, k \in S PROVE k + 1 \in S
  <2> SUFFICES ASSUME k + 1 <= n PROVE Behind(k + 1)
    OBVIOUS
  <2>1. TurnOk(Ring, pivot, lo, hi, st[k], k) /\ TurnSorts(pivot, lo, hi, st[k])
    BY <1>6
  <2>2. k + 1 \in 1 .. n /\ (k + 1) - 1 = k
    OBVIOUS
  <2>3. st[k + 1] = PartitionTurn(st[k], pivot, lo, hi)
    BY <1>4, <2>2
  <2>4. Closed(Ring, lo, hi)
    BY RingClosed
  <2>5. TurnOk(Ring, pivot, lo, hi, st[k + 1], k + 1)
    BY <2>1, <2>3, <2>4, TurnKeeps
  <2>6. TurnSorts(pivot, lo, hi, st[k + 1])
    BY <2>1, <2>3, TurnOrders
  <2> QED BY <2>5, <2>6
<1>7. Behind(n)
  <2>1. Nat \subseteq S
    <3> HIDE DEF S
    <3> QED BY <1>5, <1>6, SetInduction
  <2> QED BY <2>1
<1>8. st[n].met /\ st[n].data \in Ring
  BY <1>1, <1>7 DEF TurnOk
<1>9. ASSUME NEW p \in Int, NEW q \in Int, lo <= p, p <= st[n].j, st[n].j < q, q <= hi
      PROVE  AddrAt(st[n].data, p) <= AddrAt(st[n].data, q)
  <2>1. AddrAt(st[n].data, p) <= pivot /\ pivot <= AddrAt(st[n].data, q)
    BY <1>7, <1>8, <1>9 DEF TurnSorts
  <2>2. AddrAt(st[n].data, p) \in Nat /\ AddrAt(st[n].data, q) \in Nat
    BY <1>8, AddrType
  <2> QED BY <2>1, <2>2
<1> QED BY <1>4, <1>9

(* The rings in which the words of some slots are those of another ring,   *)
(* each as often, and all the other slots hold what they hold there.       *)
Shuffles(d0, slots) ==
  {d \in Ring : /\ \A s \in (0 .. Sz - 1) \ slots : d[s] = d0[s]
                /\ \A w \in Nat : Cardinality({s \in slots : d[s] = w})
                                = Cardinality({s \in slots : d0[s] = w})}

(* The slots of a window.                                                  *)
SlotsOf(lo, hi) == {i % Sz : i \in lo .. hi}

LEMMA ShufflesClosed ==
  ASSUME NEW d0 \in Ring, NEW lo \in Int, NEW hi \in Int
  PROVE  Closed(Shuffles(d0, SlotsOf(lo, hi)), lo, hi)
<1> SUFFICES ASSUME NEW d \in Shuffles(d0, SlotsOf(lo, hi)), NEW i \in Int, NEW j \in Int,
                    lo <= i, i <= hi, lo <= j, j <= hi
             PROVE  Swap(d, i, j) \in Shuffles(d0, SlotsOf(lo, hi))
  BY DEF Closed, Shuffles
<1>1. PICK slots \in SUBSET (0 .. Sz - 1) : slots = SlotsOf(lo, hi)
  <2>1. \A p \in lo .. hi : p % Sz \in 0 .. Sz - 1
    BY SizeFact
  <2>2. SlotsOf(lo, hi) \in SUBSET (0 .. Sz - 1)
    BY <2>1 DEF SlotsOf
  <2> QED BY <2>2
<1>2. PICK a \in slots, b \in slots : a = i % Sz /\ b = j % Sz
  <2>1. i \in lo .. hi /\ j \in lo .. hi
    OBVIOUS
  <2>2. i % Sz \in SlotsOf(lo, hi) /\ j % Sz \in SlotsOf(lo, hi)
    BY <2>1 DEF SlotsOf
  <2> QED BY <1>1, <2>2
<1>3. d \in Ring
  BY DEF Shuffles
<1>4. PICK e \in Ring : /\ e = Swap(d, i, j) /\ e[a] = d[b] /\ e[b] = d[a]
                        /\ \A s \in 0 .. Sz - 1 : s # a /\ s # b => e[s] = d[s]
  <2> DEFINE e == [d EXCEPT ![a] = d[b], ![b] = d[a]]
  <2>1. e \in Ring /\ e[a] = d[b] /\ e[b] = d[a]
    BY <1>1, <1>3 DEF Ring
  <2>2. \A s \in 0 .. Sz - 1 : s # a /\ s # b => e[s] = d[s]
    BY <1>3 DEF Ring
  <2>3. e = Swap(d, i, j)
    BY <1>2 DEF Swap
  <2> HIDE DEF e
  <2> QED BY <2>1, <2>2, <2>3
<1>5. ASSUME NEW w \in Nat
      PROVE  Cardinality({s \in slots : e[s] = w}) = Cardinality({s \in slots : d[s] = w})
  <2> DEFINE A == {s \in slots : d[s] = w}
             B == {s \in slots : e[s] = w}
             f == [s \in A |-> IF s = a THEN b ELSE IF s = b THEN a ELSE s]
  <2>1. f \in [A -> B]
    <3> SUFFICES ASSUME NEW s \in A PROVE (IF s = a THEN b ELSE IF s = b THEN a ELSE s) \in B
      OBVIOUS
    <3> QED BY <1>1, <1>4
  <2>2. \A s, t \in A : f[s] = f[t] => s = t
    OBVIOUS
  <2>3. \A t \in B : \E s \in A : f[s] = t
    <3> SUFFICES ASSUME NEW t \in B PROVE \E s \in A : f[s] = t
      OBVIOUS
    <3>1. PICK s : s = IF t = a THEN b ELSE IF t = b THEN a ELSE t
      OBVIOUS
    <3>2. s \in A
      BY <1>1, <1>4, <3>1
    <3>3. f[s] = t
      BY <3>1, <3>2
    <3> QED BY <3>2, <3>3
  <2>4. f \in Bijection(A, B)
    <3> HIDE DEF f, A, B
    <3> QED BY <2>1, <2>2, <2>3, Fun_IsBij
  <2>5. IsFiniteSet(A)
    <3>1. IsFiniteSet(0 .. Sz - 1)
      <4>1. Sz - 1 \in Int
        BY SizeFact
      <4> QED BY <4>1, FS_Interval
    <3>2. A \in SUBSET (0 .. Sz - 1)
      BY <1>1
    <3> HIDE DEF A
    <3> QED BY <3>1, <3>2, FS_Subset
  <2>6. ExistsBijection(A, B)
    <3> HIDE DEF f, A, B
    <3> QED BY <2>4, Fun_ExistsBij
  <2> HIDE DEF f, A, B
  <2>7. Cardinality(B) = Cardinality(A)
    BY <2>5, <2>6, FS_Bijection
  <2> QED BY <2>7 DEF A, B
<1>6. \A s \in (0 .. Sz - 1) \ slots : e[s] = d0[s]
  BY <1>1, <1>4 DEF Shuffles
<1>7. \A w \in Nat : Cardinality({s \in slots : e[s] = w}) = Cardinality({s \in slots : d0[s] = w})
  BY <1>1, <1>5 DEF Shuffles
<1> QED BY <1>1, <1>4, <1>6, <1>7 DEF Shuffles

(* The rings that a window's blocks can make of it: each place of the      *)
(* window shows an address of the window, and every other one its own.     *)
Within(d, lo0, hi0, lo, hi) ==
  {e \in Ring :
     /\ \A p \in Int : lo0 <= p /\ p <= hi0 /\ (p < lo \/ hi < p) => AddrAt(e, p) = AddrAt(d, p)
     /\ \A p \in Int : lo <= p /\ p <= hi =>
          \E q \in Int : lo <= q /\ q <= hi /\ AddrAt(e, p) = AddrAt(d, q)}

LEMMA WithinClosed ==
  ASSUME NEW d \in Ring, NEW lo0 \in Int, NEW hi0 \in Int, hi0 - lo0 < Sz,
         NEW lo \in Int, NEW hi \in Int, lo0 <= lo, hi <= hi0
  PROVE  d \in Within(d, lo0, hi0, lo, hi) /\ Closed(Within(d, lo0, hi0, lo, hi), lo, hi)
<1>1. d \in Within(d, lo0, hi0, lo, hi)
  BY DEF Within
<1>2. ASSUME NEW e \in Within(d, lo0, hi0, lo, hi), NEW i \in Int, NEW j \in Int,
             lo <= i, i <= hi, lo <= j, j <= hi
      PROVE  Swap(e, i, j) \in Within(d, lo0, hi0, lo, hi)
  <2>1. e \in Ring
    BY DEF Within
  <2>2. PICK g \in Ring : /\ g = Swap(e, i, j)
                          /\ AddrAt(g, i) = AddrAt(e, j) /\ AddrAt(g, j) = AddrAt(e, i)
    BY <2>1, SwapFact
  <2>3. ASSUME NEW p \in Int, lo0 <= p, p <= hi0, p # i, p # j
        PROVE  AddrAt(g, p) = AddrAt(e, p)
    <3>1. p - i < Sz /\ i - p < Sz /\ p - j < Sz /\ j - p < Sz
      BY <1>2, <2>3, SizeFact
    <3>2. p % Sz # i % Sz /\ p % Sz # j % Sz
      BY <2>3, <3>1, SlotsApart
    <3> QED BY <2>1, <2>2, <3>2, SwapElsewhere
  <2>4. ASSUME NEW p \in Int, lo0 <= p, p <= hi0, p < lo \/ hi < p
        PROVE  AddrAt(g, p) = AddrAt(d, p)
    <3>1. p # i /\ p # j
      BY <1>2, <2>4
    <3> QED BY <2>3, <2>4, <3>1 DEF Within
  <2>5. ASSUME NEW p \in Int, lo <= p, p <= hi
        PROVE  \E q \in Int : lo <= q /\ q <= hi /\ AddrAt(g, p) = AddrAt(d, q)
    <3>1. PICK r \in Int : lo <= r /\ r <= hi /\ AddrAt(g, p) = AddrAt(e, r)
      <4>1. lo0 <= p /\ p <= hi0
        BY <2>5
      <4> QED BY <1>2, <2>2, <2>3, <2>5, <4>1
    <3> QED BY <3>1 DEF Within
  <2> QED BY <2>2, <2>4, <2>5 DEF Within
<1>3. Within(d, lo0, hi0, lo, hi) \subseteq Ring
  BY DEF Within
<1> QED BY <1>1, <1>2, <1>3 DEF Closed

(* A stack of calls: the last one replaced and another put behind it, and  *)
(* the last one taken off.                                                 *)
LEMMA Pushed ==
  ASSUME NEW S, NEW c \in Seq(S), c # << >>, NEW x \in S, NEW y \in S
  PROVE  LET b == Append([c EXCEPT ![Len(c)] = x], y)
         IN  /\ Len(c) \in Nat \ {0} /\ b \in Seq(S) /\ Len(b) = Len(c) + 1
             /\ b[Len(c)] = x /\ b[Len(c) + 1] = y
             /\ \A k \in 1 .. Len(c) - 1 : b[k] = c[k]
<1>1. PICK n \in Nat \ {0} : n = Len(c)
  OBVIOUS
<1>2. PICK a : a = [c EXCEPT ![Len(c)] = x]
  OBVIOUS
<1>3. a \in Seq(S) /\ Len(a) = n
  <2>1. a \in [1 .. n -> S]
    BY <1>1, <1>2
  <2> QED BY <1>1, <1>2, <2>1
<1>4. a[n] = x /\ \A k \in 1 .. n - 1 : a[k] = c[k]
  BY <1>1, <1>2
<1>5. PICK b : b = Append(a, y)
  OBVIOUS
<1>6. b \in Seq(S) /\ Len(b) = n + 1 /\ b[n + 1] = y /\ \A k \in 1 .. n : b[k] = a[k]
  BY <1>3, <1>5
<1>7. \A k \in 1 .. n - 1 : b[k] = c[k]
  BY <1>4, <1>6
<1>8. b[n] = x
  BY <1>4, <1>6
<1> QED BY <1>1, <1>2, <1>5, <1>6, <1>7, <1>8

LEMMA Popped ==
  ASSUME NEW S, NEW c \in Seq(S), c # << >>
  PROVE  \E n \in Nat \ {0}, e \in Seq(S) :
           /\ n = Len(c) /\ e = SubSeq(c, 1, Len(c) - 1) /\ Len(e) = n - 1
           /\ \A k \in 1 .. n - 1 : e[k] = c[k]
<1>1. PICK n \in Nat \ {0}, m \in Nat : n = Len(c) /\ m = n - 1
  OBVIOUS
<1>2. PICK e : e = SubSeq(c, 1, m)
  OBVIOUS
<1>3. e = [i \in 1 .. m |-> c[i]]
  BY <1>1, <1>2
<1>4. e \in Seq(S) /\ Len(e) = m /\ \A k \in 1 .. m : e[k] = c[k]
  BY <1>1, <1>3
<1> QED BY <1>1, <1>2, <1>4

(* A position of a call's part.                                            *)
In(p, v) == v[1] <= p /\ p <= v[2]

(* The calls that are open have parts of their own in the window, and of   *)
(* two positions in the wrong order both are in one of these parts.        *)
PartsOpen(d, first, last, c) ==
  /\ c \in Seq(Int \X Int)
  /\ \A k \in 1 .. Len(c) : first <= c[k][1] /\ c[k][2] <= last
  /\ \A k, m \in 1 .. Len(c) : k # m => \A p \in Int : ~(In(p, c[k]) /\ In(p, c[m]))
  /\ \A p, q \in Int : first <= p /\ p < q /\ q <= last =>
       \/ AddrAt(d, p) <= AddrAt(d, q)
       \/ \E k \in 1 .. Len(c) : In(p, c[k]) /\ In(q, c[k])

LEMMA ReturnParts ==
  ASSUME NEW d, NEW first, NEW last, NEW c, PartsOpen(d, first, last, c), c # << >>, c[Len(c)][2] <= c[Len(c)][1]
  PROVE  PartsOpen(d, first, last, SubSeq(c, 1, Len(c) - 1))
<1>1. PICK n \in Nat \ {0}, e \in Seq(Int \X Int) :
        /\ n = Len(c) /\ e = SubSeq(c, 1, Len(c) - 1) /\ Len(e) = n - 1
        /\ \A k \in 1 .. n - 1 : e[k] = c[k]
  <2>1. PICK S : S = Int \X Int /\ c \in Seq(S)
    BY DEF PartsOpen
  <2>2. \E n \in Nat \ {0}, e \in Seq(S) :
          /\ n = Len(c) /\ e = SubSeq(c, 1, Len(c) - 1) /\ Len(e) = n - 1
          /\ \A k \in 1 .. n - 1 : e[k] = c[k]
    BY <2>1, Popped
  <2> QED BY <2>1, <2>2
<1>2. \A k \in 1 .. n - 1 : k \in 1 .. n
  OBVIOUS
<1>3. \A k \in 1 .. Len(e) : first <= e[k][1] /\ e[k][2] <= last
  BY <1>1, <1>2 DEF PartsOpen
<1>4. \A k, m \in 1 .. Len(e) : k # m => \A p \in Int : ~(In(p, e[k]) /\ In(p, e[m]))
  BY <1>1, <1>2 DEF PartsOpen
<1>5. ASSUME NEW p \in Int, NEW q \in Int, first <= p, p < q, q <= last
      PROVE  \/ AddrAt(d, p) <= AddrAt(d, q)
             \/ \E k \in 1 .. Len(e) : In(p, e[k]) /\ In(q, e[k])
  <2> SUFFICES ASSUME NEW k \in 1 .. Len(c), In(p, c[k]), In(q, c[k])
               PROVE  \E m \in 1 .. Len(e) : In(p, e[m]) /\ In(q, e[m])
    BY <1>5 DEF PartsOpen
  <2>1. k # n
    <3>1. n \in 1 .. n /\ c[n] \in Int \X Int
      BY <1>1 DEF PartsOpen
    <3>2. PICK x \in Int, y \in Int : x = c[n][1] /\ y = c[n][2]
      BY <3>1
    <3>3. y <= x
      BY <1>1, <3>2
    <3> QED BY <1>5, <3>2, <3>3 DEF In
  <2>2. k \in 1 .. n - 1
    BY <1>1, <2>1
  <2> QED BY <1>1, <2>2
<1>6. PartsOpen(d, first, last, e)
  BY <1>3, <1>4, <1>5 DEF PartsOpen
<1> QED BY <1>1, <1>6

(* The two parts that the part from lo to hi is split into behind at, in   *)
(* either order.                                                           *)
Halves(lo, hi, at, u, v) ==
  /\ u \in Int \X Int /\ v \in Int \X Int
  /\ lo <= u[1] /\ u[2] <= hi /\ lo <= v[1] /\ v[2] <= hi
  /\ \A p \in Int : In(p, u) \/ In(p, v) => lo <= p /\ p <= hi
  /\ \A p \in Int : ~(In(p, u) /\ In(p, v))
  /\ \A p, q \in Int : lo <= p /\ q <= hi /\ p < q /\ (q <= at \/ at < p) =>
       (In(p, u) /\ In(q, u)) \/ (In(p, v) /\ In(q, v))

LEMMA PartsAreHalves ==
  ASSUME NEW lo \in Int, NEW hi \in Int, NEW at \in Int, lo <= at, at < hi
  PROVE  Halves(lo, hi, at, Kept(lo, hi, at), Recursed(lo, hi, at))
<1>1. Halves(lo, hi, at, <<at + 1, hi>>, <<lo, at>>) /\ Halves(lo, hi, at, <<lo, at>>, <<at + 1, hi>>)
  BY DEF Halves, In
<1> QED BY <1>1 DEF Kept, Recursed

LEMMA UpToNext ==
  ASSUME NEW n \in Nat \ {0}
  PROVE  /\ \A k \in 1 .. n + 1 : k \in 1 .. n - 1 \/ k = n \/ k = n + 1
         /\ \A k \in 1 .. n - 1 : k \in 1 .. n /\ k # n /\ n \in 1 .. n /\ k \in 1 .. n + 1
OBVIOUS

(* A turn of the loop splits the part of the running call, the nth: stack  *)
(* c becomes b, and ring d becomes e.                                      *)
Splits(d, e, lo0, hi0, c, b, n, lo, hi, at) ==
  /\ lo0 <= lo /\ lo <= at /\ at < hi /\ hi <= hi0
  /\ e \in Within(d, lo0, hi0, lo, hi)
  /\ \A p, q \in Int : lo <= p /\ p <= at /\ at < q /\ q <= hi => AddrAt(e, p) <= AddrAt(e, q)
  /\ Len(c) = n /\ Len(b) = n + 1 /\ \A k \in 1 .. n - 1 : b[k] = c[k]
  /\ \A p \in Int : In(p, c[n]) <=> lo <= p /\ p <= hi
  /\ Halves(lo, hi, at, b[n], b[n + 1])

LEMMA SplitOpen ==
  ASSUME NEW d, NEW e, NEW lo0 \in Int, NEW hi0 \in Int,
         NEW lo \in Int, NEW hi \in Int, NEW at \in Int,
         NEW c, NEW n \in Nat \ {0}, NEW b \in Seq(Int \X Int),
         PartsOpen(d, lo0, hi0, c), Splits(d, e, lo0, hi0, c, b, n, lo, hi, at)
  PROVE  PartsOpen(e, lo0, hi0, b)
<1>1. lo0 <= lo /\ lo <= at /\ at < hi /\ hi <= hi0
  BY DEF Splits
<1>2. e \in Within(d, lo0, hi0, lo, hi)
  BY DEF Splits
<1>3. \A p, q \in Int : lo <= p /\ p <= at /\ at < q /\ q <= hi => AddrAt(e, p) <= AddrAt(e, q)
  BY DEF Splits
<1>4. Len(c) = n /\ Len(b) = n + 1 /\ \A k \in 1 .. n - 1 : b[k] = c[k]
  BY DEF Splits
<1>5. \A p \in Int : In(p, c[n]) <=> lo <= p /\ p <= hi
  BY DEF Splits
<1>6. Halves(lo, hi, at, b[n], b[n + 1])
  BY DEF Splits
<1>7. \A k \in 1 .. n + 1 : k \in 1 .. n - 1 \/ k = n \/ k = n + 1
  BY UpToNext
<1>8. \A k \in 1 .. n - 1 : k \in 1 .. n /\ k # n /\ n \in 1 .. n /\ k \in 1 .. n + 1
  BY UpToNext
<1>9. ASSUME NEW k \in 1 .. n + 1 PROVE lo0 <= b[k][1] /\ b[k][2] <= hi0
  <2>1. CASE k \in 1 .. n - 1
    BY <1>4, <1>8, <2>1 DEF PartsOpen
  <2>2. CASE k = n \/ k = n + 1
    <3>1. b[k][1] \in Int /\ b[k][2] \in Int /\ lo <= b[k][1] /\ b[k][2] <= hi
      BY <1>6, <2>2 DEF Halves
    <3>2. \A x, y \in Int : lo <= x /\ y <= hi => lo0 <= x /\ y <= hi0
      BY <1>1
    <3> QED BY <3>1, <3>2
  <2> QED BY <1>7, <2>1, <2>2
<1>10. ASSUME NEW k \in 1 .. n + 1, NEW m \in 1 .. n + 1, k # m, NEW p \in Int,
             In(p, b[k]), In(p, b[m])
      PROVE  FALSE
  <2>1. ASSUME NEW i \in 1 .. n - 1, In(p, b[i]) PROVE ~(lo <= p /\ p <= hi)
    BY <1>4, <1>5, <1>8, <2>1 DEF PartsOpen
  <2>2. \A i \in {n, n + 1} : In(p, b[i]) => lo <= p /\ p <= hi
    BY <1>6 DEF Halves
  <2>3. ~(In(p, b[n]) /\ In(p, b[n + 1]))
    BY <1>6 DEF Halves
  <2>4. CASE k \in 1 .. n - 1 /\ m \in 1 .. n - 1
    BY <1>4, <1>8, <1>10, <2>4 DEF PartsOpen
  <2>5. CASE k \in 1 .. n - 1 /\ m \in {n, n + 1}
    BY <1>10, <2>1, <2>2, <2>5
  <2>6. CASE k \in {n, n + 1} /\ m \in 1 .. n - 1
    BY <1>10, <2>1, <2>2, <2>6
  <2>7. CASE k \in {n, n + 1} /\ m \in {n, n + 1}
    <3>1. (k = n /\ m = n + 1) \/ (k = n + 1 /\ m = n)
      BY <1>10, <2>7
    <3> QED BY <1>10, <2>3, <3>1
  <2> QED BY <1>7, <2>4, <2>5, <2>6, <2>7
<1>11. ASSUME NEW p \in Int, NEW q \in Int, lo0 <= p, p < q, q <= hi0
      PROVE  \/ AddrAt(e, p) <= AddrAt(e, q)
             \/ \E k \in 1 .. n + 1 : In(p, b[k]) /\ In(q, b[k])
  <2>1. \A x, y \in Int : lo0 <= x /\ x < y /\ y <= hi0 =>
          AddrAt(d, x) <= AddrAt(d, y) \/ \E k \in 1 .. n : In(x, c[k]) /\ In(y, c[k])
    BY <1>4 DEF PartsOpen
  <2>2. \A x \in Int : lo <= x /\ x <= hi => \A k \in 1 .. n : In(x, c[k]) => k = n
    BY <1>4, <1>5, <1>8 DEF PartsOpen
  <2>3. \A x \in Int : lo0 <= x /\ x <= hi0 /\ (x < lo \/ hi < x) => AddrAt(e, x) = AddrAt(d, x)
    BY <1>2 DEF Within
  <2>4. \A x \in Int : lo <= x /\ x <= hi =>
          \E y \in Int : lo <= y /\ y <= hi /\ AddrAt(e, x) = AddrAt(d, y)
    BY <1>2 DEF Within
  <2>5. CASE lo <= p /\ q <= hi
    <3>1. CASE q <= at \/ at < p
      <4>1. (In(p, b[n]) /\ In(q, b[n])) \/ (In(p, b[n + 1]) /\ In(q, b[n + 1]))
        BY <1>6, <1>11, <2>5, <3>1 DEF Halves
      <4>2. n \in 1 .. n + 1 /\ n + 1 \in 1 .. n + 1
        OBVIOUS
      <4> QED BY <4>1, <4>2
    <3>2. CASE p <= at /\ at < q
      BY <1>3, <2>5, <3>2
    <3>3. (q <= at \/ at < p) \/ (p <= at /\ at < q)
      OBVIOUS
    <3> QED BY <3>1, <3>2, <3>3
  <2>6. CASE (p < lo \/ hi < p) /\ (q < lo \/ hi < q)
    <3>1. AddrAt(e, p) = AddrAt(d, p) /\ AddrAt(e, q) = AddrAt(d, q)
      <4>1. p <= hi0 /\ lo0 <= q
        BY <1>11
      <4> QED BY <1>11, <2>3, <2>6, <4>1
    <3>2. ASSUME NEW k \in 1 .. n, In(p, c[k]), In(q, c[k])
          PROVE  \E m \in 1 .. n + 1 : In(p, b[m]) /\ In(q, b[m])
      <4>1. k # n
        BY <1>5, <2>6, <3>2
      <4>2. k \in 1 .. n - 1
        BY <4>1
      <4>3. k \in 1 .. n + 1 /\ b[k] = c[k]
        BY <1>4, <1>8, <4>2
      <4> QED BY <3>2, <4>3
    <3> QED BY <1>11, <2>1, <3>1, <3>2
  <2>7. CASE lo <= p /\ p <= hi /\ hi < q
    <3>1. PICK x \in Int : lo <= x /\ x <= hi /\ AddrAt(e, p) = AddrAt(d, x)
      BY <2>4, <2>7
    <3>2. lo0 <= x /\ x < q /\ lo0 <= q
      BY <1>1, <1>11, <2>7, <3>1
    <3>3. AddrAt(e, q) = AddrAt(d, q)
      BY <1>11, <2>3, <2>7, <3>2
    <3>4. \A k \in 1 .. n : ~(In(x, c[k]) /\ In(q, c[k]))
      <4>1. ~In(q, c[n])
        BY <1>5, <2>7
      <4> QED BY <2>2, <3>1, <4>1
    <3> QED BY <1>11, <2>1, <3>1, <3>2, <3>3, <3>4
  <2>8. CASE p < lo /\ lo <= q /\ q <= hi
    <3>1. PICK x \in Int : lo <= x /\ x <= hi /\ AddrAt(e, q) = AddrAt(d, x)
      BY <2>4, <2>8
    <3>2. p < x /\ x <= hi0 /\ p <= hi0
      BY <1>1, <1>11, <2>8, <3>1
    <3>3. AddrAt(e, p) = AddrAt(d, p)
      BY <1>11, <2>3, <2>8, <3>2
    <3>4. \A k \in 1 .. n : ~(In(p, c[k]) /\ In(x, c[k]))
      <4>1. ~In(p, c[n])
        BY <1>5, <2>8
      <4> QED BY <2>2, <3>1, <4>1
    <3> QED BY <1>11, <2>1, <3>1, <3>2, <3>3, <3>4
  <2> QED BY <1>11, <2>5, <2>6, <2>7, <2>8
<1>12. Len(b) = n + 1
  BY <1>4
<1>13. \A k \in 1 .. Len(b) : lo0 <= b[k][1] /\ b[k][2] <= hi0
  BY <1>9, <1>12
<1>14. \A k, m \in 1 .. Len(b) : k # m => \A p \in Int : ~(In(p, b[k]) /\ In(p, b[m]))
  BY <1>10, <1>12
<1>15. \A p, q \in Int : lo0 <= p /\ p < q /\ q <= hi0 =>
         AddrAt(e, p) <= AddrAt(e, q) \/ \E k \in 1 .. Len(b) : In(p, b[k]) /\ In(q, b[k])
  BY <1>11, <1>12
<1> QED BY <1>13, <1>14, <1>15 DEF PartsOpen

LEMMA SplitParts ==
  ASSUME NEW d \in Ring, NEW lo0 \in Int, NEW hi0 \in Int, hi0 - lo0 < Sz,
         NEW c, PartsOpen(d, lo0, hi0, c), c # << >>,
         NEW lo \in Int, NEW hi \in Int, c[Len(c)] = <<lo, hi>>, lo < hi,
         NEW e, NEW at, PartitionPgs(d, lo, hi) = [data |-> e, at |-> at]
  PROVE  PartsOpen(e, lo0, hi0, Append([c EXCEPT ![Len(c)] = Kept(lo, hi, at)], Recursed(lo, hi, at)))
<1>2. c \in Seq(Int \X Int) /\ lo0 <= lo /\ hi <= hi0 /\ hi - lo < Sz
  <2>1. c \in Seq(Int \X Int)
    BY DEF PartsOpen
  <2>2. Len(c) \in 1 .. Len(c)
    BY <2>1
  <2>3. lo0 <= c[Len(c)][1] /\ c[Len(c)][2] <= hi0
    BY <2>2 DEF PartsOpen
  <2>4. Sz \in Int
    BY SizeFact
  <2>5. lo0 <= lo /\ hi <= hi0
    BY <2>3
  <2>6. ASSUME NEW x \in Int, NEW y \in Int, lo0 <= x, y <= hi0 PROVE y - x < Sz
    BY <2>4, <2>6
  <2> QED BY <2>1, <2>5, <2>6
<1>3. e \in Within(d, lo0, hi0, lo, hi) /\ at \in Int /\ lo <= at /\ at < hi
  <2>1. PICK R : R = Within(d, lo0, hi0, lo, hi) /\ d \in R /\ Closed(R, lo, hi)
    BY <1>2, WithinClosed
  <2> QED BY <2>1, PartitionSplits
<1>4. \A p, q \in Int : lo <= p /\ p <= at /\ at < q /\ q <= hi => AddrAt(e, p) <= AddrAt(e, q)
  <2>1. PICK part : part = PartitionPgs(d, lo, hi) /\ part.data = e /\ part.at = at
    OBVIOUS
  <2>2. LET q == PartitionPgs(d, lo, hi)
        IN  \A x, y \in Int : lo <= x /\ x <= q.at /\ q.at < y /\ y <= hi =>
                                AddrAt(q.data, x) <= AddrAt(q.data, y)
    BY <1>2, PartitionOrders
  <2> QED BY <2>1, <2>2
<1>5. PICK kept, called : /\ kept = Kept(lo, hi, at) /\ called = Recursed(lo, hi, at)
                          /\ Halves(lo, hi, at, kept, called)
  BY <1>3, PartsAreHalves
<1>6. PICK n, b : /\ n = Len(c) /\ b = Append([c EXCEPT ![Len(c)] = kept], called)
                  /\ n \in Nat \ {0} /\ b \in Seq(Int \X Int) /\ Len(b) = n + 1
                  /\ b[n] = kept /\ b[n + 1] = called
                  /\ \A k \in 1 .. n - 1 : b[k] = c[k]
  <2>1. PICK S : S = Int \X Int
    OBVIOUS
  <2>2. c \in Seq(S) /\ kept \in S /\ called \in S
    BY <1>2, <1>5, <2>1 DEF Halves
  <2>3. LET b == Append([c EXCEPT ![Len(c)] = kept], called)
        IN  /\ Len(c) \in Nat \ {0} /\ b \in Seq(S) /\ Len(b) = Len(c) + 1
            /\ b[Len(c)] = kept /\ b[Len(c) + 1] = called
            /\ \A k \in 1 .. Len(c) - 1 : b[k] = c[k]
    BY <2>2, Pushed
  <2> QED BY <2>1, <2>3
<1>7. \A p \in Int : In(p, c[n]) <=> lo <= p /\ p <= hi
  BY <1>6 DEF In
<1>8. Splits(d, e, lo0, hi0, c, b, n, lo, hi, at)
  BY <1>2, <1>3, <1>4, <1>5, <1>6, <1>7 DEF Splits
<1>9. PartsOpen(e, lo0, hi0, b)
  <2>1. at \in Int /\ n \in Nat \ {0} /\ b \in Seq(Int \X Int)
    BY <1>3, <1>6
  <2> QED BY <1>8, <2>1, SplitOpen
<1> QED BY <1>5, <1>6, <1>9

(* The function that quicksort_pgs computes for windows of at most n + 1   *)
(* positions, one step of it.                                              *)
SortFn(n) == CHOOSE f : f = [s \in Ring \X Windows(n) |-> SortBody(f, s)]

LEMMA SortUnfolds ==
  ASSUME NEW n \in Nat, NEW d \in Ring, NEW lo \in Int, NEW hi \in Int, hi - lo <= n
  PROVE  SortFn(n)[<<d, <<lo, hi>>>>] = SortBody(SortFn(n), <<d, <<lo, hi>>>>)
<1>1. PICK f : f = SortFn(n)
  OBVIOUS
<1>2. f = [s \in Ring \X Windows(n) |-> SortBody(f, s)]
  BY <1>1, SortExists DEF SortFn
<1>3. <<d, <<lo, hi>>>> \in Ring \X Windows(n)
  BY DEF Windows
<1>4. f[<<d, <<lo, hi>>>>] = SortBody(f, <<d, <<lo, hi>>>>)
  BY <1>2, <1>3
<1> QED BY <1>1, <1>4

LEMMA SortIs ==
  ASSUME NEW lo \in Int, NEW hi \in Int, lo <= hi, NEW d \in Ring
  PROVE  QuicksortPgs(d, lo, hi) = SortFn(hi - lo)[<<d, <<lo, hi>>>>]
BY DEF QuicksortPgs, SortFn, SortBody, Windows

(* What the open calls still have to do to ring d makes it ring done: the  *)
(* last of them works on d, each other one on what the one behind it left. *)
Computes(d, c, f, done) ==
  \E r : /\ r[Len(c)] = d /\ r[0] = done
         /\ \A k \in 1 .. Len(c) : r[k - 1] = f[<<r[k], c[k]>>]

LEMMA TurnComputes ==
  ASSUME NEW c, NEW n \in Nat \ {0}, Len(c) = n, NEW b, Len(b) = n + 1,
         \A k \in 1 .. n - 1 : b[k] = c[k],
         NEW f, NEW d, NEW e, f[<<d, c[n]>>] = f[<<f[<<e, b[n + 1]>>], b[n]>>],
         NEW done, Computes(d, c, f, done)
  PROVE  Computes(e, b, f, done)
<1>1. PICK r : /\ r[n] = d /\ r[0] = done
               /\ \A k \in 1 .. n : r[k - 1] = f[<<r[k], c[k]>>]
  BY DEF Computes
<1>2. PICK g : g = f[<<e, b[n + 1]>>]
  OBVIOUS
<1> DEFINE q == [k \in 0 .. n + 1 |-> IF k = n + 1 THEN e ELSE IF k = n THEN g ELSE r[k]]
<1>3. q[n + 1] = e /\ q[n] = g /\ \A k \in 0 .. n - 1 : q[k] = r[k]
  OBVIOUS
<1> HIDE DEF q
<1>4. ASSUME NEW k \in 1 .. n + 1 PROVE q[k - 1] = f[<<q[k], b[k]>>]
  <2>1. CASE k = n + 1
    BY <1>2, <1>3, <2>1
  <2>2. CASE k = n
    <3>1. q[n - 1] = r[n - 1] /\ r[n - 1] = f[<<d, c[n]>>]
      <4>1. n \in 1 .. n /\ n - 1 \in 0 .. n - 1
        OBVIOUS
      <4> QED BY <1>1, <1>3, <4>1
    <3>2. f[<<d, c[n]>>] = f[<<g, b[n]>>]
      BY <1>2
    <3> QED BY <1>3, <2>2, <3>1, <3>2
  <2>3. CASE k \in 1 .. n - 1
    <3>1. k \in 1 .. n /\ k \in 0 .. n - 1 /\ k - 1 \in 0 .. n - 1
      BY <2>3
    <3> QED BY <1>1, <1>3, <2>3, <3>1
  <2>4. k = n + 1 \/ k = n \/ k \in 1 .. n - 1
    BY UpToNext
  <2> QED BY <2>1, <2>2, <2>3, <2>4
<1>5. q[0] = done
  BY <1>1, <1>3
<1>6. \A k \in 1 .. Len(b) : q[k - 1] = f[<<q[k], b[k]>>]
  BY <1>4
<1> QED BY <1>3, <1>5, <1>6 DEF Computes

LEMMA ReturnComputes ==
  ASSUME NEW c, NEW n \in Nat \ {0}, Len(c) = n, NEW b, Len(b) = n - 1,
         \A k \in 1 .. n - 1 : b[k] = c[k],
         NEW f, NEW d, f[<<d, c[n]>>] = d, NEW done, Computes(d, c, f, done)
  PROVE  Computes(d, b, f, done)
<1>1. PICK r : /\ r[n] = d /\ r[0] = done
               /\ \A k \in 1 .. n : r[k - 1] = f[<<r[k], c[k]>>]
  BY DEF Computes
<1>2. r[n - 1] = d
  <2>1. n \in 1 .. n
    OBVIOUS
  <2> QED BY <1>1, <2>1
<1>3. \A k \in 1 .. n - 1 : r[k - 1] = f[<<r[k], b[k]>>]
  <2>1. \A k \in 1 .. n - 1 : k \in 1 .. n
    OBVIOUS
  <2> QED BY <1>1, <2>1
<1> QED BY <1>1, <1>2, <1>3 DEF Computes

(* QuicksortStack's operators are this module's.                           *)
LEMMA SameAddr == \A d, i : Sort!AddrAt(d, i) = AddrAt(d, i)
BY DEF Sort!AddrAt, AddrAt, Sort!GetAddr, GetAddr

LEMMA SameParts ==
  \A lo, hi, at : Sort!Kept(lo, hi, at) = Kept(lo, hi, at) /\ Sort!Recursed(lo, hi, at) = Recursed(lo, hi, at)
BY DEF Sort!Kept, Kept, Sort!Recursed, Recursed

LEMMA SamePartition == \A d, lo, hi : Sort!PartitionPgs(d, lo, hi) = PartitionPgs(d, lo, hi)
BY DEF Sort!PartitionPgs, PartitionPgs, Sort!AddrAt, AddrAt, Sort!GetAddr, GetAddr, Sort!Loop, Loop,
       Sort!PartitionTurn, PartitionTurn, Sort!Down, Down, Sort!Up, Up, Sort!Swap, Swap,
       Sort!Max, Max, Sort!Min, Min

LEMMA SameCount == \A S : Sort!Cardinality(S) = Cardinality(S)
BY DEF Sort!Cardinality, Cardinality

LEMMA SameSort == \A d, lo, hi : Sort!QuicksortPgs(d, lo, hi) = QuicksortPgs(d, lo, hi)
BY ZenonT(60) DEF Sort!QuicksortPgs, QuicksortPgs, Sort!Recursed, Recursed, Sort!Kept, Kept, Sort!Ring, Ring,
       Sort!PartitionPgs, PartitionPgs, Sort!AddrAt, AddrAt, Sort!GetAddr, GetAddr, Sort!Loop, Loop,
       Sort!PartitionTurn, PartitionTurn, Sort!Down, Down, Sort!Up, Up, Sort!Swap, Swap,
       Sort!Max, Max, Sort!Min, Min

(* The window is in the ring; the blocks in it are the ones it was handed  *)
(* in with; what is out of order lies within an open call; and the open    *)
(* calls have what is left to do of what QuicksortPgs does.                *)
SortInv ==
  /\ input \in Ring /\ window \in Int \X Int
  /\ window[1] <= window[2] /\ window[2] - window[1] < Sz
  /\ data \in Shuffles(input, SlotsOf(window[1], window[2]))
  /\ PartsOpen(data, window[1], window[2], calls)
  /\ Computes(data, calls, SortFn(window[2] - window[1]),
              QuicksortPgs(input, window[1], window[2]))

LEMMA InitSort ==
  ASSUME Sort!Init
  PROVE  SortInv
<1>1. input \in Ring /\ data = input
  BY SortAssumption DEF Sort!WindowFits, Sort!Init, Ring
<1>2. PICK lo \in Int, hi \in Int : window = <<lo, hi>> /\ lo <= hi /\ hi - lo < Sz
  <2>1. PICK lo \in First : window = <<lo, lo + Length - 1>>
    BY DEF Sort!Init
  <2>2. PICK hi \in Int : hi = lo + Length - 1 /\ lo \in Int /\ lo <= hi /\ hi - lo < Sz
    BY SizeFact, SortAssumption DEF Sort!WindowFits
  <2> QED BY <2>1, <2>2
<1>3. calls = <<<<lo, hi>>>> /\ window[1] = lo /\ window[2] = hi
  BY <1>2 DEF Sort!Init
<1>4. data \in Shuffles(input, SlotsOf(lo, hi))
  BY <1>1 DEF Shuffles
<1>5. PartsOpen(data, lo, hi, calls)
  BY <1>3 DEF PartsOpen, In
<1>6. Computes(data, calls, SortFn(hi - lo), QuicksortPgs(input, lo, hi))
  <2>1. PICK f, q : f = SortFn(hi - lo) /\ q = QuicksortPgs(input, lo, hi)
    OBVIOUS
  <2>2. q = f[<<data, <<lo, hi>>>>]
    BY <1>1, <1>2, <2>1, SortIs
  <2> DEFINE r == [k \in 0 .. 1 |-> IF k = 0 THEN q ELSE data]
  <2>3. r[1] = data /\ r[0] = q
    OBVIOUS
  <2> HIDE DEF r
  <2>4. Len(calls) = 1 /\ calls[1] = <<lo, hi>>
    BY <1>3
  <2>5. \A k \in 1 .. 1 : r[k - 1] = f[<<r[k], calls[k]>>]
    BY <2>2, <2>3, <2>4
  <2>6. Computes(data, calls, f, q)
    BY <2>3, <2>4, <2>5 DEF Computes
  <2> QED BY <2>1, <2>6
<1> QED BY <1>1, <1>2, <1>3, <1>4, <1>5, <1>6 DEF SortInv

(* The call that runs, and its part of the window.                         *)
LEMMA RunningCall ==
  ASSUME SortInv, calls # << >>
  PROVE  /\ calls \in Seq(Int \X Int) /\ Sort!lo \in Int /\ Sort!hi \in Int
         /\ calls[Len(calls)] = <<Sort!lo, Sort!hi>>
         /\ window[1] <= Sort!lo /\ Sort!hi <= window[2]
<1>1. calls \in Seq(Int \X Int)
  BY DEF SortInv, PartsOpen
<1>2. Len(calls) \in 1 .. Len(calls) /\ calls[Len(calls)] \in Int \X Int
  BY <1>1
<1>3. window[1] <= Sort!lo /\ Sort!hi <= window[2]
  BY <1>2 DEF SortInv, PartsOpen, Sort!lo, Sort!hi
<1> QED BY <1>1, <1>2, <1>3 DEF Sort!lo, Sort!hi

LEMMA SortTurn ==
  ASSUME SortInv, Sort!Turn
  PROVE  SortInv'
<1>1. PICK lo \in Int, hi \in Int, lo0 \in Int, hi0 \in Int :
        /\ lo = Sort!lo /\ hi = Sort!hi /\ lo < hi
        /\ lo0 = window[1] /\ hi0 = window[2] /\ lo0 <= hi0 /\ hi0 - lo0 < Sz
        /\ lo0 <= lo /\ hi <= hi0 /\ calls[Len(calls)] = <<lo, hi>>
  BY RunningCall DEF SortInv, Sort!Turn
<1>2. input \in Ring /\ data \in Ring /\ window' = window /\ input' = input /\ calls # << >>
  BY DEF SortInv, Shuffles, Sort!Turn
<1>3. PICK at, e : PartitionPgs(data, lo, hi) = [data |-> e, at |-> at]
  <2>1. PICK st : PartitionPgs(data, lo, hi) = [data |-> st.data, at |-> st.j]
    BY DEF PartitionPgs
  <2> QED BY <2>1
<1>4. /\ data' = e
      /\ calls' = Append([calls EXCEPT ![Len(calls)] = Kept(lo, hi, at)], Recursed(lo, hi, at))
  <2>1. PICK part : part = PartitionPgs(data, lo, hi) /\ part.data = e /\ part.at = at
    BY <1>3
  <2> QED BY <1>1, <2>1, SamePartition, SameParts DEF Sort!Turn
<1>5. e \in Shuffles(input, SlotsOf(lo0, hi0)) /\ at \in Int /\ lo <= at /\ at < hi
  <2>1. PICK R : R = Shuffles(input, SlotsOf(lo0, hi0))
    OBVIOUS
  <2>2. Closed(R, lo0, hi0) /\ data \in R
    BY <1>1, <1>2, <2>1, ShufflesClosed DEF SortInv
  <2>3. Closed(R, lo, hi)
    BY <1>1, <2>2, ClosedWithin
  <2>4. /\ PartitionPgs(data, lo, hi).data \in R /\ PartitionPgs(data, lo, hi).at \in Int
        /\ lo <= PartitionPgs(data, lo, hi).at /\ PartitionPgs(data, lo, hi).at < hi
    BY <1>1, <2>2, <2>3, PartitionSplits
  <2> QED BY <1>3, <2>1, <2>4
<1>6. PartsOpen(e, lo0, hi0, calls')
  <2>1. PartsOpen(data, lo0, hi0, calls)
    BY <1>1 DEF SortInv
  <2> QED BY <1>1, <1>2, <1>3, <1>4, <2>1, SplitParts
<1>7. PICK f, done : /\ f = SortFn(hi0 - lo0) /\ done = QuicksortPgs(input, lo0, hi0)
                     /\ Computes(data, calls, f, done)
  BY <1>1 DEF SortInv
<1>8. Computes(e, calls', f, done)
  <2>1. PICK kept, called : kept = Kept(lo, hi, at) /\ called = Recursed(lo, hi, at)
    OBVIOUS
  <2>2. kept \in Int \X Int /\ called \in Int \X Int
    BY <1>5, <2>1 DEF Kept, Recursed
  <2>3. PICK n, b : /\ n = Len(calls) /\ b = calls' /\ n \in Nat \ {0} /\ Len(b) = n + 1
                    /\ b[n] = kept /\ b[n + 1] = called
                    /\ \A k \in 1 .. n - 1 : b[k] = calls[k]
    <3>1. PICK S : S = Int \X Int
      OBVIOUS
    <3>2. calls \in Seq(S) /\ kept \in S /\ called \in S
      BY <1>2, <2>2, <3>1, RunningCall
    <3>3. LET b == Append([calls EXCEPT ![Len(calls)] = kept], called)
          IN  /\ Len(calls) \in Nat \ {0} /\ b \in Seq(S) /\ Len(b) = Len(calls) + 1
              /\ b[Len(calls)] = kept /\ b[Len(calls) + 1] = called
              /\ \A k \in 1 .. Len(calls) - 1 : b[k] = calls[k]
      BY <1>2, <3>2, Pushed
    <3> QED BY <1>4, <2>1, <3>3
  <2>4. f[<<data, <<lo, hi>>>>] = f[<<f[<<e, called>>], kept>>]
    <3>1. hi0 - lo0 \in Nat /\ hi - lo <= hi0 - lo0
      BY <1>1
    <3>2. f[<<data, <<lo, hi>>>>] = SortBody(f, <<data, <<lo, hi>>>>)
      BY <1>2, <1>7, <3>1, SortUnfolds
    <3>3. SortBody(f, <<data, <<lo, hi>>>>) = f[<<f[<<e, Recursed(lo, hi, at)>>], Kept(lo, hi, at)>>]
      <4>1. PICK part : part = PartitionPgs(data, lo, hi) /\ part.data = e /\ part.at = at
        BY <1>3
      <4> QED BY <1>1, <4>1 DEF SortBody
    <3> QED BY <2>1, <3>2, <3>3
  <2>5. f[<<data, calls[n]>>] = f[<<f[<<e, b[n + 1]>>], b[n]>>]
    BY <1>1, <2>3, <2>4
  <2>6. Computes(e, b, f, done)
    BY <1>7, <2>3, <2>5, TurnComputes
  <2> QED BY <2>3, <2>6
<1> QED BY <1>1, <1>2, <1>4, <1>5, <1>6, <1>7, <1>8 DEF SortInv

LEMMA SortReturn ==
  ASSUME SortInv, Sort!Return
  PROVE  SortInv'
<1>1. PICK lo \in Int, hi \in Int, lo0 \in Int, hi0 \in Int :
        /\ hi <= lo /\ calls[Len(calls)] = <<lo, hi>> /\ lo0 <= lo /\ hi <= hi0
        /\ lo0 = window[1] /\ hi0 = window[2] /\ lo0 <= hi0
  BY RunningCall DEF SortInv, Sort!Return
<1>2. /\ data \in Ring /\ calls # << >> /\ window' = window /\ input' = input /\ data' = data
      /\ calls' = SubSeq(calls, 1, Len(calls) - 1)
  BY DEF SortInv, Shuffles, Sort!Return
<1>3. PartsOpen(data, lo0, hi0, calls')
  <2>1. PartsOpen(data, lo0, hi0, calls) /\ calls[Len(calls)][2] <= calls[Len(calls)][1]
    BY <1>1 DEF SortInv
  <2> QED BY <1>2, <2>1, ReturnParts
<1>4. PICK f, done : /\ f = SortFn(hi0 - lo0) /\ done = QuicksortPgs(input, lo0, hi0)
                     /\ Computes(data, calls, f, done)
  BY <1>1 DEF SortInv
<1>5. Computes(data, calls', f, done)
  <2>1. PICK n, b : /\ n = Len(calls) /\ b = calls' /\ n \in Nat \ {0} /\ Len(b) = n - 1
                    /\ \A k \in 1 .. n - 1 : b[k] = calls[k]
    <3>1. PICK S : S = Int \X Int
      OBVIOUS
    <3>2. calls \in Seq(S)
      BY <1>2, <3>1, RunningCall
    <3>3. PICK n \in Nat \ {0}, b \in Seq(S) :
            /\ n = Len(calls) /\ b = SubSeq(calls, 1, Len(calls) - 1) /\ Len(b) = n - 1
            /\ \A k \in 1 .. n - 1 : b[k] = calls[k]
      BY <1>2, <3>2, Popped
    <3> QED BY <1>2, <3>3
  <2>2. f[<<data, calls[n]>>] = data
    <3>1. hi0 - lo0 \in Nat /\ hi - lo <= hi0 - lo0
      BY <1>1
    <3>2. f[<<data, <<lo, hi>>>>] = SortBody(f, <<data, <<lo, hi>>>>)
      BY <1>2, <1>4, <3>1, SortUnfolds
    <3> QED BY <1>1, <2>1, <3>2 DEF SortBody
  <2>3. Computes(data, b, f, done)
    BY <1>4, <2>1, <2>2, ReturnComputes
  <2> QED BY <2>1, <2>3
<1> QED BY <1>1, <1>2, <1>3, <1>4, <1>5 DEF SortInv

(* quicksort_pgs sorts any window of any ring in place: at every step each *)
(* word occurs as often as it did and nothing outside the window has       *)
(* changed, and at the end the window is in address order and the ring is  *)
(* what the function QuicksortPgs, with which the allocator is modelled,   *)
(* makes of it.                                                            *)
THEOREM RingSorted == Sort!Spec => []SortsInPlace
<1>1. Sort!Init => SortInv
  BY InitSort
<1>2. SortInv /\ [Sort!Next]_(Sort!vars) => SortInv'
  <2> SUFFICES ASSUME SortInv, [Sort!Next]_(Sort!vars) PROVE SortInv'
    OBVIOUS
  <2>1. CASE Sort!Turn
    BY <2>1, SortTurn
  <2>2. CASE Sort!Return
    BY <2>2, SortReturn
  <2>3. CASE UNCHANGED Sort!vars
    BY <2>3 DEF SortInv, Sort!vars
  <2> QED BY <2>1, <2>2, <2>3 DEF Sort!Next
<1>3. SortInv => SortsInPlace
  <2> SUFFICES ASSUME SortInv PROVE Sort!Permuted /\ Sort!Sorted
    BY DEF SortsInPlace, Sort!SortsInPlace
  <2>1. PICK lo \in Int, hi \in Int : lo = window[1] /\ hi = window[2]
    BY DEF SortInv
  <2>2. {i % Sz : i \in Sort!Span(window)} = SlotsOf(lo, hi)
    BY <2>1 DEF Sort!Span, SlotsOf
  <2>3. Sort!Permuted
    BY <2>1, <2>2, SameCount, SortAssumption DEF SortInv, Shuffles, Sort!Permuted, Sort!WindowFits
  <2>4. ASSUME calls = << >>, NEW i \in Sort!Span(window), NEW j \in Sort!Span(window), i < j
        PROVE  Sort!AddrAt(data, i) <= Sort!AddrAt(data, j)
    <3>1. i \in Int /\ j \in Int /\ lo <= i /\ j <= hi /\ Len(calls) = 0
      BY <2>1, <2>4 DEF Sort!Span
    <3>2. AddrAt(data, i) <= AddrAt(data, j)
      BY <2>1, <2>4, <3>1 DEF SortInv, PartsOpen
    <3> QED BY <3>2, SameAddr
  <2>5. ASSUME calls = << >> PROVE data = Sort!QuicksortPgs(input, window[1], window[2])
    <3>1. Len(calls) = 0
      BY <2>5
    <3> QED BY <3>1, SameSort DEF SortInv, Computes
  <2> QED BY <2>3, <2>4, <2>5 DEF Sort!Sorted
<1> QED BY <1>1, <1>2, <1>3, PTL DEF Sort!Spec

=============================================================================

--------------------------- MODULE VirtMem_proofs ---------------------------
(***************************************************************************)
(* Whatever the sizes of tables and pages, the requests and the number of  *)
(* cores and address spaces: no table serves two owners, the kernel half   *)
(* does not differ between cores, and a space out of use keeps its         *)
(* mappings.  The argument is VmInv of VirtMem: every lower table has a    *)
(* level and an owner, which no step changes, and what a table refers to   *)
(* is of the next level and of the same owner.                             *)
(***************************************************************************)
EXTENDS VirtMem, FiniteSetTheorems, WellFoundedInduction, TLAPS

-----------------------------------------------------------------------------
(* Numbers.                                                                *)

(* A set of numbers that is not empty has a least member.                  *)
LEMMA LeastMember ==
  ASSUME NEW S, S \subseteq Nat, S # {}
  PROVE  \E x \in S : \A y \in S : x <= y
<1> DEFINE Below(x) == {y \in S : y <= x}
           Belows   == {U \in SUBSET S : \E x \in S : U = Below(x)}
<1>1. Belows \subseteq FiniteSubsetsOf(S)
  <2> SUFFICES ASSUME NEW x \in S PROVE IsFiniteSet(Below(x))
    BY DEF FiniteSubsetsOf
  <2>1. x \in Nat /\ Below(x) \in SUBSET Nat /\ \A y \in Below(x) : y <= x
    OBVIOUS
  <2> HIDE DEF Below
  <2> QED BY <2>1, FS_BoundedSetOfNaturals
<1>2. Belows # {}
  OBVIOUS
<1>3. IsWellFoundedOn(StrictSubsetOrdering(S), FiniteSubsetsOf(S))
  BY FS_StrictSubsetOrderingWellFounded
<1>4. PICK U \in Belows : \A V \in Belows : ~(<<V, U>> \in StrictSubsetOrdering(S))
  <2> HIDE DEF Belows
  <2> QED BY <1>1, <1>2, <1>3, WFMin
<1>5. PICK x \in S : U = Below(x)
  OBVIOUS
<1>6. \A y \in S : x <= y
  <2> SUFFICES ASSUME NEW y \in S, y < x PROVE FALSE
    OBVIOUS
  <2>1. Below(y) \in Belows /\ Below(y) \subseteq U /\ Below(y) # U
    <3>1. x \in U /\ x \notin Below(y)
      BY <1>5
    <3>2. \A z \in Below(y) : z <= x
      OBVIOUS
    <3> QED BY <1>5, <3>1, <3>2
  <2> QED BY <1>4, <2>1 DEF StrictSubsetOrdering
<1> QED BY <1>6

(* Induction, for a set of numbers.                                        *)
LEMMA SetInduction ==
  ASSUME NEW S, 0 \in S, \A k \in Nat : k \in S => k + 1 \in S
  PROVE  Nat \subseteq S
<1> SUFFICES ASSUME Nat \ S # {} PROVE FALSE
  OBVIOUS
<1>1. PICK least \in Nat \ S : \A j \in Nat \ S : least <= j
  BY LeastMember
<1>2. least # 0 /\ least - 1 \in Nat
  BY <1>1
<1>3. least - 1 \in S
  BY <1>1, <1>2
<1>4. (least - 1) + 1 = least
  BY <1>1
<1> QED BY <1>1, <1>2, <1>3, <1>4

-----------------------------------------------------------------------------
(* Sizes.                                                                  *)

LEMMA ProductPositive ==
  ASSUME NEW a \in Nat, NEW b \in Nat, a > 0, b > 0
  PROVE  a * b \in Nat /\ a * b > 0
OBVIOUS

LEMMA Halves ==
  /\ Entries \in Nat /\ Half \in Nat /\ Half > 0 /\ Entries = Half + Half
  /\ Top \subseteq 0 .. Entries - 1 /\ Bottom \subseteq 0 .. Entries - 1
  /\ Top \cap Bottom = {} /\ Top # {} /\ Bottom # {}
  /\ \A i \in 0 .. Entries - 1 : i \in Top \/ i \in Bottom
  /\ Depth \in Nat /\ Depth >= 2 /\ Levels = 1 .. Depth
<1>1. Half \in Nat /\ Half > 0 /\ Entries = Half + Half /\ Entries \in Nat
  BY LevelsAssumption DEF Half
<1>2. Depth \in Nat /\ Depth >= 2 /\ Levels = 1 .. Depth
  BY LevelsAssumption DEF Depth, Levels
<1> HIDE DEF Half
<1>3. PICK h \in Nat, n \in Nat : h = Half /\ n = Entries /\ h > 0 /\ n = h + h
  BY <1>1
<1>4. Top = h .. n - 1 /\ Bottom = 0 .. h - 1
  BY <1>3 DEF Top, Bottom
<1>5. h \in Top /\ 0 \in Bottom
  BY <1>3, <1>4
<1>6. Top \subseteq 0 .. n - 1 /\ Bottom \subseteq 0 .. n - 1 /\ Top \cap Bottom = {}
  BY <1>3, <1>4
<1>7. \A i \in 0 .. n - 1 : i \in Top \/ i \in Bottom
  BY <1>3, <1>4
<1> QED BY <1>1, <1>2, <1>3, <1>5, <1>6, <1>7

(* levels holds no 0.                                                      *)
LEMMA PageSizes ==
  /\ \A lv \in Levels : PageSize[lv] \in Nat /\ PageSize[lv] > 0
  /\ PageSize[Depth] = 1
<1> DEFINE S == {k \in Nat : k < Depth => PageSize[Depth - k] \in Nat /\ PageSize[Depth - k] > 0}
<1>1. 0 \in S
  BY LevelsAssumption, Halves
<1>2. ASSUME NEW k \in Nat, k \in S PROVE k + 1 \in S
  <2> SUFFICES ASSUME k + 1 < Depth
               PROVE  PageSize[Depth - (k + 1)] \in Nat /\ PageSize[Depth - (k + 1)] > 0
    OBVIOUS
  <2>1. PICK lv \in Int : lv = Depth - (k + 1) /\ lv \in 1 .. Depth - 1 /\ lv + 1 = Depth - k
    BY Halves
  <2>2. PageSize[lv] = Entries * PageSize[lv + 1]
    BY <2>1, LevelsAssumption
  <2>3. PageSize[lv + 1] \in Nat /\ PageSize[lv + 1] > 0
    BY <1>2, <2>1, Halves
  <2>4. PageSize[lv] \in Nat /\ PageSize[lv] > 0
    <3>1. Entries \in Nat /\ Entries > 0
      BY Halves
    <3> QED BY <2>2, <2>3, <3>1, ProductPositive
  <2> QED BY <2>1, <2>4
<1>3. Nat \subseteq S
  <2> HIDE DEF S
  <2> QED BY <1>1, <1>2, SetInduction
<1>4. ASSUME NEW lv \in Levels PROVE PageSize[lv] \in Nat /\ PageSize[lv] > 0
  <2>1. PICK k \in Nat : k = Depth - lv /\ k < Depth /\ Depth - k = lv
    BY Halves
  <2>2. k \in S
    BY <1>3
  <2> QED BY <2>1, <2>2
<1> QED BY <1>4, LevelsAssumption

LEMMA Indices ==
  ASSUME NEW virt \in Nat, NEW lv \in Levels
  PROVE  Index(virt, lv) \in 0 .. Entries - 1
<1>1. PICK p \in Nat : p = PageSize[lv] /\ p > 0
  BY PageSizes
<1>2. virt \div p \in Nat
  BY <1>1
<1>3. PICK n \in Nat : n = Entries /\ n > 0
  BY Halves
<1>4. (virt \div p) % n \in 0 .. n - 1
  BY <1>2, <1>3
<1> QED BY <1>1, <1>3, <1>4 DEF Index

LEMMA TablesBehind == TablesAt \in Nat /\ TablesAt > 0
<1>1. 1 \in Levels /\ 2 * Entries \in Nat /\ 2 * Entries > 0
  BY Halves
<1>2. PageSize[1] \in Nat /\ PageSize[1] > 0
  BY <1>1, PageSizes
<1> QED BY <1>1, <1>2, ProductPositive DEF TablesAt

(* What is left of a request is a request.                                 *)
LEMMA Advanced ==
  ASSUME NEW q \in Request, NEW lv \in 1 .. Depth - 1
  PROVE  Advance(q, Covered(q.virt, lv)) \in Request
<1>1. q.virt \in Nat /\ q.phys \in Nat /\ q.size \in 0 .. SizeLimit - 1
  BY DEF Request
<1>2. lv + 1 \in Levels
  BY Halves
<1>3. PICK i \in Nat : i = Index(q.virt, lv + 1) /\ Entries - i \in Nat /\ Entries - i > 0
  <2>1. PICK n \in Nat : n = Entries
    BY Halves
  <2>2. PICK j \in 0 .. n - 1 : j = Index(q.virt, lv + 1)
    BY <1>1, <1>2, <2>1, Indices
  <2>3. j \in Nat /\ n - j \in Nat /\ n - j > 0
    BY <2>1, <2>2
  <2> QED BY <2>1, <2>2, <2>3
<1>4. PICK done \in Nat : done = Covered(q.virt, lv)
  BY <1>2, <1>3, PageSizes, ProductPositive DEF Covered
<1>5. (q.size - done) % SizeLimit \in 0 .. SizeLimit - 1
  <2>1. PICK d \in Int : d = q.size - done
    BY <1>1, RequestsAssumption
  <2> QED BY <2>1, RequestsAssumption
<1>6. Advance(q, done) = [virt |-> q.virt + done, phys |-> q.phys + done,
                          size |-> (q.size - done) % SizeLimit]
  BY DEF Advance
<1>7. q.virt + done \in Nat /\ q.phys + done \in Nat
  BY <1>1
<1> QED BY <1>4, <1>5, <1>6, <1>7 DEF Request

-----------------------------------------------------------------------------
(* Worlds.                                                                 *)

LEMMA WorldParts ==
  ASSUME NEW w \in World
  PROVE  /\ w = [root |-> w.root, tables |-> w.tables]
         /\ w.root \in [DOMAIN w.root -> Entry] /\ DOMAIN w.root \in {Top, Bottom}
         /\ w.tables \in Seq(Table) /\ Len(w.tables) \in Nat
         /\ \A t \in 1 .. Len(w.tables) : w.tables[t] \in Table
<1>1. w.root \in [Top -> Entry] \cup [Bottom -> Entry] /\ w.tables \in Seq(Table)
  BY DEF World
<1>2. w = [root |-> w.root, tables |-> w.tables]
  BY DEF World
<1> QED BY <1>1, <1>2

LEMMA TabParts ==
  ASSUME NEW w \in World, NEW t \in 0 .. Len(w.tables)
  PROVE  /\ Tab(w, t) \in [DOMAIN Tab(w, t) -> Entry]
         /\ DOMAIN Tab(w, t) = IF t = 0 THEN DOMAIN w.root ELSE 0 .. Entries - 1
         /\ DOMAIN Tab(w, t) \subseteq 0 .. Entries - 1
<1>1. CASE t = 0
  BY <1>1, WorldParts, Halves DEF Tab
<1>2. CASE t # 0
  <2>1. w.tables[t] \in Table
    BY <1>2, WorldParts
  <2> QED BY <1>2, <2>1 DEF Tab, Table
<1> QED BY <1>1, <1>2

(* Writing one table leaves the others alone.                              *)
LEMMA PutParts ==
  ASSUME NEW w \in World, NEW t \in 0 .. Len(w.tables), NEW f \in [DOMAIN Tab(w, t) -> Entry]
  PROVE  /\ Put(w, t, f) \in World
         /\ Len(Put(w, t, f).tables) = Len(w.tables)
         /\ Tab(Put(w, t, f), t) = f
         /\ \A s \in 0 .. Len(w.tables) : s # t => Tab(Put(w, t, f), s) = Tab(w, s)
<1>1. CASE t = 0
  <2>1. Put(w, t, f) = [root |-> f, tables |-> w.tables]
    BY <1>1 DEF Put
  <2>2. f \in [Top -> Entry] \cup [Bottom -> Entry]
    BY <1>1, WorldParts DEF Tab
  <2>3. Put(w, t, f) \in World
    BY <2>1, <2>2, WorldParts DEF World
  <2> QED BY <1>1, <2>1, <2>3 DEF Tab
<1>2. CASE t # 0
  <2> DEFINE ts == [w.tables EXCEPT ![t] = f]
  <2>1. Put(w, t, f) = [root |-> w.root, tables |-> ts]
    BY <1>2 DEF Put
  <2>2. w.tables \in Seq(Table) /\ t \in 1 .. Len(w.tables) /\ f \in Table
    <3>1. f \in Table
      BY <1>2, TabParts DEF Table
    <3> QED BY <1>2, <3>1, WorldParts
  <2>3. /\ ts \in Seq(Table) /\ Len(ts) = Len(w.tables) /\ ts[t] = f
        /\ \A s \in 1 .. Len(w.tables) : s # t => ts[s] = w.tables[s]
    BY <2>2
  <2> HIDE DEF ts
  <2>4. Put(w, t, f) \in World
    BY <2>1, <2>3, WorldParts DEF World
  <2> QED BY <1>2, <2>1, <2>3, <2>4 DEF Tab
<1> QED BY <1>1, <1>2

LEMMA NoEntriesTable == NoEntries(0 .. Entries - 1) \in Table /\ Empty \in Entry
BY DEF NoEntries, Table, Empty, Entry

LEMMA TableEntries ==
  ASSUME NEW n \in Nat
  PROVE  /\ TableEntry(n) \in Entry /\ TableOf(TableEntry(n)) = n
         /\ TableEntry(n).present /\ ~TableEntry(n).large
         /\ n > 0 => TableEntry(n).addr # 0 /\ TableEntry(n).addr > TablesAt
BY TablesBehind DEF TableEntry, TableOf, Entry

LEMMA NewTableParts ==
  ASSUME NEW w \in World, NEW t \in 0 .. Len(w.tables), NEW i \in DOMAIN Tab(w, t)
  PROVE  /\ NewTable(w, t, i) \in World
         /\ Len(NewTable(w, t, i).tables) = Len(w.tables) + 1
         /\ Tab(NewTable(w, t, i), t) = [Tab(w, t) EXCEPT ![i] = TableEntry(Len(w.tables) + 1)]
         /\ \A s \in 0 .. Len(w.tables) : s # t => Tab(NewTable(w, t, i), s) = Tab(w, s)
         /\ Tab(NewTable(w, t, i), Len(w.tables) + 1) = NoEntries(0 .. Entries - 1)
<1>1. PICK n \in Nat : n = Len(w.tables)
  BY WorldParts
<1> DEFINE f == [Tab(w, t) EXCEPT ![i] = TableEntry(n + 1)]
           v == Put(w, t, f)
           empty == NoEntries(0 .. Entries - 1)
<1>2. f \in [DOMAIN Tab(w, t) -> Entry]
  <2>1. n + 1 \in Nat
    OBVIOUS
  <2>2. TableEntry(n + 1) \in Entry
    BY <2>1, TableEntries
  <2> QED BY <2>2, TabParts
<1> HIDE DEF f
<1>3. /\ v \in World /\ Len(v.tables) = n /\ Tab(v, t) = f
      /\ \A s \in 0 .. n : s # t => Tab(v, s) = Tab(w, s)
  BY <1>1, <1>2, PutParts
<1> HIDE DEF v
<1>4. NewTable(w, t, i) = [root |-> v.root, tables |-> Append(v.tables, empty)]
  BY <1>1 DEF NewTable, f, v
<1>5. v.root \in [Top -> Entry] \cup [Bottom -> Entry] /\ v.tables \in Seq(Table)
  BY <1>3 DEF World
<1>6. empty \in Table
  BY NoEntriesTable
<1> HIDE DEF empty
<1>7. /\ Append(v.tables, empty) \in Seq(Table) /\ Len(Append(v.tables, empty)) = n + 1
      /\ Append(v.tables, empty)[n + 1] = empty
      /\ \A s \in 1 .. n : Append(v.tables, empty)[s] = v.tables[s]
  BY <1>3, <1>5, <1>6
<1>8. NewTable(w, t, i) \in World
  BY <1>4, <1>5, <1>7 DEF World
<1>9. \A s \in 0 .. n : Tab(NewTable(w, t, i), s) = Tab(v, s)
  BY <1>4, <1>7 DEF Tab
<1>10. Tab(NewTable(w, t, i), n + 1) = empty
  BY <1>4, <1>7 DEF Tab
<1>11. Tab(NewTable(w, t, i), t) = f
  BY <1>1, <1>3, <1>9
<1>12. \A s \in 0 .. n : s # t => Tab(NewTable(w, t, i), s) = Tab(w, s)
  BY <1>3, <1>9
<1>13. Len(NewTable(w, t, i).tables) = n + 1
  BY <1>4, <1>7
<1> QED BY <1>1, <1>8, <1>10, <1>11, <1>12, <1>13 DEF f, empty

(* The table that MapPages leaves: entries it may have written, and the    *)
(* others as they were.                                                    *)
LEMMA PagesParts ==
  ASSUME NEW w \in World, NEW t \in 0 .. Len(w.tables), NEW i \in Nat, NEW q \in Request,
         NEW lv \in Levels
  PROVE  \E f \in [DOMAIN Tab(w, t) -> Entry] :
           /\ MapPages(w, t, i, q, lv).w = Put(w, t, f)
           /\ \A j \in DOMAIN Tab(w, t) :
                \/ f[j] = Tab(w, t)[j]
                \/ ~Tab(w, t)[j].present /\ \E a \in Nat : f[j] = LeafOf(a, lv)
<1> DEFINE f0   == Tab(w, t)
           n    == q.size \div PageSize[lv]
           last == i + n - 1
           used == {j \in i .. last : j \in DOMAIN f0 /\ f0[j].present}
           f    == [j \in DOMAIN f0 |->
                      IF j \in i .. last /\ \A k \in i .. j : k \notin used
                        THEN LeafOf(q.phys + (j - i) * PageSize[lv], lv) ELSE f0[j]]
<1>1. MapPages(w, t, i, q, lv).w = Put(w, t, f)
  BY DEF MapPages, Done
<1>2. f0 \in [DOMAIN f0 -> Entry] /\ DOMAIN f0 \subseteq 0 .. Entries - 1
  BY TabParts
<1>3. PICK p \in Nat : p = PageSize[lv]
  BY PageSizes
<1>4. q.phys \in Nat /\ q.size \in Nat
  BY RequestsAssumption DEF Request
<1>5. last \in Int
  BY <1>3, <1>4, PageSizes
<1>6. ASSUME NEW j \in DOMAIN f0
      PROVE  /\ f[j] \in Entry
             /\ \/ f[j] = f0[j]
                \/ ~f0[j].present /\ \E a \in Nat : f[j] = LeafOf(a, lv)
  <2> HIDE DEF n, f0
  <2>1. CASE j \in i .. last /\ \A k \in i .. j : k \notin used
    <3>1. j \in i .. j /\ j - i \in Nat
      BY <1>5, <2>1
    <3>2. ~f0[j].present
      BY <2>1, <3>1
    <3>3. PICK d \in Nat : d = j - i
      BY <3>1
    <3>4. q.phys + d * p \in Nat
      BY <1>4
    <3>5. f[j] = LeafOf(q.phys + d * p, lv)
      BY <1>3, <2>1, <3>3
    <3>6. LeafOf(q.phys + d * p, lv) \in Entry
      BY <3>4 DEF LeafOf, Entry
    <3> QED BY <3>2, <3>4, <3>5, <3>6
  <2>2. CASE ~(j \in i .. last /\ \A k \in i .. j : k \notin used)
    <3>1. f[j] = f0[j]
      BY <2>2
    <3> QED BY <1>2, <3>1
  <2> QED BY <2>1, <2>2
<1>7. f \in [DOMAIN f0 -> Entry]
  <2>1. f = [j \in DOMAIN f0 |-> f[j]]
    OBVIOUS
  <2> HIDE DEF f
  <2> QED BY <1>6, <2>1
<1> HIDE DEF f
<1> QED BY <1>1, <1>6, <1>7

-----------------------------------------------------------------------------
(* The recursion of vmem_map_st ends: it goes down a level, or on by an    *)
(* entry.                                                                  *)

Rank(lv, i) == (Depth - lv) * Entries - i

LEMMA Ranks ==
  ASSUME NEW lv \in 1 .. Depth - 1, NEW i \in 0 .. Entries - 1
  PROVE  /\ Rank(lv, i) \in Nat /\ Rank(lv, i) > 0 /\ Rank(lv, i) <= Depth * Entries
         /\ \A j \in 0 .. Entries - 1 : lv + 1 \in 1 .. Depth - 1 => Rank(lv + 1, j) < Rank(lv, i)
         /\ i + 1 \in 0 .. Entries - 1 => Rank(lv, i + 1) < Rank(lv, i)
<1>1. PICK d \in Nat, n \in Nat : d = Depth /\ n = Entries /\ n > 0
  BY Halves
<1>2. PICK k \in Nat : k = d - lv /\ k > 0 /\ k <= d
  BY <1>1
<1>3. PICK m \in Nat : m = k - 1
  BY <1>2
<1>4. k * n = m * n + n /\ m * n \in Nat
  BY <1>1, <1>3
<1>5. k * n <= d * n
  <2>1. PICK b \in Nat : d = k + b
    <3>1. d - k \in Nat /\ d = k + (d - k)
      BY <1>1, <1>2
    <3> QED BY <3>1
  <2>2. d * n = k * n + b * n /\ b * n \in Nat /\ k * n \in Nat
    BY <1>1, <2>1
  <2> QED BY <2>2
<1>6. PICK x \in Nat, y \in Nat : x = k * n /\ y = m * n /\ x = y + n
  BY <1>4, <1>1
<1>7. Rank(lv, i) = x - i /\ Rank(lv, i + 1) = x - (i + 1)
  BY <1>1, <1>2, <1>6 DEF Rank
<1>8. \A j \in 0 .. n - 1 : Rank(lv + 1, j) = y - j
  <2>1. d - (lv + 1) = m
    BY <1>2, <1>3
  <2> QED BY <1>1, <1>6, <2>1 DEF Rank
<1>9. i \in 0 .. n - 1 /\ x <= d * n
  BY <1>1, <1>5, <1>6
<1>10. x - i \in Nat /\ x - i > 0 /\ x - i <= x
  BY <1>6, <1>9, <1>1
<1>11. PICK z \in Nat : z = d * n
  BY <1>1
<1>12. x - i <= z
  BY <1>9, <1>10, <1>11, <1>6
<1>13. \A j \in 0 .. n - 1 : y - j < x - i
  BY <1>6, <1>9, <1>1
<1>14. x - (i + 1) < x - i
  BY <1>6, <1>9
<1> QED BY <1>1, <1>7, <1>8, <1>10, <1>11, <1>12, <1>13, <1>14

LEMMA CallIs ==
  ASSUME NEW w \in World, NEW t \in Nat, NEW i \in 0 .. Entries - 1, NEW q \in Request,
         NEW lv \in 1 .. Depth - 1
  PROVE  /\ Call(w, t, i, q, lv) \in Calls
         /\ Call(w, t, i, q, lv).w = w /\ Call(w, t, i, q, lv).t = t
         /\ Call(w, t, i, q, lv).i = i /\ Call(w, t, i, q, lv).q = q
         /\ Call(w, t, i, q, lv).lv = lv
BY DEF Call, Calls

(* At the lowest level, pages of its size are always used.                 *)
LEMMA LowestMaps ==
  ASSUME NEW q \in Request
  PROVE  q.size % PageSize[Depth] = 0 /\ Depth \in Large
<1>1. q.size \in Nat
  BY RequestsAssumption DEF Request
<1>2. \A n \in Nat : n % 1 = 0
  OBVIOUS
<1> QED BY <1>1, <1>2, LevelsAssumption

(* The calls that a call makes directly.                                   *)
LEMMA EnterUses ==
  ASSUME NEW f, NEW g, NEW w \in World, NEW t \in Int, NEW q \in Request, NEW lv \in Levels,
         \A b \in Calls : b.lv = lv => f[b].w \in World /\ g[b] = f[b]
  PROVE  Enter(g, w, t, q, lv) = Enter(f, w, t, q, lv) /\ Enter(f, w, t, q, lv).w \in World
<1>1. PICK i \in Nat : i = Index(q.virt, lv) /\ i \in 0 .. Entries - 1
  BY Indices DEF Request
<1>2. CASE ~InTable(w, t, i)
  BY <1>1, <1>2 DEF Enter, Done
<1>3. CASE InTable(w, t, i) /\ q.size % PageSize[lv] = 0 /\ lv \in Large
  <2>1. t \in 0 .. Len(w.tables)
    BY <1>3 DEF InTable
  <2>2. MapPages(w, t, i, q, lv).w \in World
    BY <2>1, <1>1, PagesParts, PutParts
  <2> QED BY <1>1, <1>3, <2>2 DEF Enter
<1>4. CASE InTable(w, t, i) /\ ~(q.size % PageSize[lv] = 0 /\ lv \in Large)
  <2>1. lv \in 1 .. Depth - 1
    BY <1>4, LowestMaps, Halves
  <2>2. t \in Nat
    BY <1>4, WorldParts DEF InTable
  <2>3. Call(w, t, i, q, lv) \in Calls /\ Call(w, t, i, q, lv).lv = lv
    BY <1>1, <2>1, <2>2, CallIs
  <2> QED BY <1>1, <1>4, <2>3 DEF Enter
<1> QED BY <1>2, <1>3, <1>4

LEMMA MapTablesUses ==
  ASSUME NEW n \in Nat, NEW f, NEW g, NEW a \in Calls, Rank(a.lv, a.i) <= n + 1,
         \A b \in Calls : Rank(b.lv, b.i) <= n => f[b].w \in World /\ g[b] = f[b]
  PROVE  MapTables(g, a) = MapTables(f, a) /\ MapTables(f, a).w \in World
<1>1. PICK w \in World, t \in Nat, i \in 0 .. Entries - 1, q \in Request, lv \in 1 .. Depth - 1 :
        w = a.w /\ t = a.t /\ i = a.i /\ q = a.q /\ lv = a.lv
  BY DEF Calls
<1>2. CASE q.size = 0 \/ ~InTable(w, t, i)
  BY <1>1, <1>2 DEF MapTables, Done
<1>3. CASE q.size # 0 /\ InTable(w, t, i)
  <2> DEFINE e == Tab(w, t)[i]
             v == IF e.addr = 0 THEN NewTable(w, t, i) ELSE w
             u == TableOf(Tab(v, t)[i])
  <2>1. t \in 0 .. Len(w.tables) /\ i \in DOMAIN Tab(w, t)
    BY <1>3 DEF InTable
  <2>2. v \in World /\ Tab(v, t)[i] \in Entry
    <3>1. CASE e.addr = 0
      <4>1. /\ NewTable(w, t, i) \in World
            /\ Tab(NewTable(w, t, i), t) = [Tab(w, t) EXCEPT ![i] = TableEntry(Len(w.tables) + 1)]
        BY <2>1, NewTableParts
      <4>2. Len(w.tables) + 1 \in Nat
        BY WorldParts
      <4>3. TableEntry(Len(w.tables) + 1) \in Entry
        BY <4>2, TableEntries
      <4> QED BY <2>1, <3>1, <4>1, <4>3, TabParts
    <3>2. CASE e.addr # 0
      BY <2>1, <3>2, TabParts
    <3> QED BY <3>1, <3>2
  <2>3. u \in Int
    BY <2>2, TablesBehind DEF TableOf, Entry
  <2>4. lv + 1 \in Levels
    BY Halves
  <2> DEFINE rf == Enter(f, v, u, q, lv + 1)
             rg == Enter(g, v, u, q, lv + 1)
  <2>5. rg = rf /\ rf.w \in World
    <3>1. ASSUME NEW b \in Calls, b.lv = lv + 1 PROVE f[b].w \in World /\ g[b] = f[b]
      <4>1. PICK j \in 0 .. Entries - 1 : j = b.i /\ lv + 1 \in 1 .. Depth - 1
        BY <3>1 DEF Calls
      <4>2. Rank(lv, i) \in Nat /\ Rank(lv + 1, j) < Rank(lv, i) /\ Rank(lv + 1, j) \in Nat
        BY <4>1, Ranks
      <4>3. Rank(b.lv, b.i) <= n
        <5>1. PICK x \in Nat, y \in Nat : x = Rank(lv, i) /\ y = Rank(lv + 1, j)
          BY <4>2
        <5> QED BY <1>1, <3>1, <4>1, <4>2, <5>1
      <4> QED BY <4>3
    <3>2. PICK k \in Levels : k = lv + 1
      BY <2>4
    <3>3. PICK x \in World, s \in Int : x = v /\ s = u
      BY <2>2, <2>3
    <3>4. \A b \in Calls : b.lv = k => f[b].w \in World /\ g[b] = f[b]
      BY <3>1, <3>2
    <3>5. Enter(g, x, s, q, k) = Enter(f, x, s, q, k) /\ Enter(f, x, s, q, k).w \in World
      BY <3>4, EnterUses
    <3> HIDE DEF v, u
    <3> QED BY <3>2, <3>3, <3>5
  <2> HIDE DEF rf, rg
  <2>6. ASSUME i + 1 # Entries, NEW x, x \in World
        PROVE  LET b == Call(x, t, i + 1, Advance(q, Covered(q.virt, lv)), lv)
               IN  f[b].w \in World /\ g[b] = f[b]
    <3>1. i + 1 \in 0 .. Entries - 1
      <4>1. PICK m \in Nat : m = Entries
        BY Halves
      <4> QED BY <2>6, <4>1
    <3>2. PICK p \in Request : p = Advance(q, Covered(q.virt, lv))
      BY Advanced
    <3>3. PICK b \in Calls : b = Call(x, t, i + 1, p, lv) /\ b.lv = lv /\ b.i = i + 1
      BY <2>6, <3>1, CallIs
    <3>4. Rank(b.lv, b.i) <= n
      <4>1. Rank(lv, i) \in Nat /\ Rank(lv, i + 1) < Rank(lv, i) /\ Rank(lv, i + 1) \in Nat
        BY <3>1, Ranks
      <4>2. PICK y \in Nat, z \in Nat : y = Rank(lv, i) /\ z = Rank(lv, i + 1)
        BY <4>1
      <4> QED BY <1>1, <3>3, <4>1, <4>2
    <3> QED BY <3>2, <3>3, <3>4
  <2>7. CASE ~(e.addr # 0 /\ e.large) /\ ~(e.addr = 0 /\ Len(w.tables) = MaxTables)
    <3> DEFINE next == Call(rf.w, t, i + 1, Advance(q, Covered(q.virt, lv)), lv)
    <3>1. MapTables(f, a) = IF rf.ret # "continue" \/ i + 1 = Entries THEN rf ELSE f[next]
      BY <1>1, <1>3, <2>7 DEF MapTables, rf
    <3>2. MapTables(g, a) = IF rg.ret # "continue" \/ i + 1 = Entries THEN rg
                            ELSE g[Call(rg.w, t, i + 1, Advance(q, Covered(q.virt, lv)), lv)]
      BY <1>1, <1>3, <2>7 DEF MapTables, rg
    <3>3. i + 1 # Entries => f[next].w \in World /\ g[next] = f[next]
      BY <2>5, <2>6
    <3> QED BY <2>5, <3>1, <3>2, <3>3
  <2>8. CASE (e.addr # 0 /\ e.large) \/ (e.addr = 0 /\ Len(w.tables) = MaxTables)
    BY <1>1, <1>3, <2>8 DEF MapTables, Done
  <2> QED BY <2>7, <2>8
<1> QED BY <1>2, <1>3

LEMMA MapExists ==
  \E map : /\ map = [a \in Calls |-> MapTables(map, a)]
           /\ \A a \in Calls : map[a].w \in World
<1> DEFINE D(n) == {a \in Calls : Rank(a.lv, a.i) <= n}
           Is(f, n) == f = [a \in D(n) |-> MapTables(f, a)] /\ \A a \in D(n) : f[a].w \in World
           S == {n \in Nat : \E f : Is(f, n)}
<1>1. 0 \in S
  <2>1. D(0) = {}
    <3> SUFFICES ASSUME NEW a \in Calls PROVE ~(Rank(a.lv, a.i) <= 0)
      OBVIOUS
    <3>1. a.lv \in 1 .. Depth - 1 /\ a.i \in 0 .. Entries - 1
      BY DEF Calls
    <3>2. PICK r \in Nat : r = Rank(a.lv, a.i) /\ r > 0
      BY <3>1, Ranks
    <3> QED BY <3>2
  <2> HIDE DEF D
  <2> DEFINE f == [a \in {} |-> 0]
  <2>2. f = [a \in D(0) |-> MapTables(f, a)]
    BY <2>1
  <2> QED BY <2>1, <2>2
<1>2. ASSUME NEW n \in Nat, n \in S PROVE n + 1 \in S
  <2>1. PICK f : Is(f, n)
    BY <1>2
  <2> DEFINE g == [a \in D(n + 1) |-> MapTables(f, a)]
  <2>2. D(n) \subseteq D(n + 1)
    <3> SUFFICES ASSUME NEW a \in Calls, Rank(a.lv, a.i) <= n PROVE Rank(a.lv, a.i) <= n + 1
      OBVIOUS
    <3>1. a.lv \in 1 .. Depth - 1 /\ a.i \in 0 .. Entries - 1
      BY DEF Calls
    <3>2. PICK r \in Nat : r = Rank(a.lv, a.i)
      BY <3>1, Ranks
    <3> QED BY <3>2
  <2>3. \A a \in D(n) : g[a] = f[a] /\ f[a].w \in World
    <3> HIDE DEF D
    <3>1. \A a \in D(n) : f[a] = MapTables(f, a) /\ f[a].w \in World
      BY <2>1
    <3> QED BY <2>2, <3>1
  <2>4. ASSUME NEW a \in D(n + 1)
        PROVE  MapTables(g, a) = MapTables(f, a) /\ MapTables(f, a).w \in World
    <3>1. \A b \in Calls : Rank(b.lv, b.i) <= n => f[b].w \in World /\ g[b] = f[b]
      <4> HIDE DEF g
      <4> QED BY <2>3
    <3>2. a \in Calls /\ Rank(a.lv, a.i) <= n + 1
      OBVIOUS
    <3> HIDE DEF g, D
    <3> QED BY <3>1, <3>2, MapTablesUses
  <2>5. g = [a \in D(n + 1) |-> MapTables(g, a)] /\ \A a \in D(n + 1) : g[a].w \in World
    <3>1. g = [a \in D(n + 1) |-> g[a]] /\ \A a \in D(n + 1) : g[a] = MapTables(f, a)
      <4> HIDE DEF D
      <4> QED OBVIOUS
    <3> HIDE DEF D, g
    <3> QED BY <2>4, <3>1
  <2> HIDE DEF D, g
  <2> QED BY <2>5
<1>3. Nat \subseteq S
  <2> HIDE DEF S
  <2> QED BY <1>1, <1>2, SetInduction
<1>4. PICK N \in Nat : N = Depth * Entries
  BY Halves
<1>5. D(N) = Calls
  <2> SUFFICES ASSUME NEW a \in Calls PROVE Rank(a.lv, a.i) <= N
    OBVIOUS
  <2>1. a.lv \in 1 .. Depth - 1 /\ a.i \in 0 .. Entries - 1
    BY DEF Calls
  <2> QED BY <1>4, <2>1, Ranks
<1>6. PICK f : Is(f, N)
  <2> HIDE DEF Is
  <2> QED BY <1>3
<1> HIDE DEF D
<1> QED BY <1>5, <1>6

-----------------------------------------------------------------------------
(* Levels and owners.                                                      *)

Level(g, t)    == IF t = 0 THEN 1 ELSE g.lv[t]
Owner(g, o, t) == IF t = 0 THEN o ELSE g.of[t]

(* A world whose top-level table is o's.                                   *)
Good(w, o, g) ==
  /\ w \in World /\ g \in Shapes(Len(w.tables))
  /\ \A t \in 0 .. Len(w.tables) : \A i \in DOMAIN Tab(w, t) :
       Fits(Tab(w, t)[i], Level(g, t), Owner(g, o, t), g)

Extends(g, h, n) == \A t \in 1 .. n : h.lv[t] = g.lv[t] /\ h.of[t] = g.of[t]

(* An entry in use is replaced only if it counts as free.                  *)
Keeps(e, f) == e.present => f = e \/ (e.large /\ e.addr = 0)

Grows(w, g, v, h) ==
  /\ Len(w.tables) <= Len(v.tables) /\ Extends(g, h, Len(w.tables))
  /\ \A t \in 0 .. Len(w.tables) :
       /\ DOMAIN Tab(v, t) = DOMAIN Tab(w, t)
       /\ \A i \in DOMAIN Tab(w, t) : Keeps(Tab(w, t)[i], Tab(v, t)[i])

LEMMA FitsMore ==
  ASSUME NEW n \in Nat, NEW m \in Nat, n <= m, NEW g \in Shapes(n), NEW h \in Shapes(m),
         Extends(g, h, n), NEW e, NEW lv, NEW o, Fits(e, lv, o, g)
  PROVE  Fits(e, lv, o, h)
<1>1. DOMAIN g.lv = 1 .. n /\ DOMAIN h.lv = 1 .. m /\ 1 .. n \subseteq 1 .. m
  BY DEF Shapes
<1>2. ASSUME NEW t \in DOMAIN g.lv, e = TableEntry(t), g.lv[t] = lv + 1, g.of[t] = o
      PROVE  t \in DOMAIN h.lv /\ h.lv[t] = lv + 1 /\ h.of[t] = o
  BY <1>1, <1>2 DEF Extends
<1> QED BY <1>2 DEF Fits

LEMMA GrowsSelf ==
  ASSUME NEW w \in World, NEW g
  PROVE  Grows(w, g, w, g)
BY WorldParts DEF Grows, Extends, Keeps

LEMMA GrowsOn ==
  ASSUME NEW w \in World, NEW v \in World, NEW u \in World, NEW g, NEW h, NEW k,
         Grows(w, g, v, h), Grows(v, h, u, k)
  PROVE  Grows(w, g, u, k)
<1>1. PICK l \in Nat, m \in Nat, n \in Nat :
        l = Len(w.tables) /\ m = Len(v.tables) /\ n = Len(u.tables) /\ l <= m /\ m <= n
  BY WorldParts DEF Grows
<1>2. 0 .. l \subseteq 0 .. m /\ 1 .. l \subseteq 1 .. m /\ l <= n
  BY <1>1
<1>3. Extends(g, k, l)
  BY <1>1, <1>2 DEF Grows, Extends
<1>4. ASSUME NEW t \in 0 .. l
      PROVE  /\ DOMAIN Tab(u, t) = DOMAIN Tab(w, t)
             /\ \A i \in DOMAIN Tab(w, t) : Keeps(Tab(w, t)[i], Tab(u, t)[i])
  <2>1. t \in 0 .. m
    BY <1>2
  <2>2. /\ DOMAIN Tab(v, t) = DOMAIN Tab(w, t) /\ DOMAIN Tab(u, t) = DOMAIN Tab(v, t)
        /\ \A i \in DOMAIN Tab(w, t) : Keeps(Tab(w, t)[i], Tab(v, t)[i])
        /\ \A i \in DOMAIN Tab(v, t) : Keeps(Tab(v, t)[i], Tab(u, t)[i])
    BY <1>1, <2>1 DEF Grows
  <2> QED BY <2>2 DEF Keeps
<1> QED BY <1>1, <1>2, <1>3, <1>4 DEF Grows

(* A world in which one table has changed, and not what it refers to.      *)
LEMMA PutGood ==
  ASSUME NEW w, NEW o, NEW g, Good(w, o, g), NEW t \in 0 .. Len(w.tables),
         NEW f \in [DOMAIN Tab(w, t) -> Entry],
         \A i \in DOMAIN Tab(w, t) :
           Fits(f[i], Level(g, t), Owner(g, o, t), g) /\ Keeps(Tab(w, t)[i], f[i])
  PROVE  Good(Put(w, t, f), o, g) /\ Grows(w, g, Put(w, t, f), g)
<1>1. w \in World /\ g \in Shapes(Len(w.tables))
  BY DEF Good
<1>2. PICK v \in World : /\ v = Put(w, t, f) /\ Len(v.tables) = Len(w.tables) /\ Tab(v, t) = f
                         /\ \A s \in 0 .. Len(w.tables) : s # t => Tab(v, s) = Tab(w, s)
  BY <1>1, PutParts
<1>3. ASSUME NEW s \in 0 .. Len(w.tables)
      PROVE  /\ DOMAIN Tab(v, s) = DOMAIN Tab(w, s)
             /\ \A i \in DOMAIN Tab(v, s) : /\ Fits(Tab(v, s)[i], Level(g, s), Owner(g, o, s), g)
                                            /\ Keeps(Tab(w, s)[i], Tab(v, s)[i])
  <2>1. CASE s = t
    BY <1>2, <2>1
  <2>2. CASE s # t
    BY <1>2, <2>2 DEF Good, Keeps
  <2> QED BY <2>1, <2>2
<1>4. Good(v, o, g)
  BY <1>1, <1>2, <1>3 DEF Good
<1>5. Grows(w, g, v, g)
  <2>1. Len(w.tables) \in Nat
    BY <1>1, WorldParts
  <2> QED BY <1>2, <1>3, <2>1 DEF Grows, Extends
<1> QED BY <1>2, <1>4, <1>5

(* The loop that maps pages keeps a world good.                            *)
LEMMA PagesGood ==
  ASSUME NEW w, NEW o, NEW g, Good(w, o, g), NEW t \in 0 .. Len(w.tables), NEW i \in Nat,
         NEW q \in Request, NEW lv \in Levels, lv \in Large, Level(g, t) = lv
  PROVE  LET v == MapPages(w, t, i, q, lv).w IN Good(v, o, g) /\ Grows(w, g, v, g)
<1>1. w \in World
  BY DEF Good
<1>2. PICK f \in [DOMAIN Tab(w, t) -> Entry] :
        /\ MapPages(w, t, i, q, lv).w = Put(w, t, f)
        /\ \A j \in DOMAIN Tab(w, t) :
             \/ f[j] = Tab(w, t)[j]
             \/ ~Tab(w, t)[j].present /\ \E a \in Nat : f[j] = LeafOf(a, lv)
  BY <1>1, PagesParts
<1>3. ASSUME NEW j \in DOMAIN Tab(w, t)
      PROVE  Fits(f[j], Level(g, t), Owner(g, o, t), g) /\ Keeps(Tab(w, t)[j], f[j])
  <2>1. CASE f[j] = Tab(w, t)[j]
    BY <2>1 DEF Good, Keeps
  <2>2. ASSUME ~Tab(w, t)[j].present, NEW a \in Nat, f[j] = LeafOf(a, lv)
        PROVE  Fits(f[j], Level(g, t), Owner(g, o, t), g) /\ Keeps(Tab(w, t)[j], f[j])
    <3>1. LeafOf(a, lv) \in Entry /\ LeafOf(a, lv).present /\ LeafOf(a, lv).large = (lv # Depth)
      BY DEF LeafOf, Entry
    <3> QED BY <2>2, <3>1 DEF Fits, Keeps
  <2> QED BY <1>2, <2>1, <2>2
<1>4. Good(Put(w, t, f), o, g) /\ Grows(w, g, Put(w, t, f), g)
  BY <1>3, PutGood
<1> QED BY <1>2, <1>4

(* A new table belongs to whom the table that refers to it belongs.        *)
LEMMA NewTableGood ==
  ASSUME NEW w, NEW o \in Owners, NEW g, Good(w, o, g), NEW t \in 0 .. Len(w.tables),
         NEW i \in DOMAIN Tab(w, t), Tab(w, t)[i].addr = 0,
         NEW lv \in 1 .. Depth - 1, Level(g, t) = lv
  PROVE  LET v == NewTable(w, t, i) IN
         \E h : /\ Good(v, o, h) /\ Grows(w, g, v, h)
                /\ Tab(v, t)[i] = TableEntry(Len(w.tables) + 1)
                /\ Level(h, Len(w.tables) + 1) = lv + 1
<1>1. w \in World /\ g \in Shapes(Len(w.tables))
  BY DEF Good
<1>2. PICK n \in Nat : n = Len(w.tables)
  BY <1>1, WorldParts
<1>3. PICK v \in World :
        /\ v = NewTable(w, t, i) /\ Len(v.tables) = n + 1
        /\ Tab(v, t) = [Tab(w, t) EXCEPT ![i] = TableEntry(n + 1)]
        /\ \A s \in 0 .. n : s # t => Tab(v, s) = Tab(w, s)
        /\ Tab(v, n + 1) = NoEntries(0 .. Entries - 1)
  BY <1>1, <1>2, NewTableParts
<1>4. g.lv \in [1 .. n -> 2 .. Depth] /\ g.of \in [1 .. n -> Owners]
  BY <1>1, <1>2 DEF Shapes
<1>5. Owner(g, o, t) \in Owners
  BY <1>2, <1>4 DEF Owner
<1>6. PICK h : h = [lv |-> [s \in 1 .. n + 1 |-> IF s = n + 1 THEN lv + 1 ELSE g.lv[s]],
                    of |-> [s \in 1 .. n + 1 |-> IF s = n + 1 THEN Owner(g, o, t) ELSE g.of[s]]]
  OBVIOUS
<1>7. h \in Shapes(n + 1) /\ Extends(g, h, n) /\ h.lv[n + 1] = lv + 1 /\ h.of[n + 1] = Owner(g, o, t)
  <2>1. lv + 1 \in 2 .. Depth
    BY Halves
  <2>2. \A s \in 1 .. n + 1 : s = n + 1 \/ s \in 1 .. n
    OBVIOUS
  <2>3. \A s \in 1 .. n : s \in 1 .. n + 1 /\ s # n + 1
    OBVIOUS
  <2>4. n + 1 \in 1 .. n + 1
    OBVIOUS
  <2>5. h.lv \in [1 .. n + 1 -> 2 .. Depth]
    BY <1>4, <1>6, <2>1, <2>2
  <2>6. h.of \in [1 .. n + 1 -> Owners]
    BY <1>4, <1>5, <1>6, <2>2
  <2>7. h = [lv |-> h.lv, of |-> h.of]
    BY <1>6
  <2>8. h \in Shapes(n + 1)
    BY <2>5, <2>6, <2>7 DEF Shapes
  <2> QED BY <1>6, <2>3, <2>4, <2>8 DEF Extends
<1>8. \A s \in 0 .. n : Level(h, s) = Level(g, s) /\ Owner(h, o, s) = Owner(g, o, s)
  <2>1. \A s \in 0 .. n : s = 0 \/ s \in 1 .. n
    OBVIOUS
  <2> QED BY <1>7, <2>1 DEF Level, Owner, Extends
<1>9. \A s \in 0 .. n : \A j \in DOMAIN Tab(w, s) :
        Fits(Tab(w, s)[j], Level(h, s), Owner(h, o, s), h)
  <2> SUFFICES ASSUME NEW s \in 0 .. n, NEW j \in DOMAIN Tab(w, s)
               PROVE  Fits(Tab(w, s)[j], Level(h, s), Owner(h, o, s), h)
    OBVIOUS
  <2>1. Fits(Tab(w, s)[j], Level(g, s), Owner(g, o, s), g)
    BY <1>2 DEF Good
  <2>2. PICK e, l, p : e = Tab(w, s)[j] /\ l = Level(g, s) /\ p = Owner(g, o, s)
    OBVIOUS
  <2>3. PICK m \in Nat : m = n + 1 /\ n <= m
    OBVIOUS
  <2>4. Fits(e, l, p, h)
    <3>1. g \in Shapes(n) /\ h \in Shapes(m) /\ Fits(e, l, p, g)
      BY <1>1, <1>2, <1>7, <2>1, <2>2, <2>3
    <3> QED BY <1>7, <2>3, <3>1, FitsMore
  <2> QED BY <1>8, <2>2, <2>4
<1>10. DOMAIN h.lv = 1 .. n + 1
  BY <1>7 DEF Shapes
<1>11. ASSUME NEW s \in 0 .. n + 1, NEW j \in DOMAIN Tab(v, s)
       PROVE  Fits(Tab(v, s)[j], Level(h, s), Owner(h, o, s), h)
  <2>1. CASE s = n + 1
    <3>1. Tab(v, s)[j] = Empty
      BY <1>3, <2>1 DEF NoEntries
    <3> QED BY <3>1 DEF Fits
  <2>2. CASE s \in 0 .. n /\ s # t
    BY <1>3, <1>9, <2>2
  <2>3. CASE s = t
    <3>1. CASE j = i
      <4>1. Tab(v, s)[j] = TableEntry(n + 1)
        BY <1>1, <1>2, <1>3, <2>3, <3>1, TabParts
      <4>2. Level(h, s) = lv /\ Owner(h, o, s) = Owner(g, o, t)
        BY <1>2, <1>8, <2>3
      <4>3. n + 1 \in DOMAIN h.lv
        BY <1>10
      <4> QED BY <1>7, <4>1, <4>2, <4>3 DEF Fits
    <3>2. CASE j # i
      <4>1. Tab(v, s)[j] = Tab(w, t)[j] /\ j \in DOMAIN Tab(w, t)
        BY <1>3, <2>3, <3>2
      <4> QED BY <1>2, <1>9, <2>3, <4>1
    <3> QED BY <3>1, <3>2
  <2>4. s = n + 1 \/ s \in 0 .. n
    OBVIOUS
  <2> QED BY <2>1, <2>2, <2>3, <2>4
<1>12. Good(v, o, h)
  BY <1>3, <1>7, <1>11 DEF Good
<1>13. ASSUME NEW s \in 0 .. n
       PROVE  /\ DOMAIN Tab(v, s) = DOMAIN Tab(w, s)
              /\ \A j \in DOMAIN Tab(w, s) : Keeps(Tab(w, s)[j], Tab(v, s)[j])
  <2>1. CASE s # t
    BY <1>3, <2>1 DEF Keeps
  <2>2. CASE s = t
    <3>1. ASSUME Tab(w, t)[i].present PROVE Tab(w, t)[i].large
      <4>1. Fits(Tab(w, t)[i], lv, Owner(g, o, t), g)
        BY DEF Good
      <4>2. \A m \in DOMAIN g.lv : TableEntry(m).addr # 0
        <5>1. \A m \in DOMAIN g.lv : m \in Nat /\ m > 0
          BY <1>4
        <5> QED BY <5>1, TableEntries
      <4>3. lv # Depth
        BY Halves
      <4>4. Tab(w, t)[i] # Empty
        BY <3>1 DEF Empty
      <4> QED BY <4>1, <4>2, <4>3, <4>4 DEF Fits
    <3>2. \A j \in DOMAIN Tab(w, t) : j # i => Tab(v, t)[j] = Tab(w, t)[j]
      BY <1>3
    <3>3. DOMAIN Tab(v, t) = DOMAIN Tab(w, t)
      BY <1>3
    <3>4. \A j \in DOMAIN Tab(w, t) : Keeps(Tab(w, t)[j], Tab(v, t)[j])
      BY <3>1, <3>2 DEF Keeps
    <3> QED BY <2>2, <3>3, <3>4
  <2> QED BY <2>1, <2>2
<1>14. Grows(w, g, v, h)
  <2>1. n <= n + 1
    OBVIOUS
  <2> QED BY <1>2, <1>3, <1>7, <1>13, <2>1 DEF Grows
<1>15. Tab(v, t)[i] = TableEntry(n + 1)
  BY <1>3
<1>16. Level(h, n + 1) = lv + 1
  <2>1. n + 1 # 0
    OBVIOUS
  <2> QED BY <1>7, <2>1 DEF Level
<1> QED BY <1>2, <1>3, <1>12, <1>14, <1>15, <1>16

-----------------------------------------------------------------------------
(* vmem_map_st, whatever it does, leaves a good world of the same owner,   *)
(* in which what was there before is kept.                                 *)
After(o, w, g, v) == \E h : Good(v, o, h) /\ Grows(w, g, v, h)

Kept(map, o, a) ==
  \A g : Good(a.w, o, g) /\ a.t \in 0 .. Len(a.w.tables) /\ Level(g, a.t) = a.lv
           => After(o, a.w, g, map[a].w)

LEMMA AfterSelf ==
  ASSUME NEW o, NEW w, NEW g, Good(w, o, g)
  PROVE  After(o, w, g, w)
BY GrowsSelf DEF After, Good

LEMMA AfterMore ==
  ASSUME NEW o, NEW w, NEW g, NEW v, NEW h, NEW u,
         Good(w, o, g), Good(v, o, h), Grows(w, g, v, h), After(o, v, h, u)
  PROVE  After(o, w, g, u)
<1>1. PICK k : Good(u, o, k) /\ Grows(v, h, u, k)
  BY DEF After
<1>2. Grows(w, g, u, k)
  BY <1>1, GrowsOn DEF Good
<1> QED BY <1>1, <1>2 DEF After

LEMMA LevelStays ==
  ASSUME NEW w \in World, NEW g, NEW v, NEW h, Grows(w, g, v, h), v \in World,
         NEW t \in 0 .. Len(w.tables)
  PROVE  t \in 0 .. Len(v.tables) /\ Level(h, t) = Level(g, t)
<1>1. PICK l \in Nat, m \in Nat : l = Len(w.tables) /\ m = Len(v.tables) /\ l <= m
  BY WorldParts DEF Grows
<1>2. t \in 0 .. m /\ (t = 0 \/ t \in 1 .. l)
  BY <1>1
<1> QED BY <1>1, <1>2 DEF Grows, Extends, Level

LEMMA EnterGood ==
  ASSUME NEW map, NEW w, NEW o, NEW g, Good(w, o, g), NEW t \in 0 .. Len(w.tables),
         NEW q \in Request, NEW lv \in Levels, Level(g, t) = lv,
         \A b \in Calls : b.lv = lv => Kept(map, o, b)
  PROVE  After(o, w, g, Enter(map, w, t, q, lv).w)
<1>1. PICK i \in Nat : i = Index(q.virt, lv) /\ i \in 0 .. Entries - 1
  BY Indices DEF Request
<1>2. w \in World /\ t \in Nat
  BY WorldParts DEF Good
<1>3. CASE ~InTable(w, t, i)
  <2>1. Enter(map, w, t, q, lv).w = w
    BY <1>1, <1>3 DEF Enter, Done
  <2> QED BY <2>1, AfterSelf
<1>4. CASE InTable(w, t, i) /\ q.size % PageSize[lv] = 0 /\ lv \in Large
  <2>1. PICK v : v = MapPages(w, t, i, q, lv).w /\ v = Enter(map, w, t, q, lv).w
    BY <1>1, <1>4 DEF Enter
  <2>2. Good(v, o, g) /\ Grows(w, g, v, g)
    BY <1>1, <1>4, <2>1, PagesGood
  <2> QED BY <2>1, <2>2 DEF After
<1>5. CASE InTable(w, t, i) /\ ~(q.size % PageSize[lv] = 0 /\ lv \in Large)
  <2>1. lv \in 1 .. Depth - 1
    BY <1>5, LowestMaps, Halves
  <2>2. PICK b \in Calls : b = Call(w, t, i, q, lv) /\ b.w = w /\ b.t = t /\ b.lv = lv
    BY <1>1, <1>2, <2>1, CallIs
  <2>3. After(o, w, g, map[b].w)
    BY <2>2 DEF Kept
  <2>4. Enter(map, w, t, q, lv) = map[b]
    BY <1>1, <1>5, <2>2 DEF Enter
  <2> QED BY <2>3, <2>4
<1> QED BY <1>3, <1>4, <1>5

(* Where vmem_map_st goes down to: the table that is there, or a new one.  *)
LEMMA DownGood ==
  ASSUME NEW w, NEW o \in Owners, NEW g, Good(w, o, g), NEW t \in 0 .. Len(w.tables),
         NEW i \in DOMAIN Tab(w, t), NEW lv \in 1 .. Depth - 1, Level(g, t) = lv,
         ~(Tab(w, t)[i].addr # 0 /\ Tab(w, t)[i].large)
  PROVE  LET v == IF Tab(w, t)[i].addr = 0 THEN NewTable(w, t, i) ELSE w
             u == TableOf(Tab(v, t)[i])
         IN  \E h : /\ Good(v, o, h) /\ Grows(w, g, v, h)
                    /\ u \in 0 .. Len(v.tables) /\ Level(h, u) = lv + 1
<1>1. w \in World /\ g \in Shapes(Len(w.tables))
  BY DEF Good
<1>2. PICK n \in Nat : n = Len(w.tables)
  BY <1>1, WorldParts
<1>3. CASE Tab(w, t)[i].addr = 0
  <2>1. PICK v, h : /\ v = NewTable(w, t, i) /\ Good(v, o, h) /\ Grows(w, g, v, h)
                    /\ Tab(v, t)[i] = TableEntry(n + 1) /\ Level(h, n + 1) = lv + 1
    BY <1>2, <1>3, NewTableGood
  <2>2. PICK m \in Nat : m = n + 1
    OBVIOUS
  <2>3. TableOf(Tab(v, t)[i]) = m
    BY <2>1, <2>2, TableEntries
  <2>4. Len(v.tables) = m
    BY <1>1, <1>2, <2>1, <2>2, NewTableParts
  <2>5. m \in 0 .. m
    OBVIOUS
  <2> QED BY <1>3, <2>1, <2>2, <2>3, <2>4, <2>5
<1>4. CASE Tab(w, t)[i].addr # 0
  <2>1. Fits(Tab(w, t)[i], lv, Owner(g, o, t), g)
    BY DEF Good
  <2>2. lv # Depth
    BY Halves
  <2>3. PICK m \in DOMAIN g.lv : Tab(w, t)[i] = TableEntry(m) /\ g.lv[m] = lv + 1
    <3>1. Tab(w, t)[i] # Empty
      BY <1>4 DEF Empty
    <3>2. ~(Tab(w, t)[i].large = (lv # Depth))
      BY <1>4, <2>2
    <3> QED BY <2>1, <3>1, <3>2 DEF Fits
  <2>4. m \in 1 .. n
    BY <1>1, <1>2 DEF Shapes
  <2>5. m \in Nat /\ m \in 0 .. n /\ m # 0
    BY <2>4
  <2>6. TableOf(Tab(w, t)[i]) = m /\ Level(g, m) = lv + 1
    BY <2>3, <2>5, TableEntries DEF Level
  <2> QED BY <1>1, <1>2, <1>4, <2>5, <2>6, GrowsSelf
<1> QED BY <1>3, <1>4

LEMMA MapTablesGood ==
  ASSUME NEW map, NEW o \in Owners, NEW n \in Nat, NEW a \in Calls, Rank(a.lv, a.i) <= n + 1,
         \A b \in Calls : Rank(b.lv, b.i) <= n => Kept(map, o, b),
         NEW g, Good(a.w, o, g), a.t \in 0 .. Len(a.w.tables), Level(g, a.t) = a.lv
  PROVE  After(o, a.w, g, MapTables(map, a).w)
<1>1. PICK w \in World, t \in Nat, i \in 0 .. Entries - 1, q \in Request, lv \in 1 .. Depth - 1 :
        w = a.w /\ t = a.t /\ i = a.i /\ q = a.q /\ lv = a.lv
  BY DEF Calls
<1> DEFINE e == Tab(w, t)[i]
           v == IF e.addr = 0 THEN NewTable(w, t, i) ELSE w
           u == TableOf(Tab(v, t)[i])
           r == Enter(map, v, u, q, lv + 1)
           next == Call(r.w, t, i + 1, Advance(q, Covered(q.virt, lv)), lv)
<1>2. CASE \/ q.size = 0 \/ ~InTable(w, t, i) \/ (e.addr # 0 /\ e.large)
           \/ (e.addr = 0 /\ Len(w.tables) = MaxTables)
  <2>1. MapTables(map, a).w = w
    BY <1>1, <1>2 DEF MapTables, Done
  <2> QED BY <1>1, <2>1, AfterSelf
<1>3. CASE ~(\/ q.size = 0 \/ ~InTable(w, t, i) \/ (e.addr # 0 /\ e.large)
             \/ (e.addr = 0 /\ Len(w.tables) = MaxTables))
  <2>1. MapTables(map, a) = IF r.ret # "continue" \/ i + 1 = Entries THEN r ELSE map[next]
    BY <1>1, <1>3 DEF MapTables
  <2>2. Good(w, o, g) /\ t \in 0 .. Len(w.tables) /\ i \in DOMAIN Tab(w, t) /\ Level(g, t) = lv
    BY <1>1, <1>3 DEF InTable
  <2>3. PICK h : /\ Good(v, o, h) /\ Grows(w, g, v, h)
                 /\ u \in 0 .. Len(v.tables) /\ Level(h, u) = lv + 1
    BY <1>3, <2>2, DownGood
  <2> HIDE DEF u, v, e
  <2>4. PICK k \in Levels : k = lv + 1
    BY Halves
  <2>5. ASSUME NEW b \in Calls, b.lv = k PROVE Kept(map, o, b)
    <3>1. PICK j \in 0 .. Entries - 1 : j = b.i /\ lv + 1 \in 1 .. Depth - 1
      BY <2>4, <2>5 DEF Calls
    <3>2. PICK x \in Nat, y \in Nat : x = Rank(lv, i) /\ y = Rank(lv + 1, j) /\ y < x
      BY <3>1, Ranks
    <3>3. x <= n + 1
      BY <1>1, <3>2
    <3>4. y = Rank(b.lv, b.i) /\ y <= n
      BY <2>4, <2>5, <3>1, <3>2, <3>3
    <3> QED BY <3>4
  <2>6. After(o, v, h, r.w)
    <3>1. After(o, v, h, Enter(map, v, u, q, k).w)
      BY <2>3, <2>4, <2>5, EnterGood
    <3> QED BY <2>4, <3>1
  <2> HIDE DEF r
  <2>7. PICK l : Good(r.w, o, l) /\ Grows(v, h, r.w, l)
    BY <2>6 DEF After
  <2>8. v \in World /\ r.w \in World
    BY <2>3, <2>7 DEF Good
  <2>9. Grows(w, g, r.w, l)
    BY <2>3, <2>7, <2>8, GrowsOn
  <2>10. CASE r.ret # "continue" \/ i + 1 = Entries
    BY <1>1, <2>1, <2>7, <2>9, <2>10 DEF After
  <2>11. CASE ~(r.ret # "continue" \/ i + 1 = Entries)
    <3>1. i + 1 \in 0 .. Entries - 1
      <4>1. PICK m \in Nat : m = Entries
        BY Halves
      <4> QED BY <2>11, <4>1
    <3>2. PICK p \in Request : p = Advance(q, Covered(q.virt, lv))
      BY Advanced
    <3>3. PICK b \in Calls : /\ b = Call(r.w, t, i + 1, p, lv) /\ b.lv = lv /\ b.i = i + 1
                             /\ b.w = r.w /\ b.t = t
      BY <2>8, <3>1, CallIs
    <3>4. PICK x \in Nat, y \in Nat : x = Rank(lv, i) /\ y = Rank(lv, i + 1) /\ y < x
      BY <3>1, Ranks
    <3>5. x <= n + 1
      BY <1>1, <3>4
    <3>6. y = Rank(b.lv, b.i) /\ y <= n
      BY <3>3, <3>4, <3>5
    <3>7. Kept(map, o, b)
      BY <3>6
    <3>8. t \in 0 .. Len(r.w.tables) /\ Level(l, t) = lv
      BY <2>2, <2>8, <2>9, LevelStays
    <3>9. After(o, r.w, l, map[b].w)
      BY <2>7, <3>3, <3>7, <3>8 DEF Kept
    <3>10. MapTables(map, a) = map[b]
      BY <2>1, <2>11, <3>2, <3>3
    <3> QED BY <1>1, <2>2, <2>7, <2>9, <3>9, <3>10, AfterMore
  <2> QED BY <2>10, <2>11
<1> QED BY <1>2, <1>3

LEMMA MapStGood ==
  ASSUME NEW w, NEW o \in Owners, NEW g, Good(w, o, g), NEW q \in Request
  PROVE  After(o, w, g, MapSt(w, q).w)
<1> DEFINE map == CHOOSE map : map = [a \in Calls |-> MapTables(map, a)]
<1>1. MapSt(w, q) = Enter(map, w, 0, q, 1)
  BY DEF MapSt
<1>2. map = [a \in Calls |-> MapTables(map, a)]
  BY MapExists
<1> HIDE DEF map
<1> DEFINE S == {n \in Nat : \A b \in Calls : Rank(b.lv, b.i) <= n => Kept(map, o, b)}
<1>3. 0 \in S
  <2> SUFFICES ASSUME NEW b \in Calls PROVE ~(Rank(b.lv, b.i) <= 0)
    OBVIOUS
  <2>1. b.lv \in 1 .. Depth - 1 /\ b.i \in 0 .. Entries - 1
    BY DEF Calls
  <2>2. PICK r \in Nat : r = Rank(b.lv, b.i) /\ r > 0
    BY <2>1, Ranks
  <2> QED BY <2>2
<1>4. ASSUME NEW n \in Nat, n \in S PROVE n + 1 \in S
  <2> SUFFICES ASSUME NEW b \in Calls, Rank(b.lv, b.i) <= n + 1,
                      NEW k, Good(b.w, o, k), b.t \in 0 .. Len(b.w.tables), Level(k, b.t) = b.lv
               PROVE  After(o, b.w, k, map[b].w)
    BY DEF Kept
  <2>1. map[b] = MapTables(map, b)
    BY <1>2
  <2>2. After(o, b.w, k, MapTables(map, b).w)
    BY <1>4, MapTablesGood
  <2> QED BY <2>1, <2>2
<1>5. Nat \subseteq S
  <2> HIDE DEF S
  <2> QED BY <1>3, <1>4, SetInduction
<1>6. ASSUME NEW b \in Calls, b.lv = 1 PROVE Kept(map, o, b)
  <2>1. b.lv \in 1 .. Depth - 1 /\ b.i \in 0 .. Entries - 1
    BY DEF Calls
  <2>2. PICK r \in Nat : r = Rank(b.lv, b.i)
    BY <2>1, Ranks
  <2>3. r \in S /\ r <= r
    BY <1>5
  <2> QED BY <2>2, <2>3
<1>7. 1 \in Levels /\ Level(g, 0) = 1
  BY Halves DEF Level
<1>8. 0 \in 0 .. Len(w.tables)
  BY WorldParts DEF Good
<1> QED BY <1>1, <1>6, <1>7, <1>8, EnterGood

-----------------------------------------------------------------------------
(* The state as worlds: a saved half with the lower tables.                *)

LEMMA WorldIs ==
  ASSUME NEW f, NEW ts
  PROVE  \E w : w = [root |-> f, tables |-> ts] /\ w.root = f /\ w.tables = ts
<1>1. PICK w : w = [root |-> f, tables |-> ts]
  OBVIOUS
<1>2. w.root = f /\ w.tables = ts
  BY <1>1
<1> QED BY <1>1, <1>2

LEMMA GoodIs ==
  ASSUME NEW f \in [Top -> Entry] \cup [Bottom -> Entry], NEW ts, NEW o, NEW g,
         TablesFit(ts, g), \A i \in DOMAIN f : Fits(f[i], 1, o, g)
  PROVE  Good([root |-> f, tables |-> ts], o, g)
<1>1. PICK w : w = [root |-> f, tables |-> ts] /\ w.root = f /\ w.tables = ts
  BY WorldIs
<1>2. ts \in Seq(Table) /\ g \in Shapes(Len(ts)) /\ w \in World
  BY <1>1 DEF TablesFit, World
<1>3. ASSUME NEW t \in 0 .. Len(ts), NEW i \in DOMAIN Tab(w, t)
      PROVE  Fits(Tab(w, t)[i], Level(g, t), Owner(g, o, t), g)
  <2>1. CASE t = 0
    BY <1>1, <1>3, <2>1 DEF Tab, Level, Owner
  <2>2. CASE t # 0
    <3>1. t \in 1 .. Len(ts) /\ Tab(w, t) = ts[t] /\ DOMAIN Tab(w, t) = 0 .. Entries - 1
      BY <1>1, <1>2, <2>2, TabParts DEF Tab
    <3> QED BY <1>3, <2>2, <3>1 DEF Level, Owner, TablesFit
  <2> QED BY <2>1, <2>2
<1> QED BY <1>1, <1>2, <1>3 DEF Good

LEMMA GoodGives ==
  ASSUME NEW w, NEW o, NEW g, Good(w, o, g)
  PROVE  TablesFit(w.tables, g) /\ \A i \in DOMAIN w.root : Fits(w.root[i], 1, o, g)
<1>1. w \in World /\ g \in Shapes(Len(w.tables)) /\ w.tables \in Seq(Table) /\ Len(w.tables) \in Nat
  BY WorldParts DEF Good
<1>2. ASSUME NEW t \in 1 .. Len(w.tables), NEW i \in 0 .. Entries - 1
      PROVE  Fits(w.tables[t][i], g.lv[t], g.of[t], g)
  <2>1. t \in 0 .. Len(w.tables) /\ t # 0
    BY <1>1
  <2>2. Tab(w, t) = w.tables[t] /\ DOMAIN Tab(w, t) = 0 .. Entries - 1
    BY <1>1, <2>1, TabParts DEF Tab
  <2> QED BY <1>2, <2>1, <2>2 DEF Good, Level, Owner
<1>3. ASSUME NEW i \in DOMAIN w.root PROVE Fits(w.root[i], 1, o, g)
  <2>1. 0 \in 0 .. Len(w.tables)
    BY <1>1
  <2> QED BY <1>3, <2>1 DEF Good, Tab, Level, Owner
<1> QED BY <1>1, <1>2, <1>3 DEF TablesFit

(* No top-level entry maps a page: one in use refers to a table.           *)
LEMMA RootEntries ==
  ASSUME NEW o, NEW n \in Nat, NEW g \in Shapes(n), NEW e, Fits(e, 1, o, g)
  PROVE  /\ e.present => \E m \in DOMAIN g.lv : e = TableEntry(m) /\ g.of[m] = o
         /\ e.present => ~e.large /\ e.addr # 0
         /\ e \in Entry
<1>1. CASE e = Empty
  BY <1>1, NoEntriesTable DEF Empty
<1>2. CASE e # Empty
  <2>1. PICK m \in DOMAIN g.lv : e = TableEntry(m) /\ g.of[m] = o
    BY <1>2, LevelsAssumption DEF Fits
  <2>2. m \in Nat /\ m > 0
    <3>1. DOMAIN g.lv = 1 .. n
      BY DEF Shapes
    <3> QED BY <3>1
  <2> QED BY <2>1, <2>2, TableEntries
<1> QED BY <1>1, <1>2

(* What a request leaves of a saved half and of the lower tables.          *)
InUseStay(f, r) == \A i \in DOMAIN f : f[i].present => r[i] = f[i]

LEMMA RequestMaps ==
  ASSUME NEW f \in [Top -> Entry] \cup [Bottom -> Entry], NEW ts, NEW o \in Owners, NEW g,
         TablesFit(ts, g), \A i \in DOMAIN f : Fits(f[i], 1, o, g), NEW q \in Request
  PROVE  LET v == MapSt([root |-> f, tables |-> ts], q).w IN
         \E h \in Shapes(Len(v.tables)) :
           /\ TablesFit(v.tables, h) /\ Len(ts) \in Nat /\ Len(v.tables) \in Nat
           /\ Len(ts) <= Len(v.tables) /\ Extends(g, h, Len(ts))
           /\ v.root \in [DOMAIN f -> Entry]
           /\ \A i \in DOMAIN f : Fits(v.root[i], 1, o, h)
           /\ InUseStay(f, v.root)
           /\ Grows([root |-> f, tables |-> ts], g, v, h)
<1>1. PICK w : w = [root |-> f, tables |-> ts] /\ w.root = f /\ w.tables = ts
  BY WorldIs
<1>2. Good(w, o, g)
  BY <1>1, GoodIs
<1>3. PICK v : v = MapSt(w, q).w
  OBVIOUS
<1>4. PICK h : Good(v, o, h) /\ Grows(w, g, v, h)
  BY <1>2, <1>3, MapStGood DEF After
<1>5. v \in World /\ h \in Shapes(Len(v.tables)) /\ Len(v.tables) \in Nat /\ w \in World
  BY <1>2, <1>4, WorldParts DEF Good
<1>6. TablesFit(v.tables, h) /\ \A i \in DOMAIN v.root : Fits(v.root[i], 1, o, h)
  BY <1>4, GoodGives
<1>7. 0 \in 0 .. Len(ts) /\ Len(ts) \in Nat
  BY <1>1, <1>5, WorldParts
<1>8. DOMAIN v.root = DOMAIN f /\ \A i \in DOMAIN f : Keeps(f[i], v.root[i])
  BY <1>1, <1>4, <1>7 DEF Grows, Tab
<1>9. InUseStay(f, v.root)
  <2>1. ASSUME NEW i \in DOMAIN f, f[i].present PROVE ~f[i].large
    <3>1. g \in Shapes(Len(ts)) /\ Fits(f[i], 1, o, g) /\ Len(ts) \in Nat
      BY <1>7 DEF TablesFit
    <3> QED BY <2>1, <3>1, RootEntries
  <2> QED BY <1>8, <2>1 DEF Keeps, InUseStay
<1>10. v.root \in [DOMAIN f -> Entry]
  BY <1>5, <1>8, WorldParts
<1>11. Len(ts) <= Len(v.tables) /\ Extends(g, h, Len(ts))
  BY <1>1, <1>4 DEF Grows
<1> QED BY <1>1, <1>3, <1>4, <1>5, <1>6, <1>7, <1>8, <1>9, <1>10, <1>11

(* The half of a core's table that is replaced, and the other.             *)
LEMMA WithParts ==
  ASSUME NEW f \in Table, NEW top \in [Top -> Entry], NEW bottom \in [Bottom -> Entry]
  PROVE  /\ WithKernel(f, top) \in Table /\ WithUser(f, bottom) \in Table
         /\ \A i \in Top : WithKernel(f, top)[i] = top[i] /\ WithUser(f, bottom)[i] = f[i]
         /\ \A i \in Bottom : WithKernel(f, top)[i] = f[i] /\ WithUser(f, bottom)[i] = bottom[i]
<1>1. DOMAIN f = 0 .. Entries - 1 /\ \A i \in 0 .. Entries - 1 : f[i] \in Entry
  BY DEF Table
<1>2. \A i \in Bottom : i \notin Top /\ i \in 0 .. Entries - 1
  BY Halves
<1>3. \A i \in Top : i \in 0 .. Entries - 1
  BY Halves
<1>4. \A i \in 0 .. Entries - 1 : i \in Top \/ i \in Bottom
  BY Halves
<1>5. WithKernel(f, top) \in Table
  BY <1>1 DEF WithKernel, Table
<1>6. WithUser(f, bottom) \in Table
  BY <1>1, <1>4 DEF WithUser, Table
<1> QED BY <1>1, <1>2, <1>3, <1>5, <1>6 DEF WithKernel, WithUser

(* What referred to tables of its owner does so when there are more.       *)
LEMMA FitMore ==
  ASSUME NEW ts \in Seq(Table), NEW us \in Seq(Table), NEW g, NEW h, TablesFit(ts, g),
         TablesFit(us, h), Len(ts) <= Len(us), Extends(g, h, Len(ts)),
         NEW e, NEW o, Fits(e, 1, o, g)
  PROVE  Fits(e, 1, o, h)
<1>1. PICK n \in Nat, m \in Nat : n = Len(ts) /\ m = Len(us) /\ n <= m
  OBVIOUS
<1>2. g \in Shapes(n) /\ h \in Shapes(m)
  BY <1>1 DEF TablesFit
<1> QED BY <1>1, <1>2, FitsMore

-----------------------------------------------------------------------------
(* VmInv holds, and every step keeps it.                                   *)

LEMMA RootsMore ==
  ASSUME NEW us \in Seq(Table), NEW g, NEW h, TablesFit(tables, g), TablesFit(us, h),
         Len(tables) <= Len(us), Extends(g, h, Len(tables)), RootsFit(g)
  PROVE  RootsFit(h)
<1>1. tables \in Seq(Table)
  BY DEF TablesFit
<1>2. ASSUME NEW e, NEW o, Fits(e, 1, o, g) PROVE Fits(e, 1, o, h)
  BY <1>1, <1>2, FitMore
<1> QED BY <1>2 DEF RootsFit

LEMMA InitGood ==
  \E g \in Shapes(Len(Booted.tables)) :
    /\ TablesFit(Booted.tables, g) /\ Booted.root \in [Top -> Entry]
    /\ \A i \in Top : Fits(Booted.root[i], 1, NoVm, g)
<1>1. PICK g : g = [lv |-> [t \in 1 .. 0 |-> 2], of |-> [t \in 1 .. 0 |-> NoVm]]
  OBVIOUS
<1>2. PICK f, ts : f = NoEntries(Top) /\ ts = <<>>
  OBVIOUS
<1>3. ts \in Seq(Table) /\ Len(ts) = 0
  BY <1>2
<1>4. 1 .. 0 = {}
  OBVIOUS
<1>5. g \in Shapes(0)
  BY <1>1, <1>4 DEF Shapes
<1>6. TablesFit(ts, g)
  BY <1>3, <1>4, <1>5 DEF TablesFit
<1>7. f \in [Top -> Entry] /\ \A i \in DOMAIN f : Fits(f[i], 1, NoVm, g)
  BY <1>2, NoEntriesTable DEF NoEntries, Fits
<1>8. BootMap \in Request /\ NoVm \in Owners
  BY RequestsAssumption DEF Owners
<1>9. PICK v : v = MapSt([root |-> f, tables |-> ts], BootMap).w
  OBVIOUS
<1>10. \E h \in Shapes(Len(v.tables)) :
         /\ TablesFit(v.tables, h) /\ v.root \in [DOMAIN f -> Entry]
         /\ \A i \in DOMAIN f : Fits(v.root[i], 1, NoVm, h)
  BY <1>6, <1>7, <1>8, <1>9, RequestMaps
<1>11. Booted = v
  BY <1>2, <1>9 DEF Booted
<1>12. DOMAIN f = Top
  BY <1>7
<1> QED BY <1>10, <1>11, <1>12

LEMMA InitInv == Init => VmInv
<1> SUFFICES ASSUME Init PROVE VmInv
  OBVIOUS
<1> USE DEF Init
<1> DEFINE empty == NoEntries(0 .. Entries - 1)
<1>1. PICK g \in Shapes(Len(tables)) :
        /\ TablesFit(tables, g) /\ kmem \in [Top -> Entry]
        /\ \A i \in Top : Fits(kmem[i], 1, NoVm, g)
  BY InitGood
<1>2. empty \in Table /\ NoEntries(Bottom) \in [Bottom -> Entry]
  BY NoEntriesTable DEF NoEntries
<1>3. /\ \A i \in Top : empty[i] = Empty
      /\ \A i \in Bottom : NoEntries(Bottom)[i] = Empty
  BY Halves DEF NoEntries
<1> HIDE DEF empty
<1>4. /\ WithKernel(empty, kmem) \in Table
      /\ \A i \in Top : WithKernel(empty, kmem)[i] = kmem[i]
  BY <1>1, <1>2, WithParts
<1>5. \A c \in Cores : ktable[c] = IF c = Bsp THEN WithKernel(empty, kmem) ELSE empty
  BY DEF empty
<1>6. \A o, lv : Fits(Empty, lv, o, g)
  BY DEF Fits
<1>7. RootsFit(g)
  <2>1. vmem \in [Vms -> [Bottom -> Entry]] /\ \A v \in Vms : \A i \in Bottom : vmem[v][i] = Empty
    BY <1>2, <1>3
  <2>2. ktable \in [Cores -> Table]
    BY <1>2, <1>4 DEF empty
  <2>3. \A c \in Cores : \A i \in Top : Fits(ktable[c][i], 1, NoVm, g)
    BY <1>1, <1>3, <1>4, <1>5, <1>6
  <2>4. \A c \in Cores : cur_vmem[c] = NoVm
    OBVIOUS
  <2> QED BY <1>1, <1>6, <2>1, <2>2, <2>3, <2>4 DEF RootsFit
<1>8. CallsOrder
  BY CoresAssumption DEF CallsOrder, Owners
<1>9. KernelOrder
  <2>1. Bsp \in Cores /\ \A c \in online : c = Bsp
    BY CoresAssumption
  <2> QED BY <1>4, <1>5, <2>1 DEF KernelOrder
<1> QED BY <1>1, <1>7, <1>8, <1>9 DEF VmInv, TablesOwned

LEMMA MapKernelOwned ==
  ASSUME NEW g, TablesFit(tables, g), RootsFit(g), NEW c \in Cores, NEW q \in KernelMaps,
         MapKernel(c, q)
  PROVE  TablesOwned' /\ \A i \in Top : kmem[i].present => kmem'[i] = kmem[i]
<1>1. kmem \in [Top -> Entry] /\ \A i \in Top : Fits(kmem[i], 1, NoVm, g)
  BY DEF RootsFit
<1>2. q \in Request /\ NoVm \in Owners /\ DOMAIN kmem = Top
  BY <1>1, RequestsAssumption DEF Owners
<1>3. PICK v : v = MapSt([root |-> kmem, tables |-> tables], q).w
  OBVIOUS
<1>4. kmem' = v.root /\ tables' = v.tables
  BY <1>3 DEF MapKernel, KernelResult
<1>5. PICK h \in Shapes(Len(v.tables)) :
        /\ TablesFit(v.tables, h) /\ Len(tables) <= Len(v.tables) /\ Extends(g, h, Len(tables))
        /\ v.root \in [Top -> Entry]
        /\ \A i \in Top : Fits(v.root[i], 1, NoVm, h) /\ (kmem[i].present => v.root[i] = kmem[i])
  <2>1. InUseStay(kmem, v.root) <=> \A i \in Top : kmem[i].present => v.root[i] = kmem[i]
    BY <1>2 DEF InUseStay
  <2>2. PICK h \in Shapes(Len(v.tables)) :
          /\ TablesFit(v.tables, h) /\ Len(tables) <= Len(v.tables) /\ Extends(g, h, Len(tables))
          /\ v.root \in [Top -> Entry] /\ InUseStay(kmem, v.root)
          /\ \A i \in Top : Fits(v.root[i], 1, NoVm, h)
    BY <1>1, <1>2, <1>3, RequestMaps
  <2> QED BY <2>1, <2>2
<1>6. RootsFit(h)
  BY <1>5, RootsMore DEF TablesFit
<1>7. /\ ktable' = [ktable EXCEPT ![c] = WithKernel(ktable[c], kmem')]
      /\ vmem' = vmem /\ cur_vmem' = cur_vmem
  BY DEF MapKernel, Refresh
<1>8. ktable \in [Cores -> Table] /\ ktable[c] \in Table
  BY DEF RootsFit
<1>9. PICK f : f = WithKernel(ktable[c], kmem')
  OBVIOUS
<1>10. f \in Table /\ (\A i \in Top : f[i] = kmem'[i]) /\ \A i \in Bottom : f[i] = ktable[c][i]
  <2>1. NoEntries(Bottom) \in [Bottom -> Entry]
    BY NoEntriesTable DEF NoEntries
  <2> QED BY <1>4, <1>5, <1>8, <1>9, <2>1, WithParts
<1>11. \A d \in Cores : ktable'[d] = IF d = c THEN f ELSE ktable[d]
  BY <1>7, <1>8, <1>9
<1>12. ktable' \in [Cores -> Table]
  BY <1>7, <1>8, <1>9, <1>10
<1>13. ASSUME NEW d \in Cores, NEW i \in Top PROVE Fits(ktable'[d][i], 1, NoVm, h)
  BY <1>4, <1>5, <1>6, <1>10, <1>11 DEF RootsFit
<1>14. ASSUME NEW d \in Cores, NEW i \in Bottom, cur_vmem'[d] # NoVm
       PROVE  Fits(ktable'[d][i], 1, cur_vmem'[d], h)
  BY <1>6, <1>7, <1>10, <1>11, <1>14 DEF RootsFit
<1>15. RootsFit(h)'
  BY <1>4, <1>5, <1>6, <1>7, <1>12, <1>13, <1>14 DEF RootsFit
<1> QED BY <1>4, <1>5, <1>15 DEF TablesOwned

LEMMA MapUserOwned ==
  ASSUME NEW g, TablesFit(tables, g), RootsFit(g), NEW c \in Cores, NEW v \in Vms,
         NEW q \in UserMaps, MapUser(c, v, q)
  PROVE  TablesOwned'
<1>1. vmem \in [Vms -> [Bottom -> Entry]] /\ \A i \in Bottom : Fits(vmem[v][i], 1, v, g)
  BY DEF RootsFit
<1>2. q \in Request /\ v \in Owners /\ DOMAIN vmem[v] = Bottom /\ vmem[v] \in [Bottom -> Entry]
  BY <1>1, RequestsAssumption DEF Owners
<1>3. PICK u : u = MapSt([root |-> vmem[v], tables |-> tables], q).w
  OBVIOUS
<1>4. vmem' = [vmem EXCEPT ![v] = u.root] /\ tables' = u.tables
  BY <1>3 DEF MapUser, UserResult
<1>5. PICK h \in Shapes(Len(u.tables)) :
        /\ TablesFit(u.tables, h) /\ Len(tables) <= Len(u.tables) /\ Extends(g, h, Len(tables))
        /\ u.root \in [Bottom -> Entry]
        /\ \A i \in Bottom : Fits(u.root[i], 1, v, h)
  BY <1>1, <1>2, <1>3, RequestMaps
<1>6. RootsFit(h)
  BY <1>5, RootsMore DEF TablesFit
<1>7. kmem' = kmem /\ ktable' = ktable /\ cur_vmem' = cur_vmem
  BY DEF MapUser
<1>8. /\ vmem' \in [Vms -> [Bottom -> Entry]]
      /\ \A w \in Vms : vmem'[w] = IF w = v THEN u.root ELSE vmem[w]
  BY <1>1, <1>4, <1>5
<1>9. ASSUME NEW w \in Vms, NEW i \in Bottom PROVE Fits(vmem'[w][i], 1, w, h)
  BY <1>5, <1>6, <1>8 DEF RootsFit
<1>10. RootsFit(h)'
  BY <1>6, <1>7, <1>8, <1>9 DEF RootsFit
<1> QED BY <1>4, <1>5, <1>10 DEF TablesOwned

(* The steps that allocate no table.                                       *)
LEMMA OtherOwned ==
  ASSUME NEW g \in Shapes(Len(tables)), TablesFit(tables, g), RootsFit(g), CallsOrder,
         NEW c \in Cores,
         \/ MpInit(c) \/ UnmapKernel(c) \/ SaveUser(c) \/ SaveKernel(c) \/ Load(c)
  PROVE  TablesOwned'
<1>1. /\ kmem \in [Top -> Entry] /\ vmem \in [Vms -> [Bottom -> Entry]]
      /\ ktable \in [Cores -> Table] /\ ktable[c] \in Table
      /\ \A i \in Top : Fits(kmem[i], 1, NoVm, g) /\ Fits(ktable[c][i], 1, NoVm, g)
      /\ \A v \in Vms, i \in Bottom : Fits(vmem[v][i], 1, v, g)
      /\ \A i \in Bottom : cur_vmem[c] # NoVm => Fits(ktable[c][i], 1, cur_vmem[c], g)
      /\ cur_vmem \in [Cores -> Owners] /\ arg \in [Cores -> Owners]
  BY DEF RootsFit, CallsOrder
<1>2. \A i \in Top \cup Bottom : i \in 0 .. Entries - 1
  BY Halves
<1>3. NoEntries(Bottom) \in [Bottom -> Entry] /\ NoEntries(0 .. Entries - 1) \in Table
  BY NoEntriesTable DEF NoEntries
(* One core's table has changed, and maybe the space that it runs in.      *)
<1>4. ASSUME NEW f \in Table, ktable' = [ktable EXCEPT ![c] = f], kmem' = kmem, vmem' = vmem,
             tables' = tables, \A i \in Top : Fits(f[i], 1, NoVm, g),
             cur_vmem' \in [Cores -> Owners], \A d \in Cores \ {c} : cur_vmem'[d] = cur_vmem[d],
             \A i \in Bottom : cur_vmem'[c] # NoVm => Fits(f[i], 1, cur_vmem'[c], g)
      PROVE  TablesOwned'
  <2>1. \A d \in Cores : ktable'[d] = IF d = c THEN f ELSE ktable[d]
    BY <1>1, <1>4
  <2>2. ktable' \in [Cores -> Table]
    BY <1>1, <1>4
  <2>3. ASSUME NEW d \in Cores, NEW i \in Top PROVE Fits(ktable'[d][i], 1, NoVm, g)
    BY <1>4, <2>1 DEF RootsFit
  <2>4. ASSUME NEW d \in Cores, NEW i \in Bottom, cur_vmem'[d] # NoVm
        PROVE  Fits(ktable'[d][i], 1, cur_vmem'[d], g)
    <3>1. CASE d = c
      BY <1>4, <2>1, <2>4, <3>1
    <3>2. CASE d # c
      BY <1>4, <2>1, <2>4, <3>2 DEF RootsFit
    <3> QED BY <3>1, <3>2
  <2>5. RootsFit(g)'
    BY <1>4, <2>2, <2>3, <2>4 DEF RootsFit
  <2> QED BY <1>4, <2>5 DEF TablesOwned
(* The tables of cores stay.                                               *)
<1>5. ASSUME ktable' = ktable, cur_vmem' = cur_vmem, tables' = tables,
             kmem' \in [Top -> Entry], \A i \in Top : Fits(kmem'[i], 1, NoVm, g),
             vmem' \in [Vms -> [Bottom -> Entry]],
             \A v \in Vms, i \in Bottom : Fits(vmem'[v][i], 1, v, g)
      PROVE  TablesOwned'
  BY <1>5 DEF TablesOwned, RootsFit
<1>6. CASE MpInit(c)
  <2>1. PICK f \in Table : /\ f = WithKernel(NoEntries(0 .. Entries - 1), kmem)
                           /\ \A i \in Top : f[i] = kmem[i]
                           /\ \A i \in Bottom : f[i] = Empty
    <3>1. PICK e \in Table : e = NoEntries(0 .. Entries - 1) /\ \A i \in Bottom : e[i] = Empty
      BY <1>2, <1>3 DEF NoEntries
    <3>2. PICK f : f = WithKernel(e, kmem)
      OBVIOUS
    <3>3. f \in Table /\ (\A i \in Top : f[i] = kmem[i]) /\ \A i \in Bottom : f[i] = e[i]
      BY <1>1, <1>3, <3>1, <3>2, WithParts
    <3> QED BY <3>1, <3>2, <3>3
  <2>2. \A i \in Bottom, o \in Owners : Fits(f[i], 1, o, g)
    BY <2>1 DEF Fits
  <2> QED BY <1>1, <1>4, <1>6, <2>1, <2>2 DEF MpInit, spaces
<1>7. CASE UnmapKernel(c)
  <2>1. PICK f \in Table : /\ f = WithKernel(ktable[c], kmem)
                           /\ \A i \in Top : f[i] = kmem[i]
                           /\ \A i \in Bottom : f[i] = ktable[c][i]
    BY <1>1, <1>3, WithParts
  <2>2. kmem' = kmem /\ vmem' = vmem /\ tables' = tables /\ cur_vmem' = cur_vmem
    BY <1>7 DEF UnmapKernel, spaces
  <2>3. ktable' = [ktable EXCEPT ![c] = f]
    BY <1>7, <2>1, <2>2 DEF UnmapKernel, Refresh
  <2> QED BY <1>1, <1>4, <2>1, <2>2, <2>3
<1>8. CASE SaveUser(c)
  <2>1. /\ kmem' = kmem /\ tables' = tables /\ ktable' = ktable /\ cur_vmem' = cur_vmem
        /\ vmem' = IF cur_vmem[c] = NoVm THEN vmem
                   ELSE [vmem EXCEPT ![cur_vmem[c]] = [i \in Bottom |-> ktable[c][i]]]
    BY <1>8 DEF SaveUser
  <2>2. CASE cur_vmem[c] = NoVm
    BY <1>1, <1>5, <2>1, <2>2
  <2>3. CASE cur_vmem[c] # NoVm
    <3>1. PICK v \in Vms : v = cur_vmem[c]
      BY <1>1, <2>3 DEF Owners
    <3>2. PICK f : f = [i \in Bottom |-> ktable[c][i]]
      OBVIOUS
    <3>3. f \in [Bottom -> Entry]
      BY <1>1, <1>2, <3>2 DEF Table
    <3>4. vmem' = [vmem EXCEPT ![v] = f]
      BY <2>1, <2>3, <3>1, <3>2
    <3>5. /\ vmem' \in [Vms -> [Bottom -> Entry]]
          /\ \A u \in Vms : vmem'[u] = IF u = v THEN f ELSE vmem[u]
      BY <1>1, <3>3, <3>4
    <3>6. \A u \in Vms, i \in Bottom : Fits(vmem'[u][i], 1, u, g)
      BY <1>1, <2>3, <3>1, <3>2, <3>5
    <3> QED BY <1>1, <1>5, <2>1, <3>5, <3>6
  <2> QED BY <2>2, <2>3
<1>9. CASE SaveKernel(c)
  <2>1. /\ vmem' = vmem /\ tables' = tables /\ ktable' = ktable /\ cur_vmem' = cur_vmem
        /\ kmem' = [i \in Top |-> ktable[c][i]]
    BY <1>9 DEF SaveKernel
  <2>2. kmem' \in [Top -> Entry] /\ \A i \in Top : Fits(kmem'[i], 1, NoVm, g)
    BY <1>1, <1>2, <2>1 DEF Table
  <2> QED BY <1>1, <1>5, <2>1, <2>2
<1>10. CASE Load(c)
  <2>1. PICK v \in Vms : v = arg[c]
    BY <1>1, <1>10 DEF Load, CallsOrder, Owners
  <2>2. PICK f \in Table : /\ f = WithUser(ktable[c], vmem[v])
                           /\ \A i \in Top : f[i] = ktable[c][i]
                           /\ \A i \in Bottom : f[i] = vmem[v][i]
    BY <1>1, WithParts
  <2>3. /\ kmem' = kmem /\ vmem' = vmem /\ tables' = tables
        /\ ktable' = [ktable EXCEPT ![c] = f] /\ cur_vmem' = [cur_vmem EXCEPT ![c] = v]
    BY <1>10, <2>1, <2>2 DEF Load, spaces
  <2>4. /\ cur_vmem' \in [Cores -> Owners] /\ cur_vmem'[c] = v
        /\ \A d \in Cores \ {c} : cur_vmem'[d] = cur_vmem[d]
    BY <1>1, <2>3 DEF Owners
  <2> QED BY <1>1, <1>4, <2>2, <2>3, <2>4
<1> QED BY <1>6, <1>7, <1>8, <1>9, <1>10

LEMMA StepOwned == TablesOwned /\ CallsOrder /\ [Next]_vars => TablesOwned'
<1> SUFFICES ASSUME TablesOwned, CallsOrder, [Next]_vars PROVE TablesOwned'
  OBVIOUS
<1>1. PICK g \in Shapes(Len(tables)) : TablesFit(tables, g) /\ RootsFit(g)
  BY DEF TablesOwned
<1>2. ASSUME UNCHANGED <<spaces, ktable, cur_vmem>> PROVE TablesOwned'
  BY <1>1, <1>2 DEF TablesOwned, RootsFit, spaces
<1>3. ASSUME NEW c \in Cores, NEW v \in Vms,
             Create(c, v) \/ SetActive(c, v)
      PROVE  UNCHANGED <<spaces, ktable, cur_vmem>>
  BY <1>3 DEF Create, SetActive
<1>4. ASSUME NEW c \in Cores, Save(c) PROVE UNCHANGED <<spaces, ktable, cur_vmem>>
  BY <1>4 DEF Save
<1>5. CASE UNCHANGED vars
  BY <1>2, <1>5 DEF vars
<1>6. CASE Next
  <2>1. PICK c \in Cores :
          \/ MpInit(c)
          \/ \E q \in KernelMaps : MapKernel(c, q)
          \/ \E v \in Vms, q \in UserMaps : MapUser(c, v, q)
          \/ UnmapKernel(c)
          \/ \E v \in Vms : Create(c, v)
          \/ Save(c) \/ SaveUser(c) \/ SaveKernel(c)
          \/ \E v \in Vms : SetActive(c, v)
          \/ Load(c)
    BY <1>6 DEF Next
  <2>2. CASE MpInit(c) \/ UnmapKernel(c) \/ SaveUser(c) \/ SaveKernel(c) \/ Load(c)
    BY <1>1, <2>2, OtherOwned
  <2>3. CASE \E q \in KernelMaps : MapKernel(c, q)
    BY <1>1, <2>3, MapKernelOwned
  <2>4. CASE \E v \in Vms, q \in UserMaps : MapUser(c, v, q)
    BY <1>1, <2>4, MapUserOwned
  <2>5. CASE (\E v \in Vms : Create(c, v) \/ SetActive(c, v)) \/ Save(c)
    BY <1>2, <1>3, <1>4, <2>5
  <2> QED BY <2>1, <2>2, <2>3, <2>4, <2>5
<1> QED BY <1>5, <1>6

LEMMA StepCalls == CallsOrder /\ [Next]_vars => CallsOrder'
<1> SUFFICES ASSUME CallsOrder, [Next]_vars PROVE CallsOrder'
  OBVIOUS
<1> USE DEF CallsOrder
<1>1. CASE UNCHANGED vars
  BY <1>1 DEF vars, spaces, calls
<1>2. ASSUME NEW c \in Cores, MpInit(c) PROVE CallsOrder'
  BY <1>2 DEF MpInit, calls
<1>3. ASSUME NEW c \in Cores, NEW q \in KernelMaps, MapKernel(c, q) PROVE CallsOrder'
  BY <1>3 DEF MapKernel, calls
<1>4. ASSUME NEW c \in Cores, NEW v \in Vms, NEW q \in UserMaps, MapUser(c, v, q) PROVE CallsOrder'
  BY <1>4 DEF MapUser, calls
<1>5. ASSUME NEW c \in Cores, UnmapKernel(c) PROVE CallsOrder'
  BY <1>5 DEF UnmapKernel, calls
<1>6. ASSUME NEW c \in Cores, NEW v \in Vms, Create(c, v) PROVE CallsOrder'
  BY <1>6 DEF Create, calls
<1>7. ASSUME NEW c \in Cores, Save(c) PROVE CallsOrder'
  BY <1>7 DEF Save, Idle
<1>8. ASSUME NEW c \in Cores, SaveUser(c) PROVE CallsOrder'
  BY <1>8 DEF SaveUser
<1>9. ASSUME NEW c \in Cores, SaveKernel(c) PROVE CallsOrder'
  BY <1>9 DEF SaveKernel
<1>10. ASSUME NEW c \in Cores, NEW v \in Vms, SetActive(c, v) PROVE CallsOrder'
  BY <1>10 DEF SetActive, Idle, Owners
<1>11. ASSUME NEW c \in Cores, Load(c) PROVE CallsOrder'
  BY <1>11, CoresAssumption DEF Load, Owners
<1> QED BY <1>1, <1>2, <1>3, <1>4, <1>5, <1>6, <1>7, <1>8, <1>9, <1>10, <1>11 DEF Next

LEMMA StepKernel == VmInv /\ [Next]_vars => KernelOrder'
<1> SUFFICES ASSUME VmInv, [Next]_vars PROVE KernelOrder'
  OBVIOUS
<1> USE DEF VmInv
<1>1. PICK g \in Shapes(Len(tables)) : TablesFit(tables, g) /\ RootsFit(g)
  BY DEF TablesOwned
<1>2. /\ kmem \in [Top -> Entry] /\ vmem \in [Vms -> [Bottom -> Entry]]
      /\ ktable \in [Cores -> Table] /\ Bsp \in Cores /\ Bsp \in online
      /\ arg \in [Cores -> Owners]
  BY <1>1, CoresAssumption DEF RootsFit, CallsOrder
<1>3. NoEntries(Bottom) \in [Bottom -> Entry] /\ NoEntries(0 .. Entries - 1) \in Table
  BY NoEntriesTable DEF NoEntries
<1>4. ASSUME UNCHANGED <<kmem, ktable, online, dropped>> PROVE KernelOrder'
  BY <1>4 DEF KernelOrder
<1>5. ASSUME NEW c \in Cores, MpInit(c) PROVE KernelOrder'
  <2>1. PICK f \in Table : /\ f = WithKernel(NoEntries(0 .. Entries - 1), kmem)
                           /\ \A i \in Top : f[i] = kmem[i]
    BY <1>2, <1>3, WithParts
  <2>2. /\ kmem' = kmem /\ dropped' = dropped /\ online' = online \cup {c} /\ c \notin online
        /\ ktable' = [ktable EXCEPT ![c] = f]
    BY <1>5, <2>1 DEF MpInit, spaces
  <2>3. \A d \in Cores : ktable'[d] = IF d = c THEN f ELSE ktable[d]
    BY <1>2, <2>2
  <2>4. online' # {Bsp}
    BY <1>2, <2>2
  <2>5. \A d \in online' : d = c \/ d \in online
    BY <2>2
  <2>6. ASSUME NEW d \in online', d \notin Cores PROVE ktable'[d] = ktable[d] \/ d = c
    BY <1>2, <1>5, <2>2
  <2>7. ~dropped' => \A d \in online', i \in Top : ktable'[d][i].present => ktable'[d][i] = kmem'[i]
    <3> SUFFICES ASSUME ~dropped', NEW d \in online', NEW i \in Top, ktable'[d][i].present
                 PROVE  ktable'[d][i] = kmem'[i]
      OBVIOUS
    <3>1. CASE d = c
      BY <1>5, <2>1, <2>2, <2>3, <3>1
    <3>2. CASE d # c
      BY <2>2, <2>3, <2>5, <2>6, <3>2 DEF KernelOrder
    <3> QED BY <3>1, <3>2
  <2> QED BY <2>4, <2>7 DEF KernelOrder
(* The calling core takes over the kernel half, which has lost nothing.    *)
<1>6. ASSUME NEW c \in Cores, Idle(c), Refresh(c), kmem' \in [Top -> Entry],
             online' = online, dropped' = dropped,
             \A i \in Top : kmem[i].present => kmem'[i] = kmem[i]
      PROVE  KernelOrder'
  <2>1. PICK f \in Table : f = WithKernel(ktable[c], kmem') /\ \A i \in Top : f[i] = kmem'[i]
    BY <1>2, <1>3, <1>6, WithParts
  <2>2. ktable' = [ktable EXCEPT ![c] = f]
    BY <1>6, <2>1 DEF Refresh
  <2>3. ktable'[c] = f /\ \A d : d # c => ktable'[d] = ktable[d]
    BY <1>2, <2>2
  <2>4. ASSUME ~dropped', NEW d \in online', NEW i \in Top, ktable'[d][i].present
        PROVE  ktable'[d][i] = kmem'[i]
    <3>1. CASE d = c
      BY <2>1, <2>3, <3>1
    <3>2. CASE d # c
      <4>1. ktable[d][i].present /\ ktable[d][i] = kmem[i]
        BY <1>6, <2>3, <2>4, <3>2 DEF KernelOrder
      <4> QED BY <1>6, <2>3, <3>2, <4>1
    <3> QED BY <3>1, <3>2
  <2>5. online' = {Bsp} => ~dropped' /\ \A i \in Top : ktable'[Bsp][i] = kmem'[i]
    BY <1>6, <2>1, <2>3 DEF KernelOrder, Idle
  <2> QED BY <2>4, <2>5 DEF KernelOrder
<1>7. ASSUME NEW c \in Cores, NEW q \in KernelMaps, MapKernel(c, q) PROVE KernelOrder'
  <2>1. TablesOwned' /\ \A i \in Top : kmem[i].present => kmem'[i] = kmem[i]
    BY <1>1, <1>7, MapKernelOwned
  <2>2. kmem' \in [Top -> Entry]
    BY <2>1 DEF TablesOwned, RootsFit
  <2> QED BY <1>6, <1>7, <2>1, <2>2 DEF MapKernel
<1>8. ASSUME NEW c \in Cores, UnmapKernel(c) PROVE KernelOrder'
  BY <1>2, <1>6, <1>8 DEF UnmapKernel, spaces
<1>9. ASSUME NEW c \in Cores, SaveKernel(c) PROVE KernelOrder'
  <2>1. /\ ktable' = ktable /\ online' = online /\ kmem' = [i \in Top |-> ktable[c][i]]
        /\ dropped' = (dropped \/ \E i \in Top : kmem[i].present /\ kmem'[i] # kmem[i])
    BY <1>9 DEF SaveKernel
  <2>2. c \in online
    BY <1>9 DEF SaveKernel, CallsOrder
  <2>3. ASSUME ~dropped', NEW d \in online', NEW i \in Top, ktable'[d][i].present
        PROVE  ktable'[d][i] = kmem'[i]
    <3>1. ~dropped /\ (kmem[i].present => kmem'[i] = kmem[i])
      BY <2>1, <2>3
    <3>2. ktable[d][i].present /\ ktable[d][i] = kmem[i]
      BY <2>1, <2>3, <3>1 DEF KernelOrder
    <3> QED BY <2>1, <3>1, <3>2
  <2>4. ASSUME online' = {Bsp}
        PROVE  ~dropped' /\ \A i \in Top : ktable'[Bsp][i] = kmem'[i]
    <3>1. c = Bsp /\ ~dropped /\ \A i \in Top : ktable[Bsp][i] = kmem[i]
      BY <2>1, <2>2, <2>4 DEF KernelOrder
    <3>2. \A i \in Top : kmem'[i] = kmem[i]
      BY <2>1, <3>1
    <3> QED BY <2>1, <3>1, <3>2
  <2> QED BY <2>3, <2>4 DEF KernelOrder
<1>10. ASSUME NEW c \in Cores, Load(c) PROVE KernelOrder'
  <2>1. PICK v \in Vms : v = arg[c]
    BY <1>2, <1>10 DEF Load, CallsOrder, Owners
  <2>2. PICK f \in Table : f = WithUser(ktable[c], vmem[v]) /\ \A i \in Top : f[i] = ktable[c][i]
    BY <1>2, WithParts
  <2>3. /\ kmem' = kmem /\ online' = online /\ dropped' = dropped
        /\ ktable' = [ktable EXCEPT ![c] = f]
    BY <1>10, <2>1, <2>2 DEF Load, spaces
  <2>4. ktable'[c] = f /\ \A d : d # c => ktable'[d] = ktable[d]
    BY <1>2, <2>3
  <2>5. \A d, i : i \in Top => ktable'[d][i] = ktable[d][i]
    BY <2>2, <2>4
  <2> QED BY <2>3, <2>5 DEF KernelOrder
<1>11. CASE Next
  <2>1. PICK c \in Cores :
          \/ MpInit(c)
          \/ \E q \in KernelMaps : MapKernel(c, q)
          \/ \E v \in Vms, q \in UserMaps : MapUser(c, v, q)
          \/ UnmapKernel(c)
          \/ \E v \in Vms : Create(c, v)
          \/ Save(c) \/ SaveUser(c) \/ SaveKernel(c)
          \/ \E v \in Vms : SetActive(c, v)
          \/ Load(c)
    BY <1>11 DEF Next
  <2>2. CASE \E v \in Vms, q \in UserMaps : MapUser(c, v, q)
    BY <1>4, <2>2 DEF MapUser
  <2>3. CASE \E v \in Vms : Create(c, v) \/ SetActive(c, v)
    BY <1>4, <2>3 DEF Create, SetActive, spaces
  <2>4. CASE Save(c) \/ SaveUser(c)
    BY <1>4, <2>4 DEF Save, SaveUser, spaces
  <2> QED BY <1>5, <1>7, <1>8, <1>9, <1>10, <2>1, <2>2, <2>3, <2>4
<1>12. CASE UNCHANGED vars
  BY <1>4, <1>12 DEF vars, spaces
<1> QED BY <1>11, <1>12

(* Tables keep their level and their owner, whatever the cores do.         *)
THEOREM VmInvariant == Spec => []VmInv
<1>1. VmInv /\ [Next]_vars => VmInv'
  BY StepOwned, StepCalls, StepKernel DEF VmInv
<1> QED BY <1>1, InitInv, PTL DEF Spec

(* Address spaces share no tables with each other or with the kernel:      *)
(* vmem_map gives a table to one of them, and switching moves entries only *)
(* between the space in use and the core that uses it.                     *)
THEOREM Separation == Spec => []SpacesSeparate
<1>1. VmInv => SpacesSeparate
  <2> SUFFICES ASSUME VmInv PROVE SpacesSeparate
    OBVIOUS
  <2>1. PICK g \in Shapes(Len(tables)) : TablesFit(tables, g) /\ RootsFit(g)
    BY DEF VmInv, TablesOwned
  <2>2. tables \in Seq(Table)
    BY <2>1 DEF TablesFit
  <2>3. PICK n \in Nat : n = Len(tables)
    BY <2>2
  <2>4. ASSUME NEW o, NEW f, \A i \in DOMAIN f : Fits(f[i], 1, o, g), NEW t \in Referred(f)
        PROVE  g.of[t] = o
    <3>1. PICK i \in DOMAIN f : f[i].present /\ t = TableOf(f[i])
      BY <2>4 DEF Referred
    <3>2. PICK e : e = f[i] /\ Fits(e, 1, o, g) /\ e.present
      BY <2>4, <3>1
    <3>3. PICK m \in DOMAIN g.lv : e = TableEntry(m) /\ g.of[m] = o
      BY <2>3, <3>2, RootEntries
    <3>4. m \in Nat
      BY <2>3, <3>3 DEF Shapes
    <3>5. TableOf(e) = m
      BY <3>3, <3>4, TableEntries
    <3> QED BY <3>1, <3>2, <3>3, <3>5
  <2>5. \A v \in Vms : \A t \in Referred(vmem[v]) : g.of[t] = v
    <3> SUFFICES ASSUME NEW v \in Vms PROVE \A i \in DOMAIN vmem[v] : Fits(vmem[v][i], 1, v, g)
      BY <2>4
    <3>1. DOMAIN vmem[v] = Bottom
      BY <2>1 DEF RootsFit
    <3> QED BY <2>1, <3>1 DEF RootsFit
  <2>6. \A t \in Referred(kmem) : g.of[t] = NoVm
    <3>1. \A i \in DOMAIN kmem : Fits(kmem[i], 1, NoVm, g)
      BY <2>1 DEF RootsFit
    <3> QED BY <2>4, <3>1
  <2>7. \A v \in Vms : v # NoVm
    BY CoresAssumption
  <2> QED BY <2>5, <2>6, <2>7 DEF SpacesSeparate
<1> QED BY <1>1, VmInvariant, PTL

(* The cores' tables agree with kmem until a save has written a lagging    *)
(* one back, which cannot happen while the bootstrap processor is alone.   *)
THEOREM KernelAgreed == Spec => []KernelShared
<1>1. VmInv => KernelShared
  BY DEF VmInv, KernelOrder, KernelShared
<1> QED BY <1>1, VmInvariant, PTL

-----------------------------------------------------------------------------
(* vmem_virttophys_st, before and after tables have grown.                 *)

WalkAt(at, f, ts, virt, lv) ==
  IF lv = 1 THEN [e |-> f[Index(virt, 1)], lv |-> 1]
  ELSE IF Stops(at[lv - 1].e, at[lv - 1].lv) THEN at[lv - 1]
  ELSE [e |-> ts[TableOf(at[lv - 1].e)][Index(virt, lv)], lv |-> lv]

Walked(at, f, ts, virt) == at = [lv \in Levels |-> WalkAt(at, f, ts, virt, lv)]

LEMMA WalkExists ==
  ASSUME NEW f, NEW ts, NEW virt
  PROVE  \E at : /\ Walked(at, f, ts, virt)
                 /\ Walk(f, ts, virt) = IF at[Depth].e.present
                                          THEN at[Depth].e.addr + (virt % PageSize[at[Depth].lv])
                                          ELSE -1
<1> DEFINE Is(a, n) == a = [lv \in 1 .. n |-> WalkAt(a, f, ts, virt, lv)]
           S == {n \in Nat : \E a : Is(a, n)}
<1>1. 0 \in S
  <2> DEFINE a == [lv \in 1 .. 0 |-> 0]
  <2>1. 1 .. 0 = {}
    OBVIOUS
  <2>2. a = [lv \in 1 .. 0 |-> WalkAt(a, f, ts, virt, lv)]
    BY <2>1
  <2> QED BY <2>2
<1>2. ASSUME NEW n \in Nat, n \in S PROVE n + 1 \in S
  <2>1. PICK a : Is(a, n)
    BY <1>2
  <2> DEFINE b == [lv \in 1 .. n + 1 |-> WalkAt(a, f, ts, virt, lv)]
  <2>2. ASSUME NEW lv \in 1 .. n PROVE b[lv] = a[lv]
    <3>1. a[lv] = WalkAt(a, f, ts, virt, lv)
      BY <2>1
    <3>2. lv \in 1 .. n + 1
      OBVIOUS
    <3> QED BY <3>1, <3>2
  <2>3. ASSUME NEW lv \in 1 .. n + 1 PROVE WalkAt(b, f, ts, virt, lv) = WalkAt(a, f, ts, virt, lv)
    <3>1. lv = 1 \/ lv - 1 \in 1 .. n
      OBVIOUS
    <3> HIDE DEF b
    <3> QED BY <2>2, <3>1 DEF WalkAt
  <2>4. Is(b, n + 1)
    <3>1. b = [lv \in 1 .. n + 1 |-> b[lv]] /\ \A lv \in 1 .. n + 1 : b[lv] = WalkAt(a, f, ts, virt, lv)
      OBVIOUS
    <3> HIDE DEF b
    <3> QED BY <2>3, <3>1
  <2> HIDE DEF b
  <2> QED BY <2>4
<1>3. Nat \subseteq S
  <2> HIDE DEF S
  <2> QED BY <1>1, <1>2, SetInduction
<1>4. PICK a : Walked(a, f, ts, virt)
  <2>1. Depth \in S
    BY <1>3, Halves
  <2> QED BY <2>1, Halves DEF Walked
<1> DEFINE at == CHOOSE at :
             at = [lv \in Levels |->
                     IF lv = 1 THEN [e |-> f[Index(virt, 1)], lv |-> 1]
                     ELSE IF Stops(at[lv - 1].e, at[lv - 1].lv) THEN at[lv - 1]
                     ELSE [e |-> ts[TableOf(at[lv - 1].e)][Index(virt, lv)], lv |-> lv]]
<1>5. Walked(at, f, ts, virt)
  BY <1>4 DEF Walked, WalkAt
<1>6. Walk(f, ts, virt) = IF at[Depth].e.present
                            THEN at[Depth].e.addr + (virt % PageSize[at[Depth].lv])
                            ELSE -1
  BY DEF Walk
<1> HIDE DEF at
<1> QED BY <1>5, <1>6

LEMMA WalkStep ==
  ASSUME NEW at, NEW f, NEW ts, NEW virt, Walked(at, f, ts, virt),
         NEW lv \in Levels, NEW up \in Levels, lv # 1, lv - 1 = up
  PROVE  at[lv] = IF Stops(at[up].e, at[up].lv) THEN at[up]
                  ELSE [e |-> ts[TableOf(at[up].e)][Index(virt, lv)], lv |-> lv]
<1>1. at[lv] = WalkAt(at, f, ts, virt, lv)
  BY DEF Walked
<1> QED BY <1>1 DEF WalkAt

(* What a walk has found at a level: an entry of a table of that level, or *)
(* the entry it has stopped at.                                            *)
Found(s, lv, o, g) ==
  /\ s.lv \in Levels /\ Fits(s.e, s.lv, o, g)
  /\ Stops(s.e, s.lv) \/ s.lv = lv

(* Where a table may have been put since.                                  *)
Free(s) == ~s.e.present \/ (s.e.large /\ s.e.addr = 0 /\ s.lv \in Large \ {Depth})

LEMMA WalkKeeps ==
  ASSUME NEW w, NEW o, NEW g, Good(w, o, g), NEW v, NEW h, Good(v, o, h), Grows(w, g, v, h),
         NEW virt \in Nat, Index(virt, 1) \in DOMAIN w.root
  PROVE  \/ Walk(w.root, w.tables, virt) \in {-1, Walk(v.root, v.tables, virt)}
         \/ AtZero(Walk(w.root, w.tables, virt))
<1>1. PICK a : /\ Walked(a, w.root, w.tables, virt)
               /\ Walk(w.root, w.tables, virt) =
                    IF a[Depth].e.present
                      THEN a[Depth].e.addr + (virt % PageSize[a[Depth].lv]) ELSE -1
  BY WalkExists
<1>2. PICK b : /\ Walked(b, v.root, v.tables, virt)
               /\ Walk(v.root, v.tables, virt) =
                    IF b[Depth].e.present
                      THEN b[Depth].e.addr + (virt % PageSize[b[Depth].lv]) ELSE -1
  BY WalkExists
<1>3. w \in World /\ v \in World /\ g \in Shapes(Len(w.tables))
  BY DEF Good
<1>4. PICK n \in Nat : n = Len(w.tables)
  BY <1>3, WorldParts
<1> DEFINE S == {k \in Nat : k + 1 \in Levels =>
                   /\ Found(a[k + 1], k + 1, o, g)
                   /\ b[k + 1] = a[k + 1] \/ Free(a[k + 1])}
(* What Grows says of one entry, and Fits of a large page at address 0.    *)
<1>5. ASSUME NEW t \in 0 .. n, NEW i \in DOMAIN Tab(w, t), NEW lv \in Levels, Level(g, t) = lv,
             Owner(g, o, t) = o
      PROVE  LET s == [e |-> Tab(w, t)[i], lv |-> lv] IN
             /\ Found(s, lv, o, g)
             /\ Tab(v, t)[i] = s.e \/ Free(s)
  <2>1. PICK e : e = Tab(w, t)[i]
    OBVIOUS
  <2>2. Fits(e, lv, o, g) /\ Keeps(e, Tab(v, t)[i])
    BY <1>4, <1>5, <2>1 DEF Good, Grows
  <2>3. PICK s : s = [e |-> e, lv |-> lv] /\ s.e = e /\ s.lv = lv
    <3>1. PICK s : s = [e |-> e, lv |-> lv]
      OBVIOUS
    <3>2. s.e = e /\ s.lv = lv
      BY <3>1
    <3> QED BY <3>1, <3>2
  <2>4. Found(s, lv, o, g)
    BY <2>2, <2>3 DEF Found
  <2>5. ASSUME e.present, e.large, e.addr = 0 PROVE lv \in Large \ {Depth}
    <3>1. \A m \in DOMAIN g.lv : TableEntry(m).addr # 0
      <4>1. \A m \in DOMAIN g.lv : m \in Nat /\ m > 0
        BY <1>3, <1>4 DEF Shapes
      <4> QED BY <4>1, TableEntries
    <3>2. e # Empty
      BY <2>5 DEF Empty
    <3>3. lv \in Large /\ e.large = (lv # Depth)
      BY <2>2, <2>5, <3>1, <3>2 DEF Fits
    <3> QED BY <2>5, <3>3
  <2>6. Tab(v, t)[i] = e \/ Free(s)
    BY <2>2, <2>3, <2>5 DEF Keeps, Free
  <2> QED BY <2>1, <2>3, <2>4, <2>6
<1>6. 0 \in S
  <2>1. 0 \in 0 .. n /\ 1 \in Levels /\ Level(g, 0) = 1 /\ Owner(g, o, 0) = o
    BY Halves DEF Level, Owner
  <2>2. PICK i : i = Index(virt, 1)
    OBVIOUS
  <2>3. /\ Tab(w, 0) = w.root /\ Tab(v, 0) = v.root /\ i \in DOMAIN Tab(w, 0)
    BY <2>2 DEF Tab
  <2>4. /\ a[1] = [e |-> w.root[i], lv |-> 1]
        /\ b[1] = [e |-> v.root[i], lv |-> 1]
    BY <1>1, <1>2, <2>1, <2>2 DEF Walked, WalkAt
  <2>5. Found(a[1], 1, o, g) /\ (v.root[i] = w.root[i] \/ Free(a[1]))
    BY <1>5, <2>1, <2>3, <2>4
  <2>6. b[1] = a[1] \/ Free(a[1])
    BY <2>4, <2>5
  <2> QED BY <2>5, <2>6
<1>7. ASSUME NEW k \in Nat, k \in S PROVE k + 1 \in S
  <2> SUFFICES ASSUME k + 2 \in Levels
               PROVE  /\ Found(a[k + 2], k + 2, o, g)
                      /\ b[k + 2] = a[k + 2] \/ Free(a[k + 2])
    <3>1. (k + 1) + 1 = k + 2
      OBVIOUS
    <3> QED BY <3>1
  <2>1. PICK lv \in Levels, up \in Levels :
          /\ lv = k + 2 /\ up = k + 1 /\ lv # 1 /\ lv - 1 = up /\ up + 1 = lv /\ up # Depth
    <3>1. PICK d \in Nat : d = Depth /\ Levels = 1 .. d
      BY Halves
    <3> QED BY <3>1
  <2>2. PICK s : s = a[up]
    OBVIOUS
  <2>3. Found(s, up, o, g) /\ (b[up] = s \/ Free(s))
    BY <1>7, <2>1, <2>2
  <2>4. /\ a[lv] = IF Stops(s.e, s.lv) THEN s
                   ELSE [e |-> w.tables[TableOf(s.e)][Index(virt, lv)], lv |-> lv]
        /\ b[lv] = IF Stops(b[up].e, b[up].lv) THEN b[up]
                   ELSE [e |-> v.tables[TableOf(b[up].e)][Index(virt, lv)], lv |-> lv]
    BY <1>1, <1>2, <2>1, <2>2, WalkStep
  <2>5. CASE Stops(s.e, s.lv)
    <3>1. a[lv] = s /\ Found(s, lv, o, g)
      BY <2>3, <2>4, <2>5 DEF Found
    <3>2. b[lv] = s \/ Free(s)
      BY <2>3, <2>4, <2>5
    <3> QED BY <2>1, <3>1, <3>2
  <2>6. CASE ~Stops(s.e, s.lv)
    <3>1. s.lv = up /\ s.e.present /\ b[up] = s /\ ~(s.e.large /\ up \in Large)
      BY <2>3, <2>6 DEF Found, Free, Stops
    <3>2. PICK m \in DOMAIN g.lv : s.e = TableEntry(m) /\ g.lv[m] = lv /\ g.of[m] = o
      <4>1. Fits(s.e, up, o, g) /\ s.e # Empty
        BY <2>3, <3>1 DEF Found, Empty
      <4>2. up \in Large => s.e.large # (up # Depth)
        BY <2>1, <3>1
      <4> QED BY <2>1, <4>1, <4>2 DEF Fits
    <3>3. m \in Nat /\ m # 0 /\ m \in 0 .. n
      <4>1. DOMAIN g.lv = 1 .. n
        BY <1>3, <1>4 DEF Shapes
      <4> QED BY <4>1
    <3>4. PICK i \in 0 .. Entries - 1 : i = Index(virt, lv)
      BY Indices
    <3>5. TableOf(s.e) = m /\ Tab(w, m) = w.tables[m] /\ Tab(v, m) = v.tables[m]
      BY <3>2, <3>3, TableEntries DEF Tab
    <3>6. i \in DOMAIN Tab(w, m) /\ Level(g, m) = lv /\ Owner(g, o, m) = o
      BY <1>3, <1>4, <3>2, <3>3, TabParts DEF Level, Owner
    <3>7. a[lv] = [e |-> Tab(w, m)[i], lv |-> lv] /\ b[lv] = [e |-> Tab(v, m)[i], lv |-> lv]
      BY <2>4, <2>6, <3>1, <3>4, <3>5
    <3>8. Found(a[lv], lv, o, g) /\ (Tab(v, m)[i] = Tab(w, m)[i] \/ Free(a[lv]))
      BY <1>5, <3>3, <3>6, <3>7
    <3>9. b[lv] = a[lv] \/ Free(a[lv])
      BY <3>7, <3>8
    <3> QED BY <2>1, <3>8, <3>9
  <2> QED BY <2>5, <2>6
<1>8. Found(a[Depth], Depth, o, g) /\ (b[Depth] = a[Depth] \/ Free(a[Depth]))
  <2>1. PICK k \in Nat : k + 1 = Depth /\ k + 1 \in Levels
    <3>1. Depth - 1 \in Nat /\ (Depth - 1) + 1 = Depth /\ Depth \in Levels
      BY Halves
    <3> QED BY <3>1
  <2>2. k \in S
    <3> HIDE DEF S
    <3> QED BY <1>6, <1>7, SetInduction
  <2> QED BY <2>1, <2>2
<1>9. CASE b[Depth] = a[Depth] \/ ~a[Depth].e.present
  BY <1>1, <1>2, <1>9
<1>10. CASE a[Depth].e.present /\ Free(a[Depth])
  <2>1. PICK lv \in Levels : lv = a[Depth].lv /\ lv \in Large \ {Depth} /\ a[Depth].e.addr = 0
    BY <1>8, <1>10 DEF Found, Free
  <2>2. PICK p \in Nat : p = PageSize[lv] /\ p > 0
    BY PageSizes
  <2>3. virt % p \in 0 .. p - 1
    BY <2>2
  <2>4. Walk(w.root, w.tables, virt) = virt % p
    <3>1. PICK r \in Int : r = virt % p
      BY <2>3
    <3>2. Walk(w.root, w.tables, virt) = 0 + r
      BY <1>1, <1>10, <2>1, <2>2, <3>1
    <3> QED BY <3>1, <3>2
  <2> QED BY <2>1, <2>2, <2>3, <2>4 DEF AtZero
<1> QED BY <1>8, <1>9, <1>10

(* The pages of the other half are found behind its entries.               *)
LEMMA UserIndex ==
  ASSUME NEW virt \in UserPages
  PROVE  virt \in Nat /\ Index(virt, 1) \in Bottom
<1>1. PICK p \in Nat, n \in Nat : p = PageSize[1] /\ p > 0 /\ n = Entries /\ n > 0
  BY PageSizes, Halves
<1>2. virt \in 0 .. n * p - 1 /\ virt \div p \notin Top
  BY <1>1 DEF UserPages, KernelPages, Pages
<1>3. PICK top \in Nat : top = n * p
  BY <1>1
<1>4. virt \in Nat /\ virt < n * p
  BY <1>2, <1>3
<1>5. PICK d \in Nat : d = virt \div p /\ d * p <= virt
  BY <1>1, <1>4
<1>6. d < n
  <2> SUFFICES ASSUME d >= n PROVE FALSE
    BY <1>1, <1>5
  <2>1. PICK k \in Nat : d = n + k
    <3>1. d - n \in Nat /\ d = n + (d - n)
      BY <1>1, <1>5
    <3> QED BY <3>1
  <2>2. d * p = n * p + k * p /\ k * p \in Nat /\ n * p \in Nat
    BY <1>1, <2>1
  <2>3. n * p <= d * p
    BY <2>2
  <2>4. d * p \in Int
    BY <2>2
  <2> QED BY <1>4, <1>5, <2>2, <2>3, <2>4
<1>7. d % n = d
  BY <1>1, <1>6
<1>8. d \in 0 .. Entries - 1
  BY <1>1, <1>6
<1>9. d \in Bottom
  BY <1>2, <1>5, <1>8, Halves
<1> QED BY <1>1, <1>4, <1>5, <1>7, <1>9 DEF Index

(* A space keeps its mappings when another one, or the kernel, takes more  *)
(* tables.                                                                 *)
LEMMA OthersKeep ==
  ASSUME NEW w, NEW o, NEW g, Good(w, o, g), NEW v, NEW h, Good(v, o, h), Grows(w, g, v, h),
         NEW f \in [Bottom -> Entry], NEW u, \A i \in Bottom : Fits(f[i], 1, u, g),
         NEW virt \in UserPages
  PROVE  \/ Walk(f, w.tables, virt) \in {-1, Walk(f, v.tables, virt)}
         \/ AtZero(Walk(f, w.tables, virt))
<1>1. w \in World /\ v \in World /\ TablesFit(w.tables, g) /\ TablesFit(v.tables, h)
  BY GoodGives DEF Good
<1>2. w.tables \in Seq(Table) /\ v.tables \in Seq(Table)
  BY <1>1, WorldParts
<1>3. Len(w.tables) <= Len(v.tables) /\ Extends(g, h, Len(w.tables))
  BY DEF Grows
<1>4. \A i \in Bottom : Fits(f[i], 1, u, h)
  BY <1>1, <1>2, <1>3, FitMore
<1>5. PICK x : x = [root |-> f, tables |-> w.tables] /\ x.root = f /\ x.tables = w.tables
  BY WorldIs
<1>6. PICK y : y = [root |-> f, tables |-> v.tables] /\ y.root = f /\ y.tables = v.tables
  BY WorldIs
<1>7. DOMAIN f = Bottom /\ f \in [Top -> Entry] \cup [Bottom -> Entry]
  OBVIOUS
<1>8. Good(x, u, g) /\ Good(y, u, h)
  BY <1>1, <1>4, <1>5, <1>6, <1>7, GoodIs
<1>9. ASSUME NEW t \in 0 .. Len(w.tables)
      PROVE  /\ DOMAIN Tab(y, t) = DOMAIN Tab(x, t)
             /\ \A i \in DOMAIN Tab(x, t) : Keeps(Tab(x, t)[i], Tab(y, t)[i])
  <2>1. CASE t = 0
    BY <1>5, <1>6, <2>1 DEF Tab, Keeps
  <2>2. CASE t # 0
    <3>1. Tab(x, t) = Tab(w, t) /\ Tab(y, t) = Tab(v, t)
      BY <1>5, <1>6, <2>2 DEF Tab
    <3> QED BY <1>9, <3>1 DEF Grows
  <2> QED BY <2>1, <2>2
<1>10. Grows(x, g, y, h)
  BY <1>3, <1>5, <1>6, <1>9 DEF Grows
<1>11. virt \in Nat /\ Index(virt, 1) \in DOMAIN x.root
  BY <1>5, <1>7, UserIndex
<1>12. \/ Walk(x.root, x.tables, virt) \in {-1, Walk(y.root, y.tables, virt)}
       \/ AtZero(Walk(x.root, x.tables, virt))
  BY <1>8, <1>10, <1>11, WalkKeeps
<1> QED BY <1>5, <1>6, <1>12

(* What a step does to a space that no core runs in.                       *)
UserKeeps(v, p) == User(v, p) \in {-1, User(v, p)'} \/ AtZero(User(v, p))

LEMMA StepUnused ==
  VmInv /\ [Next]_vars
    => \A v \in Vms : spaces' # spaces /\ (\A c \in Cores : cur_vmem[c] # v)
                        => \A p \in UserPages : UserKeeps(v, p)
<1> SUFFICES ASSUME VmInv, [Next]_vars, NEW v \in Vms, spaces' # spaces,
                    \A c \in Cores : cur_vmem[c] # v, NEW p \in UserPages
             PROVE  UserKeeps(v, p)
  OBVIOUS
<1>1. PICK g \in Shapes(Len(tables)) : TablesFit(tables, g) /\ RootsFit(g)
  BY DEF VmInv, TablesOwned
<1>2. vmem[v] \in [Bottom -> Entry] /\ \A i \in Bottom : Fits(vmem[v][i], 1, v, g)
  BY <1>1 DEF RootsFit
<1>3. ASSUME vmem'[v] = vmem[v], tables' = tables PROVE UserKeeps(v, p)
  BY <1>3 DEF UserKeeps, User
<1>4. PICK c \in Cores :
          \/ MpInit(c)
          \/ \E q \in KernelMaps : MapKernel(c, q)
          \/ \E u \in Vms, q \in UserMaps : MapUser(c, u, q)
          \/ UnmapKernel(c)
          \/ \E u \in Vms : Create(c, u)
          \/ Save(c) \/ SaveUser(c) \/ SaveKernel(c)
          \/ \E u \in Vms : SetActive(c, u)
          \/ Load(c)
  BY DEF Next, vars
<1>5. ASSUME NEW q \in KernelMaps, MapKernel(c, q) PROVE UserKeeps(v, p)
  <2>1. q \in Request /\ NoVm \in Owners
    BY RequestsAssumption DEF Owners
  <2>2. kmem \in [Top -> Entry] /\ \A i \in Top : Fits(kmem[i], 1, NoVm, g)
    BY <1>1 DEF RootsFit
  <2>3. PICK w : w = [root |-> kmem, tables |-> tables] /\ w.root = kmem /\ w.tables = tables
    <3>1. PICK w : w = [root |-> kmem, tables |-> tables]
      OBVIOUS
    <3>2. w.root = kmem /\ w.tables = tables
      BY <3>1
    <3> QED BY <3>1, <3>2
  <2>4. Good(w, NoVm, g)
    BY <1>1, <2>2, <2>3, GoodIs
  <2>5. PICK x : x = MapSt(w, q).w
    OBVIOUS
  <2>6. PICK h : Good(x, NoVm, h) /\ Grows(w, g, x, h)
    BY <2>1, <2>4, <2>5, MapStGood DEF After
  <2>7. tables' = x.tables /\ vmem' = vmem
    BY <1>5, <2>3, <2>5 DEF MapKernel, KernelResult
  <2>8. \/ Walk(vmem[v], w.tables, p) \in {-1, Walk(vmem[v], x.tables, p)}
        \/ AtZero(Walk(vmem[v], w.tables, p))
    BY <1>2, <2>4, <2>6, OthersKeep
  <2> QED BY <2>3, <2>7, <2>8 DEF UserKeeps, User
<1>6. ASSUME NEW u \in Vms, NEW q \in UserMaps, MapUser(c, u, q) PROVE UserKeeps(v, p)
  <2>1. q \in Request /\ u \in Owners
    BY RequestsAssumption DEF Owners
  <2>2. /\ vmem \in [Vms -> [Bottom -> Entry]] /\ vmem[u] \in [Bottom -> Entry]
        /\ \A i \in Bottom : Fits(vmem[u][i], 1, u, g)
    BY <1>1 DEF RootsFit
  <2>3. PICK w : w = [root |-> vmem[u], tables |-> tables] /\ w.root = vmem[u] /\ w.tables = tables
    <3>1. PICK w : w = [root |-> vmem[u], tables |-> tables]
      OBVIOUS
    <3>2. w.root = vmem[u] /\ w.tables = tables
      BY <3>1
    <3> QED BY <3>1, <3>2
  <2>4. Good(w, u, g)
    <3>1. DOMAIN vmem[u] = Bottom /\ vmem[u] \in [Top -> Entry] \cup [Bottom -> Entry]
      BY <2>2
    <3> QED BY <1>1, <2>2, <2>3, <3>1, GoodIs
  <2>5. PICK x : x = MapSt(w, q).w
    OBVIOUS
  <2>6. PICK h : Good(x, u, h) /\ Grows(w, g, x, h)
    BY <2>1, <2>4, <2>5, MapStGood DEF After
  <2>7. tables' = x.tables /\ vmem' = [vmem EXCEPT ![u] = x.root]
    BY <1>6, <2>3, <2>5 DEF MapUser, UserResult
  <2>8. CASE u = v
    <3>1. p \in Nat /\ Index(p, 1) \in DOMAIN w.root
      BY <2>2, <2>3, UserIndex
    <3>2. \/ Walk(w.root, w.tables, p) \in {-1, Walk(x.root, x.tables, p)}
          \/ AtZero(Walk(w.root, w.tables, p))
      BY <2>4, <2>6, <3>1, WalkKeeps
    <3>3. vmem'[v] = x.root
      BY <2>2, <2>7, <2>8
    <3> QED BY <2>3, <2>7, <2>8, <3>2, <3>3 DEF UserKeeps, User
  <2>9. CASE u # v
    <3>1. \/ Walk(vmem[v], w.tables, p) \in {-1, Walk(vmem[v], x.tables, p)}
          \/ AtZero(Walk(vmem[v], w.tables, p))
      BY <1>2, <2>4, <2>6, OthersKeep
    <3>2. vmem'[v] = vmem[v]
      BY <2>2, <2>7, <2>9
    <3> QED BY <2>3, <2>7, <3>1, <3>2 DEF UserKeeps, User
  <2> QED BY <2>8, <2>9
<1>7. ASSUME SaveUser(c) PROVE UserKeeps(v, p)
  <2>1. vmem'[v] = vmem[v] /\ tables' = tables
    BY <1>7 DEF SaveUser
  <2> QED BY <1>3, <2>1
<1>8. ASSUME SaveKernel(c) PROVE UserKeeps(v, p)
  BY <1>3, <1>8 DEF SaveKernel
<1>9. spaces' = spaces => FALSE
  OBVIOUS
<1>10. ASSUME MpInit(c) \/ UnmapKernel(c) \/ Save(c) \/ Load(c) PROVE FALSE
  BY <1>9, <1>10 DEF MpInit, UnmapKernel, Save, Load
<1>11. ASSUME NEW u \in Vms, Create(c, u) \/ SetActive(c, u) PROVE FALSE
  BY <1>9, <1>11 DEF Create, SetActive
<1> QED BY <1>4, <1>5, <1>6, <1>7, <1>8, <1>10, <1>11

(* A space that no core runs in keeps its mappings, whatever is mapped     *)
(* elsewhere or saved meanwhile.                                           *)
THEOREM UnusedSpaces == Spec => UnusedSpacesKeep
<1>1. VmInv /\ [Next]_vars
        => [\A v \in Vms : spaces' # spaces /\ (\A c \in Cores : cur_vmem[c] # v) =>
              \A p \in UserPages :
                User(v, p) \in {-1, User(v, p)'} \/ AtZero(User(v, p))]_vars
  BY StepUnused DEF UserKeeps
<1> QED BY <1>1, VmInvariant, PTL DEF Spec, UnusedSpacesKeep

=============================================================================

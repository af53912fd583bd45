------------------------------ MODULE VirtMem ------------------------------
(***************************************************************************)
(* Virtual memory (kernel/src/memory/virt_mem.c): page tables and address  *)
(* spaces.  Addresses and sizes are in pages.  kmem holds the top-level    *)
(* entries of the kernel's half of the address space, a vmem_t those of    *)
(* the other half; each core runs on a top-level table of its own, ktable, *)
(* into which these are copied.  The tables below are shared through the   *)
(* copied entries.                                                         *)
(*                                                                         *)
(* Every section under a lock is one action; no two locks are ever held    *)
(* together.  Permissions, caching and TLBs are left out.                  *)
(***************************************************************************)
EXTENDS Integers, Sequences, FiniteSets

CONSTANTS
  Cores, Bsp,
  Vms, NoVm,    \* address spaces that can be created, and NULL
  Entries,      \* entries of a table, 512 in the code
  PageSize,     \* levels: the pages that an entry of each level spans, top first
  Large,        \* levels whose entries may map a page: largepage_avail
  SizeLimit,    \* sizes are unsigned, and wrap at this number of pages
  BootMap,      \* the mapping of physical memory that vmem_init makes
  KernelMaps, UserMaps,  \* requests for vmem_map: [virt, phys, size]
  MaxTables     \* bound: tables allocated for lower levels

Depth  == Len(PageSize)
Levels == 1 .. Depth
Half   == Entries \div 2
Bottom == 0 .. Half - 1
Top    == Half .. Entries - 1

(* The part of an address that masks[lv] selects.                          *)
Index(virt, lv) == (virt \div PageSize[lv]) % Entries

Request == [virt : Nat, phys : Nat, size : 0 .. SizeLimit - 1]

ASSUME LevelsAssumption ==
  /\ Entries \in Nat /\ Entries >= 2 /\ Entries % 2 = 0
  /\ PageSize \in Seq(Nat) /\ Depth >= 2 /\ PageSize[Depth] = 1
  /\ \A lv \in 1 .. Depth - 1 : PageSize[lv] = Entries * PageSize[lv + 1]
  /\ Depth \in Large /\ 1 \notin Large
  /\ MaxTables \in Nat

(* The sign of the address tells a kernel request from a user's.           *)
ASSUME RequestsAssumption ==
  /\ SizeLimit \in Nat /\ SizeLimit > 0
  /\ BootMap \in Request /\ KernelMaps \subseteq Request /\ UserMaps \subseteq Request
  /\ \A q \in KernelMaps \cup {BootMap} : Index(q.virt, 1) \in Top
  /\ \A q \in UserMaps : Index(q.virt, 1) \in Bottom

ASSUME CoresAssumption == Bsp \in Cores /\ NoVm \notin Vms

VARIABLES
  tables,       \* the lower tables, in the order of their allocation
  kmem,         \* top-level entries of the kernel's half
  vmem,         \* top-level entries of each address space
  created,
  ktable,       \* the top-level table of each core
  cur_vmem,     \* the address space a core runs in, or NoVm
  online,
  pc, arg,      \* the step of a core within vmem_setactive and the like
  dropped       \* history: saving a core's table has dropped entries of kmem

spaces == <<kmem, vmem, tables>>
calls  == <<pc, arg>>
vars   == <<spaces, created, ktable, cur_vmem, online, calls, dropped>>

Pages == 0 .. Entries * PageSize[1] - 1

(* Page tables are pages of physical memory behind those that are mapped.  *)
TablesAt == 2 * Entries * PageSize[1]

Entry == [present : BOOLEAN, large : BOOLEAN, addr : Nat]
Table == [0 .. Entries - 1 -> Entry]

Empty         == [present |-> FALSE, large |-> FALSE, addr |-> 0]
LeafOf(a, lv) == [present |-> TRUE, large |-> lv # Depth, addr |-> a]
TableEntry(t) == [present |-> TRUE, large |-> FALSE, addr |-> TablesAt + t]
TableOf(e)    == e.addr - TablesAt

NoEntries(S) == [i \in S |-> Empty]

-----------------------------------------------------------------------------
(* vmem_map_st works on a world: a top-level table, or the half of it that *)
(* it is given, with the lower tables; table 0 is the top-level one.       *)
World == [root : [Top -> Entry] \cup [Bottom -> Entry], tables : Seq(Table)]

Tab(w, t) == IF t = 0 THEN w.root ELSE w.tables[t]

Put(w, t, f) ==
  IF t = 0 THEN [root |-> f, tables |-> w.tables]
           ELSE [root |-> w.root, tables |-> [w.tables EXCEPT ![t] = f]]

InTable(w, t, i) == t \in 0 .. Len(w.tables) /\ i \in DOMAIN Tab(w, t)

Done(w, ret) == [w |-> w, ret |-> ret]

NewTable(w, t, i) ==
  LET v == Put(w, t, [Tab(w, t) EXCEPT ![i] = TableEntry(Len(w.tables) + 1)])
  IN  [root |-> v.root, tables |-> Append(v.tables, NoEntries(0 .. Entries - 1))]

(* Mutant of MapPages: entries in use are overwritten.                     *)
MapPages_Overwrites(w, t, i, q, lv) ==
  LET f    == Tab(w, t)
      last == i + (q.size \div PageSize[lv]) - 1
  IN  Done(Put(w, t, [j \in DOMAIN f |->
                        IF j \in i .. last
                          THEN LeafOf(q.phys + (j - i) * PageSize[lv], lv) ELSE f[j]]),
           IF last < i \/ last \in DOMAIN f THEN "none" ELSE "continue")

(* The loop over entries that map pages: up to the end of the request, of  *)
(* the table, or up to the first entry that is in use.                     *)
MapPages(w, t, i, q, lv) ==
  LET f    == Tab(w, t)
      last == i + (q.size \div PageSize[lv]) - 1
      used == {j \in i .. last : j \in DOMAIN f /\ f[j].present}
  IN  Done(Put(w, t, [j \in DOMAIN f |->
                        IF j \in i .. last /\ \A k \in i .. j : k \notin used
                          THEN LeafOf(q.phys + (j - i) * PageSize[lv], lv) ELSE f[j]]),
           IF used # {} THEN "alreadymapped"
           ELSE IF last < i \/ last \in DOMAIN f THEN "none" ELSE "continue")

(* What the recursion into one table is taken to have mapped when it asks  *)
(* to continue: right if virt is aligned to the entries of that table.     *)
Covered(virt, lv) == (Entries - Index(virt, lv + 1)) * PageSize[lv + 1]

Advance(q, done) ==
  [virt |-> q.virt + done, phys |-> q.phys + done, size |-> (q.size - done) % SizeLimit]

(* vmem_map_st is about to look at entry i of table t, of a level that     *)
(* refers to tables.                                                       *)
Calls == [w : World, t : Nat, i : 0 .. Entries - 1, q : Request, lv : 1 .. Depth - 1]
Call(w, t, i, q, lv) == [w |-> w, t |-> t, i |-> i, q |-> q, lv |-> lv]

(* The beginning of vmem_map_st; map says what becomes of its calls.       *)
(* Whether pages of this level are used depends on the size alone, not on  *)
(* the alignment of the addresses.  Behind the entries of its table, and   *)
(* without a table, what it does is undefined.                             *)
Enter(map, w, t, q, lv) ==
  LET i == Index(q.virt, lv) IN
  IF ~InTable(w, t, i) THEN Done(w, "undefined")
  ELSE IF q.size % PageSize[lv] = 0 /\ lv \in Large THEN MapPages(w, t, i, q, lv)
  ELSE map[Call(w, t, i, q, lv)]

(* A turn of its loop over entries that refer to tables, and what follows. *)
(* An entry whose address is 0 counts as free, a large page at physical    *)
(* address 0 included.                                                     *)
MapTables(map, a) ==
  LET e == Tab(a.w, a.t)[a.i]
      v == IF e.addr = 0 THEN NewTable(a.w, a.t, a.i) ELSE a.w
      Behind(r) ==
        IF r.ret # "continue" \/ a.i + 1 = Entries THEN r
        ELSE map[Call(r.w, a.t, a.i + 1, Advance(a.q, Covered(a.q.virt, a.lv)), a.lv)]
  IN  IF a.q.size = 0 THEN Done(a.w, "none")
      ELSE IF ~InTable(a.w, a.t, a.i) THEN Done(a.w, "undefined")
      ELSE IF e.addr # 0 /\ e.large THEN Done(a.w, "alreadymapped")
      ELSE IF e.addr = 0 /\ Len(a.w.tables) = MaxTables THEN Done(a.w, "nomemory")
      ELSE Behind(Enter(map, v, TableOf(Tab(v, a.t)[a.i]), a.q, a.lv + 1))

MapSt(w, q) ==
  LET map[a \in Calls] == MapTables(map, a) IN Enter(map, w, 0, q, 1)

(* vmem_virttophys_st goes down to an entry that maps a page, or nothing.  *)
Stops(e, lv) == ~e.present \/ (e.large /\ lv \in Large) \/ lv = Depth

Walk(f, ts, virt) ==
  LET at[lv \in Levels] ==
        IF lv = 1 THEN [e |-> f[Index(virt, 1)], lv |-> 1]
        ELSE LET s == at[lv - 1] IN
             IF Stops(s.e, s.lv) THEN s
             ELSE [e |-> ts[TableOf(s.e)][Index(virt, lv)], lv |-> lv]
      end == at[Depth]
  IN  IF end.e.present THEN end.e.addr + (virt % PageSize[end.lv]) ELSE -1

-----------------------------------------------------------------------------
(* A core's table with its kernel half, or its other half, replaced.       *)
WithKernel(f, top)    == [i \in DOMAIN f |-> IF i \in Top THEN top[i] ELSE f[i]]
WithUser(f, bottom)   == [i \in DOMAIN f |-> IF i \in Top THEN f[i] ELSE bottom[i]]

Booted == MapSt([root |-> NoEntries(Top), tables |-> <<>>], BootMap).w

(* vmem_init, on the bootstrap processor.                                  *)
Init ==
  /\ tables = Booted.tables
  /\ kmem = Booted.root
  /\ vmem = [v \in Vms |-> NoEntries(Bottom)]
  /\ created = {}
  /\ ktable = [c \in Cores |->
                 IF c = Bsp THEN WithKernel(NoEntries(0 .. Entries - 1), kmem)
                 ELSE NoEntries(0 .. Entries - 1)]
  /\ cur_vmem = [c \in Cores |-> NoVm]
  /\ online = {Bsp}
  /\ pc = [c \in Cores |-> "idle"]
  /\ arg = [c \in Cores |-> NoVm]
  /\ dropped = FALSE

Idle(c) == c \in online /\ pc[c] = "idle"

(* vmem_mp_init                                                            *)
MpInit(c) ==
  /\ c \notin online
  /\ online' = online \cup {c}
  /\ ktable' = [ktable EXCEPT
                  ![c] = WithKernel(NoEntries(0 .. Entries - 1), kmem)]
  /\ UNCHANGED <<spaces, created, cur_vmem, calls, dropped>>

(* Mutant of Refresh: the core's own table is not brought up to date.      *)
Refresh_Forgotten(c) == UNCHANGED ktable

Refresh(c) == ktable' = [ktable EXCEPT ![c] = WithKernel(@, kmem')]

(* vmem_map of a kernel address: the calling core's table follows, those   *)
(* of the others do not.                                                   *)
KernelResult(q) == MapSt([root |-> kmem, tables |-> tables], q)

MapKernel(c, q) ==
  /\ Idle(c)
  /\ UNCHANGED <<vmem, created, cur_vmem, online, calls, dropped>>
  /\ \E r \in {KernelResult(q)} :
       /\ r.ret \notin {"nomemory", "undefined"}
       /\ kmem' = r.w.root /\ tables' = r.w.tables
  /\ Refresh(c)

(* vmem_map of a user address, whether or not the space is in use.         *)
UserResult(v, q) == MapSt([root |-> vmem[v], tables |-> tables], q)

MapUser(c, v, q) ==
  /\ Idle(c) /\ v \in created
  /\ UNCHANGED <<kmem, created, ktable, cur_vmem, online, calls, dropped>>
  /\ \E r \in {UserResult(v, q)} :
       /\ r.ret \notin {"nomemory", "undefined"}
       /\ vmem' = [vmem EXCEPT ![v] = r.w.root] /\ tables' = r.w.tables

(* vmem_unmap sets its size to 0: all that is left of it, for a kernel     *)
(* address, is the copy.                                                   *)
UnmapKernel(c) ==
  /\ Idle(c)
  /\ UNCHANGED <<spaces, created, cur_vmem, online, calls, dropped>>
  /\ Refresh(c)

Create(c, v) ==
  /\ Idle(c) /\ v \notin created
  /\ created' = created \cup {v}
  /\ UNCHANGED <<spaces, ktable, cur_vmem, online, calls, dropped>>

(* Mutant of SaveUser: the state is saved to the space to come.            *)
SaveUser_ToNew(c) ==
  /\ pc[c] = "saveUser"
  /\ vmem' = IF arg[c] = NoVm THEN vmem
             ELSE [vmem EXCEPT ![arg[c]] = [i \in Bottom |-> ktable[c][i]]]
  /\ pc' = [pc EXCEPT ![c] = "saveKernel"]
  /\ UNCHANGED <<kmem, tables, created, ktable, cur_vmem, online, arg, dropped>>

(* vmem_savestate, in two sections: first the address space in use ...     *)
SaveUser(c) ==
  /\ pc[c] = "saveUser"
  /\ vmem' = IF cur_vmem[c] = NoVm THEN vmem
             ELSE [vmem EXCEPT ![cur_vmem[c]] = [i \in Bottom |-> ktable[c][i]]]
  /\ pc' = [pc EXCEPT ![c] = "saveKernel"]
  /\ UNCHANGED <<kmem, tables, created, ktable, cur_vmem, online, arg, dropped>>

(* ... then the kernel's half, over what other cores have mapped since.    *)
SaveKernel(c) ==
  /\ pc[c] = "saveKernel"
  /\ kmem' = [i \in Top |-> ktable[c][i]]
  /\ dropped' = (dropped \/ \E i \in Top : kmem[i].present /\ kmem'[i] # kmem[i])
  /\ pc' = [pc EXCEPT ![c] = IF arg[c] = NoVm THEN "idle" ELSE "load"]
  /\ UNCHANGED <<tables, vmem, created, ktable, cur_vmem, online, arg>>

(* vmem_getactive and vmem_flush save, and change nothing else here.       *)
Save(c) ==
  /\ Idle(c)
  /\ pc' = [pc EXCEPT ![c] = "saveUser"]
  /\ UNCHANGED <<spaces, created, ktable, cur_vmem, online, arg, dropped>>

SetActive(c, v) ==
  /\ Idle(c) /\ v \in created
  /\ pc' = [pc EXCEPT ![c] = "saveUser"]
  /\ arg' = [arg EXCEPT ![c] = v]
  /\ UNCHANGED <<spaces, created, ktable, cur_vmem, online, dropped>>

(* Mutant of Load: the core still counts as running in the space before.   *)
Load_Forgets(c) ==
  /\ pc[c] = "load"
  /\ ktable' = [ktable EXCEPT ![c] = WithUser(@, vmem[arg[c]])]
  /\ cur_vmem' = [cur_vmem EXCEPT ![c] = IF @ = NoVm THEN arg[c] ELSE @]
  /\ arg' = [arg EXCEPT ![c] = NoVm]
  /\ pc' = [pc EXCEPT ![c] = "idle"]
  /\ UNCHANGED <<spaces, created, online, dropped>>

Load(c) ==
  /\ pc[c] = "load"
  /\ ktable' = [ktable EXCEPT ![c] = WithUser(@, vmem[arg[c]])]
  /\ cur_vmem' = [cur_vmem EXCEPT ![c] = arg[c]]
  /\ arg' = [arg EXCEPT ![c] = NoVm]
  /\ pc' = [pc EXCEPT ![c] = "idle"]
  /\ UNCHANGED <<spaces, created, online, dropped>>

Next == \E c \in Cores :
  \/ MpInit(c)
  \/ \E q \in KernelMaps : MapKernel(c, q)
  \/ \E v \in Vms, q \in UserMaps : MapUser(c, v, q)
  \/ UnmapKernel(c)
  \/ \E v \in Vms : Create(c, v)
  \/ Save(c) \/ SaveUser(c) \/ SaveKernel(c)
  \/ \E v \in Vms : SetActive(c, v)
  \/ Load(c)

Spec == Init /\ [][Next]_vars

-----------------------------------------------------------------------------
(* Where a page of the kernel's half, or of a space, is mapped to.         *)
KernelPages == {p \in Pages : p \div PageSize[1] \in Top}
UserPages   == Pages \ KernelPages
Kernel(p)   == Walk(kmem, tables, p)
User(v, p)  == Walk(vmem[v], tables, p)

(* Requests whose addresses are as aligned as the pages that their size    *)
(* lets vmem_map_st use, and which start on an entry of the tables of      *)
(* tables that they cross the end of (see Covered).                        *)
Aligned(q) ==
  /\ \A lv \in Large :
       q.size >= PageSize[lv] => q.virt % PageSize[lv] = 0 /\ q.phys % PageSize[lv] = 0
  /\ \A lv \in 1 .. Depth - 2 :
       (q.virt % PageSize[lv]) + q.size > PageSize[lv]
         => q.virt % PageSize[lv + 1] = 0

(* A large page at physical address 0 counts as free when a table is       *)
(* looked for: what it maps may be lost.                                   *)
AtZero(a) == \E lv \in Large \ {Depth} : a \in 0 .. PageSize[lv] - 1

Mapped(q, ret, was, is, p) ==
  IF p \in q.virt .. q.virt + q.size - 1
    THEN \/ is = q.phys + p - q.virt /\ (was \in {-1, is} \/ AtZero(was))
         \/ ret # "none" /\ (is = was \/ (is = -1 /\ AtZero(was)))
    ELSE is = was \/ AtZero(was)

(* An aligned vmem_map that returns 0 has mapped the pages of its range,   *)
(* and no other page, to consecutive pages, through as many tables as it   *)
(* took; one that fails has mapped some of them; either way what was       *)
(* mapped before stays mapped, and other address spaces are untouched.     *)
MapsExactly ==
  [][/\ \A q \in KernelMaps : (\E c \in Cores : <<MapKernel(c, q)>>_vars) /\ Aligned(q) =>
          \A ret \in {KernelResult(q).ret}, p \in KernelPages :
            \E was \in {Kernel(p)}, is \in {Kernel(p)'} : Mapped(q, ret, was, is, p)
     /\ \A v \in Vms, q \in UserMaps : (\E c \in Cores : <<MapUser(c, v, q)>>_vars) /\ Aligned(q) =>
          \A ret \in {UserResult(v, q).ret}, p \in UserPages :
            /\ \E was \in {User(v, p)}, is \in {User(v, p)'} : Mapped(q, ret, was, is, p)
            /\ \A u \in Vms \ {v} : User(u, p)' = User(u, p)]_vars

Referred(f) == {TableOf(f[i]) : i \in {j \in DOMAIN f :
                  f[j].present /\ f[j].addr > TablesAt}}

(* Address spaces share no tables with each other or with the kernel,      *)
(* however cores switch between them and save them back.                   *)
SpacesSeparate ==
  /\ \A u, v \in Vms : u # v => Referred(vmem[u]) \cap Referred(vmem[v]) = {}
  /\ \A v \in Vms : Referred(vmem[v]) \cap Referred(kmem) = {}

(* Cores may lag behind kmem but never disagree with it, until a save has  *)
(* written a lagging table back; a core that is alone never lags, so that  *)
(* it loses no kernel mapping by saving.                                   *)
KernelShared ==
  /\ ~dropped => \A c \in online, i \in Top :
                   ktable[c][i].present => ktable[c][i] = kmem[i]
  /\ online = {Bsp} => ~dropped

(* Switching and saving touch the space in use only: one that no core is   *)
(* running in keeps its mappings.  (A space in use loses what was mapped   *)
(* after its activation: vmem_map does not reach the table in use, and     *)
(* saving copies that table back.)                                         *)
UnusedSpacesKeep ==
  [][\A v \in Vms : spaces' # spaces /\ (\A c \in Cores : cur_vmem[c] # v) =>
       \A p \in UserPages :
         User(v, p) \in {-1, User(v, p)'} \/ AtZero(User(v, p))]_vars

-----------------------------------------------------------------------------
(* Every lower table has a level and an owner, a space or the kernel (NoVm *)
(* for short), although the code notes neither: g says which.              *)
Owners == Vms \cup {NoVm}
Shapes(n) == [lv : [1 .. n -> 2 .. Depth], of : [1 .. n -> Owners]]

(* What an entry of a table of level lv that o owns may be.                *)
Fits(e, lv, o, g) ==
  \/ e = Empty
  \/ lv \in Large /\ e \in Entry /\ e.present /\ e.large = (lv # Depth)
  \/ \E n \in DOMAIN g.lv : e = TableEntry(n) /\ g.lv[n] = lv + 1 /\ g.of[n] = o

TablesFit(ts, g) ==
  /\ ts \in Seq(Table) /\ g \in Shapes(Len(ts))
  /\ \A t \in 1 .. Len(ts), i \in 0 .. Entries - 1 : Fits(ts[t][i], g.lv[t], g.of[t], g)

(* The saved halves refer to tables of their owner, and so does the table  *)
(* of each core: to the kernel's and to those of the space it runs in.     *)
RootsFit(g) ==
  /\ kmem \in [Top -> Entry] /\ \A i \in Top : Fits(kmem[i], 1, NoVm, g)
  /\ vmem \in [Vms -> [Bottom -> Entry]]
  /\ \A v \in Vms, i \in Bottom : Fits(vmem[v][i], 1, v, g)
  /\ ktable \in [Cores -> Table]
  /\ \A c \in Cores, i \in Top : Fits(ktable[c][i], 1, NoVm, g)
  /\ \A c \in Cores, i \in Bottom :
       cur_vmem[c] # NoVm => Fits(ktable[c][i], 1, cur_vmem[c], g)

TablesOwned == \E g \in Shapes(Len(tables)) : TablesFit(tables, g) /\ RootsFit(g)

CallsOrder ==
  /\ cur_vmem \in [Cores -> Owners] /\ arg \in [Cores -> Owners]
  /\ pc \in [Cores -> {"idle", "saveUser", "saveKernel", "load"}]
  /\ Bsp \in online
  /\ \A c \in Cores : pc[c] # "idle" => c \in online
  /\ \A c \in Cores : pc[c] = "load" => arg[c] # NoVm

(* A core alone has the whole kernel half.                                 *)
KernelOrder ==
  /\ ~dropped => \A c \in online, i \in Top : ktable[c][i].present => ktable[c][i] = kmem[i]
  /\ online = {Bsp} => ~dropped /\ \A i \in Top : ktable[Bsp][i] = kmem[i]

VmInv == TablesOwned /\ CallsOrder /\ KernelOrder

=============================================================================

# gubernatrix: a verification development

TLA+ modules that model the kernel, TLC configurations that check them on small
instances, and TLAPS proofs of theorems about them. Paths are relative to the
repository; `file.c:n` is a line of it.

    tlasany M.tla                             parse a module
    tlc -workers 2 -config X.cfg M            check a configuration
    tlapm M_proofs.tla                        check the proofs of a module

## 1. The system

gubernatrix is an x86-64 kernel. One core, the bootstrap processor (BSP),
initialises everything in `setup_core` (`kernel/src/main.c`), starts the other
cores one at a time (`kernel/src/smp.c`), enumerates the PCI devices, lets the
one driver look for its device, and then halts in a loop, doing its work in
interrupt handlers. The other cores set themselves up in `smp_bootstrap` and
spin.

There is no scheduler. What runs concurrently is

  - the cores, while an application core sets itself up and the BSP waits;
  - interrupt handlers, on top of whatever their core executes;
  - devices: timers that interrupt, monitors that are plugged and unplugged.

Locks are spinlocks (`common/inc/local_spinlock.h`). `idt.c` takes its lock with
interrupts off; `bootstrap_malloc.c` and `virt_mem.c` leave interrupts as they are, which is
right as long as no handler calls them, and none in the tree does. Several structures have
no lock. Nothing is persisted and no messages are sent, so
crashes and lost messages do not arise; what takes their place is `PANIC`. It
prints and executes one `hlt`. With interrupts off (before `sti(1)` in
`setup_core`, or in a handler) that is the end of the core. With interrupts on,
the next interrupt resumes the code behind the PANIC. The models follow both.

### Components

| component | state | operations | interacts with | hard part | what makes it correct |
|---|---|---|---|---|---|
| ring queue, `common/src/stdqueue.c` | slots, atomic head, tail, count | init, enqueue, front enqueue, dequeue, count | the page allocator | no lock: order of publication between cores | linearizable as a bounded deque; no data race on a slot |
| page allocator, `memory/phys_mem.c` | ring of free blocks, byte count | init from the memory map, allocate, free | boot information, page tables | long histories of splits, rotations, in-place sort and merge | no page has two owners, none is lost, a request that fits is served |
| virtual memory, `memory/virt_mem.c` | page tables, kernel half, address spaces, one active table per core | map, unmap, create, switch, save, flush, translate | page allocator, spinlocks, cores | kernel mappings reach other cores lazily; several locks, none nested | exact mappings, separate spaces, one kernel half |
| interrupts, `interrupts/idt.c` | handler table, reserved vectors, one lock | register, unregister, reserve, dispatch | drivers, timers, local APIC | interrupts on top of tasks, several cores, handlers under the lock | no self-deadlock, stable walks, no double reservation, flag restored |
| interrupt lines, `interrupts/acpi_init.c`, `ioapic.c` | processors, I/O APICs, overrides, redirection tables | collect, init, map, mask | MADT, HPET driver | two numberings of lines, overrides | lines wired as the tables and the drivers ask |
| timers, `timers/timer_main.c`, `hpet.c`, `apic.c`, `tsc.c`, `rtc.c` | registry, devices, wait counters, clock | register, request, wait, tick, clock | interrupts, SMP start | shared counters; wake-up between test and `hlt`; periodic hardware made one-shot | waits are not short and end; requests keep their timer; the clock is right |
| SMP start, `smp.c`, `main.c`, `trampoline.S` | core_ready, core count, tramp_stack | start, set up, signal | timers, local APIC, all allocators | order between two cores without locks | own stacks; one core at a time; all are counted |
| boot information, `boot_info.c` | memory map, its count and size | copy and cut regions | page allocator | regions across reserved memory and the kernel | what is freed is free memory, once |
| PCI, `kernel/src/pci.c` | list of functions | enumerate, search | drivers, MCFG | two walks must agree | every function once, with its own configuration space |
| EDID, `common/src/edid/edid.c` | none | parse | graphics driver | bits of one field in three places | the described mode comes out |
| graphics, `devices/intel_gfx/src` | the one display | match, hotplug check, EDID read, mode set | PCI, EDID | the monitor comes and goes meanwhile | a connected display shows its monitor's mode |
| boot heap, `kernel/src/bootstrap_malloc.c` | position in an area, lock | malloc, free | everything | several cores; a free that moves the position back | live blocks do not overlap |
| core-local storage, `memory/tls.c` | one offset for all cores, a block per core | init per core, allocate | every initialiser | the offset is reset by every core, the offsets found in it are shared | no two structures share memory |
| ACPI tables, `acpi.c` | root pointer | search | PCI, interrupt lines | two kinds of root table, missing and damaged ones | the first good table of a name is found |
| message-signalled interrupts, `pci.c` | capabilities of a device | ask, set | drivers, `interrupt_allocate` | two capabilities, two places, 32 and 64 bits | each message reaches the core and vector asked for |
| way into an interrupt, `idt.c`, `smp.c` | stack, saved registers | stub, save, call, restore, exchange of threads | every interrupt | with and without error code | a thread resumes with its own registers |
| C library, `string.c`, `stdlib.c` | none | memory, strings, numbers | everything | overlap, ends of blocks, signs, overflow | as the C standard has it, with exceptions |
| processor features, `cpuid.c` | features, rates | read once | local APIC timer, TSC | tables by model | a listed model gets its rate |
| FPU, GDT contents, PIC, boot.S, debug output | constant after boot | setup, output | everything | little | not modelled, see section 8 |

`PROJECT.json` lists for each hazard of this code its line and the properties
that would catch it.

## 2. Modules

| module | stands for | its state and actions |
|---|---|---|
| `StdQueue` | `stdqueue.c` | one shared load, store or increment per step; `pc[a]` is the next access of actor a; locals `curTail`, `curHead`, `val`, `ok` as in the code |
| `BoundedDeque` | the promise of `stdqueue.h` | a deque whose calls take effect at one instant |
| `Allocator` | what users of a heap rely on | who holds which blocks |
| `Heap` | `bootstrap_malloc.c` | per caller `hpc`: lock, test, move, unlock; `mem` is what the test found |
| `PageEntry` | `BUILD_ENTRY`, `GET_ADDR`, `GET_PG_CNT` | words of the ring: an address, and a length of at least 1 |
| `Loops` | C loops that know their number of turns | `Loop(n, Body, s0)`, the state behind n turns |
| `PageSort` | `partition_pgs`, `quicksort_pgs` | a partition as a loop of turns, each two scans and an exchange; the sort as a recursive function |
| `QuicksortStack` | the same, as it runs | a stack of calls, one turn of the loop per step |
| `RingSort` | the same, on its own | any window of any ring, for `MCRoutines` and `PhysMem_proofs` |
| `PhysMem` | `phys_mem.c` | one call per step (the allocator has no lock; its callers run one after the other, see `BootsAlone`), its loops by `Loops`: `PmemInitRegion`, `PmemInitDone`, `PmemAllocPage`, `PmemAllocDma`, `PmemFree`, `PmemFreeDma`; `held` is what callers have |
| `VirtMem` | `virt_mem.c` | one action per locked section; tables in the order of their allocation, top-level entries per space and per core; `vmem_map_st` as a recursive function of its calls (`MapSt`, `Enter`, `MapTables`, `MapPages`) on a world, a table with the lower tables |
| `Interrupts` | `idt.c` | per core a task (`tpc`: cli, lock, scan, write, unlock, sti) and on top of it an interrupt (`ipc`: lock, run, eoi); the local APIC as the pending (`irr`) and the served (`isr`) vectors |
| `IntrEntry` | the stubs of `idt_init`, `idt_defaulthandler`, `idt_mainhandler`, the accessors of the saved state in `smp.c` | registers and the stack, a sequence of words: `Raise`, `Stub`, `Save`, the handler with its exchange of threads, `Restore` |
| `IntrFrame` | the same, on its own | any vectors and threads, for `MCRoutines` and `Interrupts_proofs` |
| `BootInfo` | `set_bootinfo`, the loop of `pmem_init` | one entry of the boot loader's map per step |
| `IoApic` | `acpi_init.c`, `ioapic.c` | the MADT as a sequence, one redirection table per I/O APIC |
| `Acpi` | `acpi_tables_find_table` | an operator on root tables |
| `Msi` | `pci_getmsiinfo`, `pci_setmsiinfo`, `msi_register_addr`, `msi_register_data` | `GetMsiInfo`, `SetMsiInfo` of one driver; `Sent` is what its device does then |
| `Pci` | `pci_reg_init`, with the search of `Acpi` | one function per step, in two walks; slots number the devices of all buses, places their functions |
| `Edid` | `parse_edid` | a function of the bytes and of the structure's old contents |
| `Igfx` | `devices/intel_gfx/src` | `Match`, `CheckHotplug`, `ReadChunk` per four bytes, `SetUpDisplay`; `Plug` and `Unplug` are the environment |
| `Boot` | `main`, `setup_core` | composes the five modules above in the order of the boot; `MapLine` and `MaskLine` are drivers' calls |
| `TimerWait` | `timer_wait`, the tick | one statement per step, since an interrupt may come behind each |
| `Rtc` | `rtc.c` | read of the device, then one action per interrupt |
| `Timers` | registry, HPET, APIC timer, TSC | composes `TimerWait` and `Rtc`; timers tick at any time |
| `SmpBoot` | `setup_core`, `smp_bootstrap`, the initialisers they call, `smp.c`, `tls.c`, the trampoline | composes `TimerWait`; the BSP's and each core's steps interleave; a core's stack, TLS block, interrupt stack and page table are numbers of heap blocks |
| `CLibrary` | `string.c`, `stdlib.c` | operators on memories and numbers, beside what the C standard says |
| `Cpuid` | `cpuid_init` | one step from the processor to features and rates |

`MC*` modules give the constants of a run, with a configuration of the same
name; `MCRoutines` puts the parts that stand alone beside each other, one to a
behaviour (`part`). `*_proofs` modules hold theorems. The inductive invariants stand in the modules they are about, so that
TLC can check them too (`OwnersInv`, `TallyInv`, `ClockInv`, `CopyInv`, `PciInv`,
`TimersInv`, `VmInv` and so on). In each module an operator named
`X_Something` right before `X` is a broken variant of X, kept to show that the
property it is meant for notices.

## 3. What is checked

State counts are of distinct states.

| run | states | properties | bounds, and why they suffice |
|---|---|---|---|
| `queue` | 149 k | `SlotExclusive`, `FreshChecks`, `CountAccurate`, `Linearizable` | A ring of 4 slots, 3 values, one producer and one consumer, or one caller of all functions. Four slots are full at three entries and wrap; cursors meet at full and at empty. The refinement to `BoundedDeque` maps a call's effect to its publication. |
| `routines` | 82 k | `SortsInPlace`, `Terminates`, `LibraryRight`, `FrameRestored`, `MsiRouted`, `Allocates` | *Sort:* all rings of 5 slots and 5 words, windows of 4 at three places, two of which wrap; every partition of four elements comes up. *Library:* all memories of seven bytes over three values (strings that overlap and repeat themselves), memset on three words of eight bytes, numbers of nine bits. *Entry:* vectors with and without an error code, hardware and software ones, two threads. *MSI:* ten devices, with messages in registers or in a table behind a BAR of 32 or of 64 bits, both capabilities in either order, and none. *Heap:* two callers, an area of four blocks of 16 bytes, sizes that round up to one and two of them. |
| `phys` | 216 k | `CountsExact`, `NoSharedPage`, `NoLostPage`, `AllocFindsFit` | Five pages in one region and one in another, chunks of 4, a ring for 4 blocks, DMA blocks of a page and a half and of two pages. Small enough to fill the ring, large enough for a merge away from the head; both happen, and so do PANICs that resume. What this memory is too small for is said in section 6. |
| `phys_low` | | `OnlyManagedPages` (violated) | Eight pages in a row: the least that reaches the finding of section 6. |
| `intr` | 145 k | `NoSelfDeadlock`, `RegistrationsKept`, `ExclusiveOnce`, `FlagRestored`, `StableWalk`, `Acknowledged`, `CallsEnd` | Two cores, one of them with interrupts off, 6 vectors, 2 slots, 3 calls of five kinds, 2 interrupts of the first core or page faults of the second. Three calls overfill a vector while it is walked; two reservations compete for overlapping runs. One handler halts: a core that stops under the lock stops the others (`LockLost`), which the code cannot survive and the two liveness properties except. |
| `smp_boot` | 321 | `OwnMemory`, `BootsAlone`, `HandlersKept`, `StartupDelayed`, `Boots` | Four local APICs, the BSP's in the second place, a delay of two ticks. Three turns suffice for flags, stacks, offsets and counters left from an earlier turn. |
| `timers` | 264 k | `RegistryFits`, `OneShotOnce`, `WaitNotEarly`, `ClockRight`, `RequestsKept`, `ApicServes` | Four machines (with a TSC, without, with a periodic HPET, without a known bus frequency), two requests, waits of zero and two ticks, two seconds of the clock from before and behind a minute, an hour, noon, the last day of a month and the code's new year. |
| `timers_hpet` | | `WaitEnds` (violated) | One machine whose HPET is chosen for the wait. |
| `vmem` | 626 k | `SpacesSeparate`, `KernelShared`, `MapsExactly`, `UnusedSpacesKeep` | Three levels of 4 entries with pages of two sizes, two cores, two spaces, five tables, three requests for a space, one of them misaligned. Three levels have all roles: top (copied between cores), middle, bottom. |
| `boot` | 87 k | `RegionsFreedOnce`, `LinesRouted`, `PciListed`, `ModeShown` | Four memory maps and four MADTs without devices; four sets of functions on two buses of three devices, announced by root tables of both kinds with holes and a damaged MCFG among them, and seven monitors, one with borders and one on an analog port, on the smallest machine. With a damaged newer root table the boot ends at the MADT, without an MCFG at `StartWalk`: there is no list then, and `PciListed` says nothing. The parts meet only in the order of the boot and in what ends it, so varying one at a time loses nothing. Regions lie below, across, between and behind the reserved ranges, and end on their ends; functions are missing in the middle and at the end of a device. |
| `boot_types` | | `OnlyFreeRegions` (violated) | One map contains a region of another type. |
| `cpuid` | | `ApicRateKnown` (violated) | One processor for each branch. |

The type invariants (`TypeOK`, `HeapType` and the like) are proved where there is a
proof; elsewhere the other invariants, evaluated in every state, rest on them.

Deadlock is checked in `queue` and `smp_boot`. Elsewhere the system may stop: an
allocator has halted in a PANIC, all bounded calls are made, the boot is over.

Counters are cut by bounds named in the constants (`MaxCalls`, `MaxRaised`,
`MaxRequests`, `MaxCores`, `MaxInterrupts`, `MaxPlugs`, `MaxTables`,
`TimerWait!MaxElapsed`).

**Every property has a broken definition it notices.** They are listed under
"mutants" in `PROJECT.json`; each is a plausible mistake in the mapped code
(a test with `<=`, a forgotten reset, a lock that lets a second one in).

## 4. Fairness

  - `Interrupts!Fairness`: a core that is not halted keeps executing, its task and
    its handlers. Nothing is
    assumed of the spinlock. With a bounded number of calls weak fairness
    suffices for it to be taken eventually; with unboundedly many the code's
    test-and-set loop would allow a core to wait for ever, and no property
    claims otherwise.
  - `SmpBoot!FairSpec`: every core executes its code, and the BSP's periodic
    timer ticks. `Boots` says "provided every local APIC of the MADT starts": a
    listed processor that is disabled leaves `smp_init` spinning at `smp.c:46`,
    since the list is made from all entries.
  - `Timers!FairSpec`: the core executes, and a timer that counts keeps ticking.
    A `Tick` is enabled only if its device counts: the HPET's never is, because
    no code sets the enable bit.
  - `MCRoutines`: the core that sorts executes. Its other parts claim no liveness.

`hlt` is fair in the same sense: it ends with the next interrupt, whichever.

## 5. What is proved

By TLAPS, for every value of the constants that meets the named assumptions.

**`StdQueue_proofs`** (assumptions: the size is a positive natural, Zero is a value,
disciplines assign functions to actors). `TypeCorrect`: every variable keeps its type under
any discipline. `ChecksStayFresh` and `NoSlotRace`: if one actor enqueues and one dequeues
(`SPSC`), for any size, no two actors are about to access one slot. `SlotExclusive` is not
inductive: it needs that what an actor has read is still true. `FreshChecks` says that, as
`Roles` (who is in which function), `ProducerView` (the remembered tail is current; behind
the full test the ring has room) and `ConsumerView`. The lemma `SuccInjective` about the
ring's arithmetic carries it.

The second half goes on to what the queue is for. `QueueLinearizable`: under `SPSC` and
for any size, the ring implements `BoundedDeque` (`Linearizable`); every call takes effect
at one instant, first in first out, and is refused only when the queue is full or empty at
such an instant. `CountRight`: ent_cnt is off by exactly the calls between their effect and
their count (`CountAccurate`). Both rest on `DequeInv`, which adds `Remembered` to the
above: the slot the enqueuer has filled holds its value until it publishes it, and the value
the dequeuer has read is the slot's until it clears it. `DistFacts` and `PlaceFacts` are the
arithmetic: the places from head up to tail are distinct, and one step of either index adds
or takes one entry at its end. `ItemsKept` says that no other step changes the entries.

**`Heap_proofs`** (any callers, any area, any sizes but 0). `HeapAllocates`: the heap
implements `Allocator`, so that a block that is handed out lies in the area and overlaps no
block that anybody holds. It rests on `HeapInOrder`, the invariant `HeapInv`: under the lock
nobody else moves the position, and every block that is held, or is on its way in or out,
lies below it beside every other.

**`Interrupts_proofs`** (any cores, vectors, slots, handlers; requests are well formed;
FirstIrq is a vector). `TypeCorrect`. `LockNotInverted` and `WalksStable` follow from
`LockDiscipline`: the lock is held exactly by the one in its critical section, and a task
between cli and sti has interrupts off. `FlagGivenBack` rests on `FlagSaved`: the saved copy
equals what must be restored, for the retry and the PANIC too. `RegistrationsCorrect` (the
table holds what was registered) and `ReservationsExclusive` (no vector is reserved twice)
rest on `FreshPick`: what a scan has found is still free when it is written, because the
lock is held in between; the lemma `ScanFinds` says what a scan finds, and `LeastMember`
that a set of numbers has the least element that `LeastOr0` chooses. `FramesRestored`
(`IntrFrame`; any vectors but the four exceptions of section 6, any threads) rests on
`FrameInv`: a register that is on the stack is at the place `regs_t` gives it, whichever of
the two pushed the error code (`StubFrame`), and a thread that does not run has its
registers in `saved`, where the handler that left it put them (`MainFrame`). `LastFact` says
that what each register ends with is popped from its own place, rdi's second pop included.
`FrameRestored` follows, and with it that the vector, pushed as a signed byte, is used
as it was raised.

**`SmpBoot_proofs`** (any MADT without repetition, any BSP, any delay). `BootOrder` proves
the inductive invariant `BootInv`: the BSP's turn and step determine the step of every other
core (`TurnOrder`), blocks of memory grow with the turns (`MemoryOrder`), the shared offsets
are those the first core was given (`TlsPlaces`, `TlsNext`), and handlers are there from the
first core's turn on (`HandlerOrder`). `MemoryOwned` (no two cores share a stack, a TLS
block, a place in it or a table), `RegistrationsStay` (a later core's `idt_init` leaves the
shared handlers alone) and `CoresBootAlone` are its consequences. `StartupWaits` adds
`DelayOrder`: behind INIT the wait's count never runs ahead of the ticks since, so that a
core gets STARTUP no sooner than `smp_init` asks for (`StartupDelayed`). `BootsAlone` is also what
justifies that `PhysMem` takes a call as one step, and that other globals of the set-up have
no locks.

**`Timers_proofs`** (any machines whose HPET has a timer, any requests; the waits have a
longest one, which the counters' bound needs). The inductive invariant is `TimersInv`.
`RegisteredSoFar`: the step of the initialisation tells how many timers are registered,
which gives `RegistryLargeEnough` (`timer_register` tests nothing). `OneApic` and
`GrantsOrder`: a granted timer is in use, carries its request's handler, and no other timer
does; with one local APIC timer at most, a handler that is called is the one of the timer
that ticks, which `OneShotsOnce` needs. `RequestsStayKept` follows too. `WaitOrder`: the
wait's handler is called between enabling and disabling only, and what it has counted has
elapsed: `WaitsNotEarly`, although the counters are plain globals and interrupts come behind
every statement. `LeastMember` and `RequestFinds` say that the search of the registry finds
a free timer or none. `ClockKeepsTime`, for any number of ticks to a second and any time and
date that the device may hold (`RtcAssumption`): the time of day and the weekday that
`rtc_interrupt` makes of its counters are those the device was read at plus the seconds
passed, and so is the date up to the 30th of that month (`ClockRight`). It says nothing of a
12-hour device that is read at 12 AM or 12 PM, which the code reads wrong, nor of the date
from the end of a month on and in December, where the code's carries are wrong ("TODO").
Its invariant
`ClockInv` ties the interrupts to the seconds counted, and hours, minutes, seconds, weekday
and date to the seconds since the device was read; a carry of any of them is then arithmetic
of quotients.

**`PhysMem_proofs`** is the largest. It assumes that the ring has the size `pmem_init` gives
it (`RingSizeAssumption`), that regions share no page and none has page 0
(`MemoryMapAssumption`: page-aligned maps, as `boot_info.c` offers them), and that no DMA
request is for 0 bytes (`DmaSizesAssumption`). Loops, memory and requests may be of any
length.

  - `OneOwnerEach`: no page is in two free blocks, with two callers, or free while held
    (`NoSharedPage`), through dropped blocks and PANICs that resume, too. The invariant
    `OwnersInv` must speak of every slot of the ring and not of the window between head and
    tail: a merge leaves a dropped block in its slot, behind the window, and sorting an
    empty queue brings it back. It says that the words of the slots, and what callers hold,
    stand for sets of pages of the memory map without a common element. Page 0 is excepted,
    as a cleared word reads as one page at 0.
  - `SortStays`: the quicksort stays in every set of rings that exchanges of slots of its
    window stay in (`Closed`): the pages stay what they are, whatever the order.
  - `RingSorted`: that the order is right, for the stack of calls of `QuicksortStack`, any
    ring and any window of it that fits (`SortAssumption` of `RingSort`, which the runs and
    the proof share). By `TurnSorts`, what the upward scan has passed is
    at or below the pivot and what the downward scan has passed at or above it, so that
    nothing in a partition's first part lies above anything in its second
    (`PartitionOrders`). The invariant `SortInv` says that the open calls have parts of their
    own, and that two blocks in the wrong order lie in one of them (`PartsOpen`); that every
    word occurs as often as it did and the slots outside are as they were (`Shuffles`); and
    that what the open calls still have to do is what is left of the recursive function
    (`Computes`): `SortsInPlace`. Different positions of the window must be different
    slots (`SlotsApart`), which is why it must not be longer than the ring.
  - `NoneLost` and `Counted`: as long as no merge has dropped a block, nothing lies behind
    the window, every block of it has an address, and ent_cnt is its length; until an
    insertion is given up, the free blocks are all pages that nobody holds, and free_mem is
    BTM_LEVEL times their number. That is `TallyInv`; it needs `OwnersInv`, because a page
    that would be in two places would be counted twice. `NoLostPage` and `CountsExact`
    follow.
  - `FitsFound`: if ent_cnt is right and an allocation fails, no block was large enough
    (`AllocFindsFit`). Behind turn k of a pass the blocks are those of the start, rotated by
    k (`Rotated`), unless one of them fitted.

Each part of an operation (a sort, a merge, a compaction, an insertion, taking a block, a
turn of either loop) is a lemma about a queue in `Tracked(A, m, c)`: one whose words stand
for pages of A, and for which the claims of `TallyInv` hold where the flags m and c ask for
them. `CompactTurns`, `FreeTurns` and `ScanTurns` unfold the loops. The library's induction
theorems cannot be instantiated by the installed provers; `SetInduction` derives induction
over a set of numbers from the existence of a least counterexample (`LeastMember`).

**`VirtMem_proofs`**, for any depth, size of tables and page sizes that nest
(`LevelsAssumption`), any requests whose addresses lie in the half their sign says
(`RequestsAssumption`), misaligned ones included, and any cores and spaces. The code
notes neither the level nor the owner of a page table; `VmInvariant` says that there is an
assignment of both (`g` of `TablesOwned`) which every saved half, every core's table and
every lower table agree with: an entry is empty, maps a page of a size its level allows, or
refers to a table of the next level and the same owner. Separate spaces are not inductive
without it, since a mapping writes to tables far below the entries they are told apart by.

  - `MapExists`: the recursion of `vmem_map_st` ends, as `Rank` falls with every level and
    every entry, so that `MapSt` is what its equation says. The SetInduction lemma and
    `MapTablesUses` (a call looks at calls of lower rank only) build the function rank by rank.
  - `MapStGood`: whatever a request does, continued or given up half-way, it leaves a world
    of the same owner that has grown from the old one (`Good`, `Grows`): old tables keep
    level and owner, an entry in use is kept unless it is a large page at address 0, and
    new tables take the owner of the table that refers to them.
  - `Separation` (`SpacesSeparate`): a table that is referred to has one owner.
    `KernelAgreed` (`KernelShared`): by `KernelOrder` a core alone has the kernel half
    itself, and what others have of it stays true, since entries of the top level are
    never pages and so are never replaced.
  - `UnusedSpaces` (`UnusedSpacesKeep`): by `WalkKeeps`, the walk of `vmem_virttophys` finds
    in a grown world, level by level, what it found before, or an entry that counted as free.

**`Boot_proofs`**. `RegionsFreed`, for any page-aligned memory maps whose regions do not
overlap, any page size and any kernel that begins not behind the first 2 MiB
(`MapsAssumption`): what `pmem_init` frees of the map is what lies behind 2 MiB and behind
the kernel, each page once (`RegionsFreedOnce`). By `CopyInv`, each copied region is what is
kept of one entry of its own, and nothing that is kept of an entry is missing. `PciFound`,
for any functions on any buses, one to a place, and any root tables whose MCFG entries do
not overlap (`PciAssumption`): the list that drivers search holds every function once, with
its configuration space (`PciListed`). By `PciInv`, the first walk has counted the functions
before its cursor; in the second, idx is their number, and the entries below idx and those
functions correspond one to one. A write for an absent function goes to idx, behind the
entries: that is why the second walk may write before it looks.

**Only model-checked**: liveness (`Boots`, `CallsEnd`, `Acknowledged`, `Terminates`,
`ApicServes`) and everything under fairness; `MapsExactly` of `VirtMem`, which relates what
the recursion writes to where the walk arrives, page by page; `LinesRouted` and `ModeShown`,
whose loops over tables are folds; `LibraryRight`, which says what recursive definitions
compute (induction over data); `MsiRouted`, which is about concrete devices; and the queue with front enqueues, whose only discipline is a single
caller.

## 6. Where code and documents disagree

Four are runs that TLC ends with a violation:

1. **`OnlyManagedPages`**: `compact_queue` merges the blocks at lo and hi, clears the word
   at lo and moves head on by one (`phys_mem.c:112-115`). If lo is not head, the block at
   head is dropped, and a word 0 stays in the ring: it reads as one page at address 0, which
   is handed out, against "Reserve everything below 2M" (`boot_info.c:80`). `NoLostPage` and
   `CountsExact` state what holds until then, `NoSharedPage` what holds even afterwards. The
   count is off afterwards: dropped blocks stay in their slots behind the window, and
   `compact_queue` takes an empty queue for a full one. Three dropped blocks, two of them
   neighbours, are enough for the compaction of an empty queue to merge two and to leave
   ent_cnt at -1; from then on the passes of `pagealloc_alloc` visit fewer blocks than there
   are. The shortest history found has a ring of 31 slots and pages 2 to 11, too large for
   the run `phys`. `AllocFindsFit` therefore takes the count as a premise, and where the
   count is right it is proved.
2. **`WaitEnds`**: `hpet.c:280` says "Enable the counter", and the line behind it writes 0
   to GlobalEnable; a wait for which the HPET is selected halts for ever, because nothing
   ever starts its counter.
3. **`OnlyFreeRegions`**: `pmem_init` frees regions of every type (275), although
   `boot_info.h:18` says of one type only "The region is free", and `pmem_init` announces
   all of them as "Free zones" (285).

4. **`ApicRateKnown`**: `cpuid_init` adds the extended model bits for family 15 only
   (`cpuid.c:164`), and then looks for models such as "case 0x2a: // Sandy Bridge" (217) of
   family 6, which need these bits: the branch "MSR_PLATFORM_INFO gives the apic rate" (229)
   is never taken. Where leaf 16h reads as 0, as in virtual machines, the rate stays 0 and
   the local APIC timer is started with a count of 0, which stops it (`apic.c:149`).

Seen while modelling, and kept in the models as the code has it. Comments contradict the
code in some of these places, and are quoted there; they are not runs because no property
of the models is about what they claim (a stack's depth, the size of the ring, the unit of
a counter, the kind of a port), or because the boot just ends (a missing MCFG). Of the
others no document says anything:

  - `phys_mem.c`: the quicksort recurses into the larger part (86-91), so its
    depth is linear, under the comment "Ensure log(n) stack usage by always recursing the
    smaller partition" (85); pmem_init rounds a region's start up without shortening it
    (281); the ring is sized for half of the pages, as "Worst case requires half
    the number of entries as are pages" (267), which compaction does not guarantee; the DMA functions ignore their flags (179, 208).
  - `virt_mem.c`: large pages are chosen by the size alone (195); the size of a misaligned
    range may wrap (260), and one that runs on behind the user's half writes behind `ptable`
    (such calls are left out: `MapSt` returns "undefined" for them); a range that
    crosses the end of a table of tables without starting on an entry of it skips
    pages (257-262); an entry of physical address 0 counts as free (239-245): the
    precondition `Aligned` and the exception `AtZero` of `MapsExactly` say exactly
    when. `vmem_savestate` takes kernel mappings back that other cores have made
    (392), what `dropped` records; what is mapped into a space in use is lost with
    the next save (328).
  - `idt.c:145`: a run of free vectors that ends at 255 is never found.
  - `timers`: the RTC counts seconds (110), although it is to "maintain system time
    in ms" (`rtc.c:146-147`), and registers its count at a rate of 1000;
    reads 12 AM as 12 and 12 PM as 24, and months have 30 days (125, "TODO");
    `hpet.c:212` allocates one byte more than TimerCount entries where it needs one entry more; the line search
    (243) does not end for a timer that can be routed nowhere; its handler calls
    the handlers of all enabled timers (149). One-shot requests are never released,
    so that a later `timer_wait` may find no timer and PANIC. The wait counters are
    shared by all cores ("TODO Figure out how to handle smp timer usage").
  - `acpi_init.c:58` compares a distance with an index, `ioapic.c:93-120` uses the
    line as the pin: right with one I/O APIC, which is what `LinesRouted` states.
  - `pci.c`: the second walk writes an entry before it tests whether the function
    is there, so the last one may be written behind the array (`StoreFunction` has
    that memory as its last index); "Find the ECAM address if possible" (220) is followed by
    a read of the MCFG's length, whether it was found or not (222), so that a machine without
    one faults.
  - `pci.c`: the count of messages is that of the last capability even if MSI-X is
    used; `interrupt_allocate` does not align a run of vectors, which plain MSI
    needs (`SetMsiInfo` takes aligned runs only). `acpi.c`: a damaged XSDT is not replaced by the
    RSDT, and gives -1 (52), which `acpi_init.c:93` does not take for a missing MADT. `idt.c`: exceptions 17, 21, 29 and 30 get a dummy error code besides the
    processor's own; none of them is ever enabled.
  - `cpuid.c`: the product of crystal and ratio is taken in 32 bits.
  - `string.c`, `stdlib.c`: memcmp looks at a byte before it looks at the count, so
    that 0 compares everything; strncmp goes on behind the end of equal strings;
    strncpy writes no zeros; strrchr skips the first character; atoi knows base 16
    only and loses the top five bits. `LibraryRight` says on which arguments each
    function is right.
  - `edid.c`: `+` binds closer than `&` (116), so that vertical pulses of 16 lines
    or more come out wrong; a name becomes 13 times its first byte (92); the first
    mode is used when there is none (`display.c:252`). A monitor on an analog port is
    accepted and shown like any other, although "Only handle digital ports for now" (16).
    `display.c:141-151`: a border lies on either side of the picture, but the total counts
    one, so that a line of VESA's 640 pixels with borders of 8 and a blanking of 144 is 792
    long and not 800. `ModeShown` excepts the pulses, the total of a direction with a border,
    and monitors without a mode.
  - `gmbus.c:37`: a monitor unplugged during the read leaves the boot in an endless
    wait (in `Igfx`: `ReadChunk` has no other way out). `checkhotplugs` is called
    once, so that plugging and unplugging have no effect afterwards.
  - `tls.c:24`: every core resets the one `tls_alloc_off`, which is right as long
    as cores start one at a time (`BootsAlone`) and each takes the same offsets, which
    `OwnMemory` states.

## 7. Assumptions about the environment

  - Atomics are sequentially consistent, as `_Atomic` without an order is.
    Plain slots of the ring are accessed in program order, which `SlotExclusive`
    makes immaterial.
  - Memory maps are page aligned and their regions do not overlap. MADTs name each
    processor and each line once. Malloc does not fail during the boot.
  - Handlers do not call back into `idt.c`; none in the tree does.
  - `SmpBoot` takes the wait to be on the local APIC timer.
  - The monitors of `boot` describe their preferred mode in the first of the
    descriptors that is a mode, as VESA has it.

## 8. What is not modelled, and why

`boot.S`, the old PIC, `fpu.c` and the contents of descriptor tables: straight lines
of register writes, without a state that anything else reads. Debug output: text to a
port. In modelled components: `queue_fini`, `vmem_unmap_st` (called with a size of 0
only), `vmem_vmalloc` and `apic_timer_tsc_init` (no caller), permissions and TLBs; the
bits of an I/O APIC's register and of a gate; `pci_parsebar`, `pci_getbarsize` and
`pci_isbario`, which read or probe one register; the values of counters; the tags of
the boot loader that are copied field by field; fields of an EDID that nobody reads;
`gtt.c` and `thread.c`, which have no code.

Two cores that use the page allocator, the registry of timers or a wait at once are
not modelled: nothing in the tree does, the other cores being started one at a time
(`BootsAlone`) and spinning afterwards. What the code leaves open there, it says
itself ("TODO Figure out how to handle smp timer usage").

## 9. Plan

Done: the queue with its abstract specification and its refinement proof, the
allocator and its sort, interrupts, waits and the start of the cores with the memory
each gets, the heap with its abstract specification and proof, timers, virtual memory,
the boot and ACPI tables, PCI with message-signalled interrupts, graphics, the way
into an interrupt, the C library, the processor's rates; proofs of the allocator and its sort, the clock,
the copied memory map, the list of PCI functions and the page tables.

What could follow:

1. Proofs: `MapsExactly`, by an account of the range a call of `vmem_map_st` has covered;
   `LinesRouted` from a lemma about the fold over the MADT;
   `MsiRouted` for any capabilities.
2. Model: `checkhotplugs` called again, as its second branch intends; address spaces
   in use on two cores at once, once something schedules them.

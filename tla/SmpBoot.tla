------------------------------ MODULE SmpBoot ------------------------------
(***************************************************************************)
(* How every core gets its memory and tables, and how the bootstrap        *)
(* processor (BSP) starts the others: setup_core and smp_bootstrap of      *)
(* kernel/src/main.c, the initialisers they call, smp_init and             *)
(* smp_signalready of smp.c, and the trampoline.  The BSP sets itself up,  *)
(* then starts one core at a time: a fresh stack in tramp_stack, INIT, a   *)
(* timed wait, STARTUP, then a spin on core_ready.                         *)
(*                                                                         *)
(* A heap block is a number: malloc hands out the next one (Heap.tla shows *)
(* that blocks do not overlap).  A core-local structure is an offset into  *)
(* the core's TLS block; the pointer that holds the offset, and the        *)
(* allocation offset of tls.c, are globals all cores share.                *)
(***************************************************************************)
EXTENDS Integers, Sequences, FiniteSets

CONSTANTS
  Lapics,     \* the MADT's local APICs in order: a sequence of ids
  Bsp,        \* the id of the BSP
  Delay       \* the 10 ms between INIT and STARTUP, in timer ticks

(* The MADT lists each local APIC once, the BSP's among them.              *)
ASSUME LapicsAssumption ==
  /\ Lapics \in Seq(Nat)
  /\ \A i, j \in 1 .. Len(Lapics) : Lapics[i] = Lapics[j] => i = j
ASSUME DelayAssumption == Delay \in Nat

APs == {Lapics[i] : i \in 1 .. Len(Lapics)} \ {Bsp}
Cores == APs \cup {Bsp}

NULL == 0
TLS_SIZE == 16384

(* What each core keeps in its TLS block, and its size.                    *)
Size == [lcl |-> 16, gdt |-> 16, idt |-> 32, apic |-> 16, apic_state |-> 16]
Local == DOMAIN Size

(* Where interrupt handlers are registered during the set-up.              *)
Handlers == {"irq0", "irq1", "pf_intr", "intrpt_num"}

VARIABLES
  pc,          \* the step each core is about to take
  turn,        \* smp_init's loop counter i, from 1
  core_ready, coreCount,
  blocks,      \* how many blocks the heap has handed out
  uses,        \* the blocks each core uses: its stack, TLS block and tables
  tramp_stack, \* the block of the newest stack
  tls_alloc_off,
  ptr,         \* the shared pointers lcl, gdt, idt, apic, apic_state
  at,          \* where each core has put its structure, -1 if it has not
  int_arr_inited, apic_init_done, proc_idx_cntr,
  interrupt_funcs,  \* how often each handler is registered
  wpc, want, timer_wait_pending, timer_wait_count, timer_wait_target,
  armed, elapsed,   \* the BSP's timer_wait
  quiet        \* ticks since the last INIT, up to Delay

flags   == <<core_ready, coreCount>>
memory  == <<blocks, uses, tramp_stack>>
tls     == <<tls_alloc_off, ptr, at>>
tables  == <<int_arr_inited, apic_init_done, proc_idx_cntr, interrupt_funcs>>
timer   == <<wpc, want, timer_wait_pending, timer_wait_count, timer_wait_target,
             armed, elapsed>>
vars    == <<pc, turn, flags, memory, tls, tables, timer, quiet>>

T == INSTANCE TimerWait WITH Waits <- {Delay}

Target == Lapics[turn]

Init ==
  /\ pc = [c \in Cores |-> IF c = Bsp THEN "tls" ELSE "off"]
  /\ turn = 1
  /\ core_ready = 0 /\ coreCount = 1
  /\ blocks = 0 /\ tramp_stack = 0
  /\ uses = [c \in Cores |-> {}]
  /\ tls_alloc_off = 0
  /\ ptr = [s \in Local |-> NULL]
  /\ at = [c \in Cores |-> [s \in Local |-> -1]]
  /\ int_arr_inited = FALSE /\ apic_init_done = FALSE /\ proc_idx_cntr = 0
  /\ interrupt_funcs = [h \in Handlers |-> 0]
  /\ T!Init
  /\ quiet = 0

Goto(c, from, to) == pc[c] = from /\ pc' = [pc EXCEPT ![c] = to]

-----------------------------------------------------------------------------
(* malloc, n times, for core c.                                            *)
Malloc(c, n) ==
  /\ blocks' = blocks + n
  /\ uses' = [uses EXCEPT ![c] = @ \cup (blocks + 1 .. blocks + n)]
  /\ UNCHANGED tramp_stack

(* tls_alloc for the structure s; it panics when the block is full.        *)
TlsAlloc(s) ==
  /\ tls_alloc_off + Size[s] < TLS_SIZE
  /\ ptr' = [ptr EXCEPT ![s] = tls_alloc_off]
  /\ tls_alloc_off' = tls_alloc_off + Size[s]

(* Core c fills in its structure s, which is allocated if "missing".       *)
Place(c, s, missing) ==
  /\ IF missing THEN TlsAlloc(s) ELSE UNCHANGED <<ptr, tls_alloc_off>>
  /\ at' = [at EXCEPT ![c][s] = ptr'[s]]

TlsInit(c) ==
  /\ Goto(c, "tls", "vmem")
  /\ Malloc(c, 1)
  /\ tls_alloc_off' = 0
  /\ UNCHANGED <<turn, flags, ptr, at, tables, timer, quiet>>

(* vmem_init, and vmem_mp_init, which takes lcl to be there.               *)
VmemInit(c) ==
  /\ Goto(c, "vmem", "gdt")
  /\ Place(c, "lcl", c = Bsp /\ ptr["lcl"] = NULL)
  /\ UNCHANGED <<turn, flags, memory, tables, timer, quiet>>

(* Mutant of GdtInit: every core allocates the structure.                  *)
GdtInit_Again(c) ==
  /\ Goto(c, "gdt", "idt")
  /\ Place(c, "gdt", TRUE)
  /\ Malloc(c, 3)
  /\ UNCHANGED <<turn, flags, tables, timer, quiet>>

(* The GDT, the TSS and the stack for interrupts.                          *)
GdtInit(c) ==
  /\ Goto(c, "gdt", "idt")
  /\ Place(c, "gdt", ptr["gdt"] = NULL)
  /\ Malloc(c, 3)
  /\ UNCHANGED <<turn, flags, tables, timer, quiet>>

(* Mutant of IdtInit: every core clears the handlers.                      *)
IdtInit_Clears(c) ==
  /\ Goto(c, "idt", IF c = Bsp THEN "handlers" ELSE "apic")
  /\ Place(c, "idt", ptr["idt"] = NULL)
  /\ proc_idx_cntr' = proc_idx_cntr + 1
  /\ Malloc(c, 2)
  /\ interrupt_funcs' = [h \in Handlers |-> 0]
  /\ int_arr_inited' = TRUE
  /\ UNCHANGED <<turn, flags, apic_init_done, timer, quiet>>

IdtInit(c) ==
  /\ Goto(c, "idt", IF c = Bsp THEN "handlers" ELSE "apic")
  /\ Place(c, "idt", ptr["idt"] = NULL)
  /\ proc_idx_cntr' = proc_idx_cntr + 1
  /\ Malloc(c, 2)
  /\ interrupt_funcs' = IF int_arr_inited THEN interrupt_funcs ELSE [h \in Handlers |-> 0]
  /\ int_arr_inited' = TRUE
  /\ UNCHANGED <<turn, flags, apic_init_done, timer, quiet>>

(* setup_core registers the spurious and the page fault handlers.          *)
RegisterHandlers ==
  /\ Goto(Bsp, "handlers", "apic")
  /\ interrupt_funcs' =
       [h \in Handlers |-> interrupt_funcs[h] + IF h = "intrpt_num" THEN 0 ELSE 1]
  /\ UNCHANGED <<turn, flags, memory, tls, int_arr_inited, apic_init_done,
                 proc_idx_cntr, timer, quiet>>

ApicInit(c) ==
  /\ Goto(c, "apic", "timer")
  /\ Place(c, "apic", ptr["apic"] = NULL)
  /\ UNCHANGED <<turn, flags, memory, tables, timer, quiet>>

(* timer_init and timer_mp_init both end in apic_timer_init, which         *)
(* registers apic_handler once, for all cores.                             *)
TimerInit(c) ==
  /\ Goto(c, "timer", IF c = Bsp THEN "next" ELSE "count")
  /\ Place(c, "apic_state", ptr["apic_state"] = NULL)
  /\ interrupt_funcs' =
       [interrupt_funcs EXCEPT !["intrpt_num"] = IF apic_init_done THEN @ ELSE @ + 1]
  /\ apic_init_done' = TRUE
  /\ UNCHANGED <<turn, flags, memory, int_arr_inited, proc_idx_cntr, timer, quiet>>

SetUp(c) == \/ TlsInit(c) \/ VmemInit(c) \/ GdtInit(c) \/ IdtInit(c)
            \/ ApicInit(c) \/ TimerInit(c)

-----------------------------------------------------------------------------
(* The loop of smp_init skips the BSP's own entry.                         *)
BspNext ==
  /\ pc[Bsp] = "next"
  /\ IF turn > Len(Lapics)
       THEN pc' = [pc EXCEPT ![Bsp] = "done"] /\ UNCHANGED turn
       ELSE IF Target = Bsp
       THEN turn' = turn + 1 /\ UNCHANGED pc
       ELSE pc' = [pc EXCEPT ![Bsp] = "clear"] /\ UNCHANGED turn
  /\ UNCHANGED <<flags, memory, tls, tables, timer, quiet>>

(* Mutant of BspClear: core_ready keeps the last core's signal.            *)
BspClear_Forgotten ==
  /\ Goto(Bsp, "clear", "stack")
  /\ UNCHANGED <<turn, flags, memory, tls, tables, timer, quiet>>

BspClear ==
  /\ Goto(Bsp, "clear", "stack")
  /\ core_ready' = 0
  /\ UNCHANGED <<turn, coreCount, memory, tls, tables, timer, quiet>>

(* alloc_ap_stack                                                          *)
BspStack ==
  /\ Goto(Bsp, "stack", "init")
  /\ blocks' = blocks + 1
  /\ tramp_stack' = blocks + 1
  /\ UNCHANGED <<turn, flags, uses, tls, tables, timer, quiet>>

BspInit ==
  /\ pc[Bsp] = "init"
  /\ pc' = [pc EXCEPT ![Bsp] = "delay", ![Target] = "reset"]
  /\ quiet' = 0
  /\ UNCHANGED <<turn, flags, memory, tls, tables, timer>>

BspDelay ==
  /\ Goto(Bsp, "delay", "wait")
  /\ T!Begin(Delay)
  /\ UNCHANGED <<turn, flags, memory, tls, tables, quiet>>

BspWait ==
  /\ pc[Bsp] = "wait"
  /\ T!Step
  /\ UNCHANGED <<pc, turn, flags, memory, tls, tables, quiet>>

(* A core that is not waiting for STARTUP ignores it.                      *)
Started(t) == IF pc[t] = "reset" THEN "trampoline" ELSE pc[t]

(* Mutant of BspStartup: STARTUP is sent while the wait goes on.           *)
BspStartup_Early ==
  /\ pc[Bsp] = "wait"
  /\ pc' = [pc EXCEPT ![Bsp] = "spin", ![Target] = Started(Target)]
  /\ UNCHANGED <<turn, flags, memory, tls, tables, timer, quiet>>

BspStartup ==
  /\ pc[Bsp] = "wait" /\ wpc = "idle"
  /\ pc' = [pc EXCEPT ![Bsp] = "spin", ![Target] = Started(Target)]
  /\ UNCHANGED <<turn, flags, memory, tls, tables, timer, quiet>>

BspSpin ==
  /\ core_ready # 0
  /\ Goto(Bsp, "spin", "next")
  /\ turn' = turn + 1
  /\ UNCHANGED <<flags, memory, tls, tables, timer, quiet>>

BspStep == \/ SetUp(Bsp) \/ RegisterHandlers
           \/ BspNext \/ BspClear \/ BspStack \/ BspInit \/ BspDelay
           \/ BspWait \/ BspStartup \/ BspSpin

SettingUp == {"tls", "vmem", "gdt", "idt", "handlers", "apic", "timer"}

(* The BSP has interrupts on once it is set up; the others never turn them *)
(* on.                                                                     *)
Interrupt ==
  /\ pc[Bsp] \notin SettingUp
  /\ (T!Tick /\ UNCHANGED armed) \/ T!OtherInterrupt
  /\ quiet' = IF T!Tick /\ quiet < Delay THEN quiet + 1 ELSE quiet
  /\ UNCHANGED <<pc, turn, flags, memory, tls, tables>>

-----------------------------------------------------------------------------
(* mov tramp_stack, %rsp                                                   *)
ApTrampoline(a) ==
  /\ Goto(a, "trampoline", "tls")
  /\ uses' = [uses EXCEPT ![a] = @ \cup {tramp_stack}]
  /\ UNCHANGED <<turn, flags, blocks, tramp_stack, tls, tables, timer, quiet>>

(* smp_signalready                                                         *)
ApCount(a) ==
  /\ Goto(a, "count", "signal")
  /\ coreCount' = coreCount + 1
  /\ UNCHANGED <<turn, core_ready, memory, tls, tables, timer, quiet>>

(* Mutant of ApSignal: the core loops without a signal.                    *)
ApSignal_Silent(a) ==
  /\ Goto(a, "signal", "loop")
  /\ UNCHANGED <<turn, flags, memory, tls, tables, timer, quiet>>

ApSignal(a) ==
  /\ Goto(a, "signal", "loop")
  /\ core_ready' = 1
  /\ UNCHANGED <<turn, coreCount, memory, tls, tables, timer, quiet>>

ApStep(a) == ApTrampoline(a) \/ SetUp(a) \/ ApCount(a) \/ ApSignal(a)

Next == BspStep \/ Interrupt \/ \E a \in APs : ApStep(a)

Spec == Init /\ [][Next]_vars

(* Every core executes its code, and the periodic timer ticks.             *)
FairSpec ==
  /\ Spec
  /\ WF_vars(BspStep)
  /\ WF_vars(T!Tick /\ Interrupt)
  /\ \A a \in APs : WF_vars(ApStep(a))

-----------------------------------------------------------------------------
Booting(a) == pc[a] \in {"trampoline", "count", "signal"} \cup SettingUp

Overlap(a, m, b, n) == a < b + n /\ b < a + m

(* No two cores use the same memory: the stacks all come through the one   *)
(* variable tramp_stack, which each core loads at a time of its own.  And  *)
(* each core's TLS block holds its structures where the shared pointers    *)
(* say, apart from each other, although every tls_init resets the shared   *)
(* tls_alloc_off to 0.                                                     *)
OwnMemory ==
  /\ \A c, d \in Cores : c # d => uses[c] \cap uses[d] = {}
  /\ \A c \in Cores : \A s \in Local : at[c][s] # -1 =>
       /\ at[c][s] = ptr[s]
       /\ \A t \in Local \ {s} : at[c][t] # -1 =>
            ~ Overlap(at[c][s], Size[s], at[c][t], Size[t])

(* What the BSP registered stays registered, once, while the other cores   *)
(* run idt_init and apic_timer_init over the same tables.                  *)
HandlersKept ==
  [][\A h \in Handlers : interrupt_funcs[h] # 0 =>
        interrupt_funcs'[h] = interrupt_funcs[h]]_vars

(* A core sets itself up alone: while one is between STARTUP and its       *)
(* signal, no other is, and the BSP only spins.  It is what makes the      *)
(* allocator (pmem_allocpage in vmem_mp_init), tls_alloc_off and the other *)
(* globals of the set-up safe without locks.                               *)
BootsAlone ==
  \A a \in APs : Booting(a) =>
    /\ pc[Bsp] = "spin" /\ Target = a
    /\ \A b \in APs : Booting(b) => a = b

(* STARTUP follows INIT by the delay smp_init asks timer_wait for.         *)
StartupDelayed ==
  [][\A a \in APs : pc[a] = "reset" /\ pc'[a] = "trampoline" => quiet >= Delay]_vars

AllCounted == /\ coreCount = Cardinality(APs) + 1
              /\ \A a \in APs : pc[a] = "loop"

(* smp_init returns, provided every local APIC of the MADT starts; by then *)
(* every one but the BSP's has reached smp_signalready, and smp_corecount  *)
(* counts them all.                                                        *)
Boots == <>[](pc[Bsp] = "done" /\ AllCounted)

-----------------------------------------------------------------------------
(* Where the BSP is in its turn fixes where every core is: those of later  *)
(* turns are off, those of earlier turns loop, and the one whose turn it   *)
(* is can be under way only while the BSP spins for it, with core_ready    *)
(* clear until it signals.                                                 *)
TurnOrder ==
  \A i \in 1 .. Len(Lapics) : Lapics[i] # Bsp =>
    /\ i > turn \/ pc[Bsp] \in SettingUp => pc[Lapics[i]] = "off"
    /\ i < turn => pc[Lapics[i]] = "loop"
    /\ i = turn =>
         /\ pc[Bsp] \in {"next", "clear", "stack", "init"} => pc[Lapics[i]] = "off"
         /\ pc[Bsp] \in {"delay", "wait"} => pc[Lapics[i]] = "reset"
         /\ pc[Bsp] = "spin" => \/ Booting(Lapics[i]) /\ core_ready = 0
                                \/ pc[Lapics[i]] = "loop" /\ core_ready = 1

Steps == SettingUp \cup {"next", "clear", "stack", "init", "delay", "wait", "spin", "done"}

TurnType ==
  /\ turn \in Nat /\ turn >= 1
  /\ DOMAIN pc = Cores
  /\ pc[Bsp] \in Steps
  /\ pc[Bsp] \in SettingUp => turn = 1
  /\ pc[Bsp] \in {"clear", "stack", "init", "delay", "wait", "spin"} =>
       turn <= Len(Lapics) /\ Target # Bsp
  /\ pc[Bsp] = "done" => turn > Len(Lapics)
  /\ pc[Bsp] \in {"stack", "init", "delay", "wait"} => core_ready = 0

(* Until the core of this turn has loaded the newest stack, nobody uses it.*)
MemoryOrder ==
  /\ blocks \in Nat
  /\ uses \in [Cores -> SUBSET (1 .. blocks)]
  /\ \A c, d \in Cores : c # d => uses[c] \cap uses[d] = {}
  /\ /\ pc[Bsp] \in {"init", "delay", "wait", "spin"}
     /\ pc[Target] \in {"off", "reset", "trampoline"}
     => tramp_stack \in 1 .. blocks /\ \A c \in Cores : tramp_stack \notin uses[c]

(* The BSP places the structures one after the other, and no core after it *)
(* moves them: the steps before a structure's placing, and its offset.     *)
Todo == [lcl |-> {"tls", "vmem"}, gdt |-> {"tls", "vmem", "gdt"},
         idt |-> {"tls", "vmem", "gdt", "idt"},
         apic |-> {"tls", "vmem", "gdt", "idt", "handlers", "apic"},
         apic_state |-> SettingUp]

Offset == [lcl |-> 0, gdt |-> 16, idt |-> 32, apic |-> 64, apic_state |-> 80]

Idle == {"off", "reset", "trampoline"}

TlsPlaces ==
  /\ ptr \in [Local -> Nat] /\ at \in [Cores -> [Local -> Int]]
  /\ \A s \in Local : ptr[s] = IF pc[Bsp] \in Todo[s] THEN NULL ELSE Offset[s]
  /\ \A c \in Cores, s \in Local :
       at[c][s] = IF pc[c] \in Todo[s] \cup Idle THEN -1 ELSE Offset[s]

TlsNext ==
  /\ tls_alloc_off \in Nat
  /\ pc[Bsp] = "vmem" => tls_alloc_off = 0
  /\ pc[Bsp] = "gdt" => tls_alloc_off = 16
  /\ pc[Bsp] = "idt" => tls_alloc_off = 32
  /\ pc[Bsp] \in {"handlers", "apic"} => tls_alloc_off = 64
  /\ pc[Bsp] = "timer" => tls_alloc_off = 80

HandlerOrder ==
  /\ interrupt_funcs \in [Handlers -> Nat]
  /\ pc[Bsp] \notin Todo["idt"] => int_arr_inited
  /\ pc[Bsp] \in Todo["idt"] \cup {"handlers"} => \A h \in Handlers : interrupt_funcs[h] = 0
  /\ pc[Bsp] \in {"apic", "timer"} => interrupt_funcs["intrpt_num"] = 0
  /\ pc[Bsp] \notin SettingUp => apic_init_done

BootInv == TurnType /\ TurnOrder /\ MemoryOrder /\ TlsPlaces /\ TlsNext /\ HandlerOrder

(* While the BSP waits, the handler's count lags behind the ticks since     *)
(* INIT, and only a count that has reached the target lets the wait end.   *)
DelayOrder ==
  /\ timer_wait_count \in Nat /\ quiet \in Nat /\ quiet <= Delay
  /\ armed <=> wpc \in {"check", "halt", "halted", "disable"}
  /\ pc[Bsp] # "wait" => wpc = "idle"
  /\ pc[Bsp] = "wait" =>
       /\ want = Delay
       /\ wpc \in {"idle", "disable"} => quiet = Delay
       /\ wpc \in {"pending", "target", "enable"} => timer_wait_count = 0
       /\ wpc \in {"target", "enable"} => timer_wait_pending # 0
       /\ wpc \in {"enable", "check", "halt", "halted"} =>
            timer_wait_target >= Delay /\ timer_wait_target \in Nat
       /\ wpc \in {"check", "halt", "halted"} =>
            /\ timer_wait_count <= quiet \/ quiet = Delay
            /\ timer_wait_pending # 0 \/ quiet = Delay

=============================================================================

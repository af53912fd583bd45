-------------------------- MODULE SmpBoot_proofs --------------------------
(***************************************************************************)
(* What holds of the set-up of the cores for any MADT and any delay: each  *)
(* core keeps memory of its own, sets itself up alone, and keeps the       *)
(* handlers the BSP registered.  The argument is BootInv of SmpBoot: the   *)
(* BSP's turn and step fix the step of every other core, so the globals    *)
(* all cores write change hands in one order.  DelayOrder adds that the    *)
(* wait between INIT and STARTUP counts no tick twice.                     *)
(***************************************************************************)
EXTENDS SmpBoot, TLAPS

(* The cores smp_init starts are the targets of its turns.                 *)
LEMMA Turns ==
  /\ Len(Lapics) \in Nat
  /\ \A a \in APs : a # Bsp /\ a \in Cores /\ \E i \in 1 .. Len(Lapics) : Lapics[i] = a
  /\ \A i \in 1 .. Len(Lapics) : Lapics[i] # Bsp => Lapics[i] \in APs
  /\ Bsp \in Cores
  /\ \A c \in Cores : c = Bsp \/ c \in APs
  /\ \A i, j \in 1 .. Len(Lapics) : Lapics[i] = Lapics[j] => i = j
BY LapicsAssumption DEF APs, Cores

(* A core that sets itself up is the one whose turn it is.                 *)
LEMMA RunsAlone ==
  ASSUME BootInv, NEW a \in APs, Booting(a)
  PROVE  pc[Bsp] = "spin" /\ Target = a /\ core_ready = 0 /\ turn \in 1 .. Len(Lapics)
<1>1. PICK i \in 1 .. Len(Lapics) : Lapics[i] = a
  BY Turns
<1>2. i = turn
  BY <1>1, Turns DEF BootInv, TurnType, TurnOrder, Booting, SettingUp
<1> QED
  BY <1>1, <1>2, Turns DEF BootInv, TurnType, TurnOrder, Booting, SettingUp, Target, Steps

(* What the set-up of a core does to the steps, the turn and the signal.   *)
LEMMA SetUpStep ==
  ASSUME NEW c \in Cores, SetUp(c)
  PROVE  /\ UNCHANGED <<turn, flags, timer, quiet>>
         /\ pc[c] \in SettingUp \ {"handlers"}
         /\ \E s \in SettingUp \cup {"next", "count"} :
              /\ pc' = [pc EXCEPT ![c] = s]
              /\ s = "next" => c = Bsp
              /\ s = "count" => c # Bsp
              /\ s \notin {"tls"}
BY DEF SetUp, TlsInit, VmemInit, GdtInit, IdtInit, ApicInit, TimerInit, Goto, SettingUp

(* The step of every core follows from the BSP's turn and step.            *)
LEMMA StepTurn == BootInv /\ [Next]_vars => TurnType' /\ TurnOrder'
<1> SUFFICES ASSUME BootInv, [Next]_vars PROVE TurnType' /\ TurnOrder'
  OBVIOUS
<1> USE Turns DEF BootInv
<1>1. CASE SetUp(Bsp) \/ RegisterHandlers
  <2>1. PICK s \in SettingUp \cup {"next"} : pc' = [pc EXCEPT ![Bsp] = s]
    BY <1>1, SetUpStep DEF RegisterHandlers, Goto, SettingUp
  <2>2. pc[Bsp] \in SettingUp /\ UNCHANGED <<turn, core_ready>>
    BY <1>1, SetUpStep DEF RegisterHandlers, Goto, SettingUp, flags
  <2>3. TurnType'
    BY <2>1, <2>2 DEF TurnType, SettingUp, Steps
  <2>4. TurnOrder'
    BY <2>1, <2>2 DEF TurnType, TurnOrder, Booting, SettingUp
  <2> QED
    BY <2>3, <2>4
<1>2. CASE BspNext
  <2> USE <1>2 DEF BspNext, Target, flags, SettingUp
  <2>1. TurnType'   BY DEF TurnType, Steps
  <2>2. TurnOrder'  BY DEF TurnType, TurnOrder, Booting
  <2> QED BY <2>1, <2>2
<1>3. CASE BspClear \/ BspStack \/ BspDelay
  <2> USE <1>3 DEF BspClear, BspStack, BspDelay, Goto, Target, flags, SettingUp
  <2>1. TurnType'   BY DEF TurnType, Steps
  <2>2. TurnOrder'  BY DEF TurnType, TurnOrder, Booting
  <2> QED BY <2>1, <2>2
<1>4. CASE BspInit
  <2> USE <1>4 DEF BspInit, Target, flags, SettingUp
  <2>1. TurnType'   BY DEF TurnType, Steps
  <2>2. TurnOrder'  BY DEF TurnType, TurnOrder, Booting
  <2> QED BY <2>1, <2>2
<1>5. CASE BspStartup
  <2> USE <1>5 DEF BspStartup, Started, Target, flags, SettingUp
  <2>1. TurnType'   BY DEF TurnType, Steps
  <2>2. TurnOrder'  BY DEF TurnType, TurnOrder, Booting
  <2> QED BY <2>1, <2>2
<1>6. CASE BspSpin
  <2> USE <1>6 DEF BspSpin, Goto, Target, flags, SettingUp
  <2>1. TurnType'   BY DEF TurnType, Steps
  <2>2. TurnOrder'  BY DEF TurnType, TurnOrder, Booting
  <2> QED BY <2>1, <2>2
<1>7. CASE BspWait \/ Interrupt \/ UNCHANGED vars
  <2>1. UNCHANGED <<pc, turn, core_ready>>
    BY <1>7 DEF BspWait, Interrupt, vars, flags
  <2> QED
    BY <2>1 DEF TurnType, TurnOrder, Booting, Target
<1>8. ASSUME NEW a \in APs, ApStep(a) PROVE TurnType' /\ TurnOrder'
  <2>1. Booting(a)
    BY <1>8, SetUpStep DEF ApStep, ApTrampoline, ApCount, ApSignal, Goto, Booting
  <2>2. pc[Bsp] = "spin" /\ Target = a /\ core_ready = 0 /\ turn \in 1 .. Len(Lapics)
    BY <2>1, RunsAlone
  <2>3. CASE ApTrampoline(a) \/ SetUp(a) \/ ApCount(a)
    <3>1. PICK s \in SettingUp \cup {"count", "signal"} : pc' = [pc EXCEPT ![a] = s]
      BY <2>3, SetUpStep DEF ApTrampoline, ApCount, Goto, SettingUp
    <3>2. UNCHANGED <<turn, core_ready>>
      BY <2>3, SetUpStep DEF ApTrampoline, ApCount, flags
    <3>3. TurnType'
      BY <2>2, <3>1, <3>2 DEF TurnType, Target, SettingUp, Steps
    <3>4. TurnOrder'
      BY <2>2, <3>1, <3>2 DEF TurnType, TurnOrder, Target, Booting, SettingUp
    <3> QED
      BY <3>3, <3>4
  <2>4. CASE ApSignal(a)
    <3>1. TurnType'
      BY <2>2, <2>4 DEF ApSignal, Goto, TurnType, Target, SettingUp, Steps
    <3>2. TurnOrder'
      BY <2>2, <2>4 DEF ApSignal, Goto, TurnType, TurnOrder, Target, Booting, SettingUp
    <3> QED
      BY <3>1, <3>2
  <2> QED
    BY <1>8, <2>3, <2>4 DEF ApStep
<1> QED
  BY <1>1, <1>2, <1>3, <1>4, <1>5, <1>6, <1>7, <1>8 DEF Next, BspStep

(* No step gives a core a block that another one uses: the heap hands out  *)
(* new ones, and the newest stack waits for the core of this turn.         *)
LEMMA StepMemory == BootInv /\ [Next]_vars => MemoryOrder'
<1> SUFFICES ASSUME BootInv, [Next]_vars PROVE MemoryOrder'
  OBVIOUS
<1> USE Turns DEF BootInv
<1>0. /\ blocks \in Nat
      /\ uses \in [Cores -> SUBSET (1 .. blocks)]
      /\ \A c, d \in Cores : c # d => uses[c] \cap uses[d] = {}
  BY DEF MemoryOrder
<1>1. ASSUME NEW c \in Cores, NEW n \in Nat, Malloc(c, n)
      PROVE  /\ blocks' \in Nat
             /\ uses' \in [Cores -> SUBSET (1 .. blocks')]
             /\ \A d, e \in Cores : d # e => (uses[d] \cap uses[e] = {})'
  <2>1. blocks' = blocks + n /\ 1 .. blocks \subseteq 1 .. blocks'
    BY <1>0, <1>1 DEF Malloc
  <2>2. uses' = [uses EXCEPT ![c] = @ \cup (blocks + 1 .. blocks + n)]
    BY <1>1 DEF Malloc
  <2>3. (blocks + 1 .. blocks + n) \subseteq 1 .. blocks'
    BY <1>0, <2>1
  <2>4. \A d \in Cores : uses[d] \cap (blocks + 1 .. blocks + n) = {}
    BY <1>0
  <2> QED
    BY <1>0, <2>1, <2>2, <2>3, <2>4
<1>2. ASSUME NEW c \in Cores, SetUp(c) PROVE MemoryOrder'
  <2>1. ~ (pc'[Bsp] \in {"init", "delay", "wait", "spin"}
            /\ pc'[Target'] \in {"off", "reset", "trampoline"})
    <3>1. CASE c = Bsp
      BY <1>2, <3>1, SetUpStep DEF TurnType, SettingUp
    <3>2. CASE c # Bsp
      <4>1. pc[Bsp] = "spin" /\ Target = c
        BY <1>2, <3>2, SetUpStep, RunsAlone DEF Booting
      <4> QED
        BY <1>2, <3>2, <4>1, SetUpStep DEF TurnType, SettingUp, Target
    <3> QED
      BY <3>1, <3>2
  <2>2. (\E n \in Nat : Malloc(c, n)) \/ UNCHANGED memory
    BY <1>2 DEF SetUp, TlsInit, VmemInit, GdtInit, IdtInit, ApicInit, TimerInit
  <2>3. /\ blocks' \in Nat
        /\ uses' \in [Cores -> SUBSET (1 .. blocks')]
        /\ \A d, e \in Cores : d # e => (uses[d] \cap uses[e] = {})'
    BY <1>0, <1>1, <2>2 DEF memory
  <2> QED
    BY <2>1, <2>3 DEF MemoryOrder
<1>3. CASE RegisterHandlers
  <2>1. pc'[Bsp] = "apic" /\ UNCHANGED memory
    BY <1>3 DEF RegisterHandlers, Goto, TurnType
  <2> QED
    BY <1>0, <2>1 DEF MemoryOrder, memory
<1>4. CASE BspStack
  <2>1. blocks' = blocks + 1 /\ tramp_stack' = blocks + 1 /\ UNCHANGED uses
    BY <1>4 DEF BspStack
  <2>2. 1 .. blocks \subseteq 1 .. blocks'
    BY <1>0, <2>1
  <2>3. tramp_stack' \in 1 .. blocks' /\ \A c \in Cores : tramp_stack' \notin uses'[c]
    BY <1>0, <2>1
  <2> QED
    BY <1>0, <2>1, <2>2, <2>3 DEF MemoryOrder
<1>5. CASE BspNext \/ BspClear \/ BspSpin
  <2>1. pc'[Bsp] \in {"next", "clear", "stack", "done"} /\ UNCHANGED memory
    BY <1>5 DEF BspNext, BspClear, BspSpin, Goto, TurnType
  <2> QED
    BY <1>0, <2>1 DEF MemoryOrder, memory
<1>6. CASE BspInit \/ BspDelay \/ BspStartup
  <2>1. UNCHANGED memory /\ Target' = Target
    BY <1>6 DEF BspInit, BspDelay, BspStartup, Target
  <2>2. /\ pc[Bsp] \in {"init", "delay", "wait"}
        /\ pc[Target] \in {"off", "reset"}
    <3>1. pc[Bsp] \in {"init", "delay", "wait"}
      BY <1>6 DEF BspInit, BspDelay, BspStartup, Goto
    <3> QED
      BY <3>1 DEF TurnType, TurnOrder, Target
  <2> QED
    BY <1>0, <2>1, <2>2 DEF MemoryOrder, memory
<1>7. CASE BspWait \/ Interrupt \/ UNCHANGED vars
  <2>1. UNCHANGED <<pc, turn, memory>>
    BY <1>7 DEF BspWait, Interrupt, vars
  <2> QED
    BY <2>1 DEF MemoryOrder, memory, Target
<1>8. ASSUME NEW a \in APs, ApStep(a), ~ SetUp(a) PROVE MemoryOrder'
  <2>1. Booting(a)
    BY <1>8 DEF ApStep, ApTrampoline, ApCount, ApSignal, Goto, Booting
  <2>2. pc[Bsp] = "spin" /\ Target = a /\ Target' = Target
    BY <1>8, <2>1, RunsAlone DEF ApStep, ApTrampoline, ApCount, ApSignal, Target
  <2>3. pc'[Target'] \notin {"off", "reset", "trampoline"}
    BY <1>8, <2>2 DEF ApStep, ApTrampoline, ApCount, ApSignal, Goto, TurnType
  <2>4. CASE ApTrampoline(a)
    <3>1. tramp_stack \in 1 .. blocks /\ \A c \in Cores : tramp_stack \notin uses[c]
      BY <2>2, <2>4 DEF ApTrampoline, Goto, MemoryOrder
    <3> QED
      BY <1>0, <2>3, <2>4, <3>1 DEF ApTrampoline, MemoryOrder
  <2>5. CASE ApCount(a) \/ ApSignal(a)
    BY <1>0, <2>3, <2>5 DEF ApCount, ApSignal, MemoryOrder, memory
  <2> QED
    BY <1>8, <2>4, <2>5 DEF ApStep
<1> QED
  BY <1>2, <1>3, <1>4, <1>5, <1>6, <1>7, <1>8 DEF Next, BspStep, ApStep

(* The structures, their sizes, and where the BSP places them.             *)
LEMMA Layout ==
  /\ Local = {"lcl", "gdt", "idt", "apic", "apic_state"}
  /\ Size["lcl"] = 16 /\ Size["gdt"] = 16 /\ Size["idt"] = 32
  /\ Size["apic"] = 16 /\ Size["apic_state"] = 16
  /\ Offset["lcl"] = 0 /\ Offset["gdt"] = 16 /\ Offset["idt"] = 32
  /\ Offset["apic"] = 64 /\ Offset["apic_state"] = 80
BY DEF Local, Size, Offset

(* The steps before each structure's placing.                              *)
LEMMA TodoFact ==
  /\ Todo["lcl"] = {"tls", "vmem"}
  /\ Todo["gdt"] = {"tls", "vmem", "gdt"}
  /\ Todo["idt"] = {"tls", "vmem", "gdt", "idt"}
  /\ Todo["apic"] = {"tls", "vmem", "gdt", "idt", "handlers", "apic"}
  /\ Todo["apic_state"] = {"tls", "vmem", "gdt", "idt", "handlers", "apic", "timer"}
BY DEF Todo, SettingUp

(* Placing a structure, which is missing on the BSP, changes nothing else. *)
LEMMA Placed ==
  ASSUME ptr \in [Local -> Nat], at \in [Cores -> [Local -> Int]], tls_alloc_off \in Nat,
         NEW c \in Cores, NEW s \in Local, Place(c, s, c = Bsp)
  PROVE  /\ ptr' \in [Local -> Nat] /\ at' \in [Cores -> [Local -> Int]]
         /\ tls_alloc_off' \in Nat
         /\ ptr'[s] = IF c = Bsp THEN tls_alloc_off ELSE ptr[s]
         /\ tls_alloc_off' = IF c = Bsp THEN tls_alloc_off + Size[s] ELSE tls_alloc_off
         /\ at'[c][s] = ptr'[s]
         /\ \A t \in Local \ {s} : ptr'[t] = ptr[t]
         /\ \A d \in Cores, t \in Local : d # c \/ t # s => at'[d][t] = at[d][t]
<1>1. Size[s] \in Nat
  BY Layout
<1>2. /\ ptr' \in [Local -> Nat] /\ tls_alloc_off' \in Nat
      /\ ptr'[s] = IF c = Bsp THEN tls_alloc_off ELSE ptr[s]
      /\ tls_alloc_off' = IF c = Bsp THEN tls_alloc_off + Size[s] ELSE tls_alloc_off
      /\ \A t \in Local \ {s} : ptr'[t] = ptr[t]
  BY <1>1 DEF Place, TlsAlloc
<1>3. at' = [at EXCEPT ![c][s] = ptr'[s]]
  BY DEF Place
<1> QED
  BY <1>2, <1>3

(* A core that fills in its structure s leaves every other one in place.   *)
LEMMA FilledIn ==
  ASSUME BootInv,
         NEW c \in Cores, NEW s \in Local, Place(c, s, c = Bsp), NEW to, pc' = [pc EXCEPT ![c] = to],
         c = Bsp \/ pc[Bsp] = "spin",
         pc[c] \in Todo[s], pc[c] \notin Idle, to \notin Todo[s] \cup Idle,
         \A t \in Local \ {s} : pc[c] \in Todo[t] <=> to \in Todo[t],
         c = Bsp => tls_alloc_off = Offset[s]
  PROVE  /\ TlsPlaces' /\ tls_alloc_off' \in Nat
         /\ c = Bsp => tls_alloc_off' = Offset[s] + Size[s]
<1> USE DEF BootInv
<1>0. DOMAIN pc = Cores /\ Bsp \in Cores
  BY Turns DEF TurnType
<1>1. /\ ptr \in [Local -> Nat] /\ at \in [Cores -> [Local -> Int]] /\ tls_alloc_off \in Nat
      /\ \A t \in Local : ptr[t] = IF pc[Bsp] \in Todo[t] THEN NULL ELSE Offset[t]
      /\ \A d \in Cores, t \in Local :
           at[d][t] = IF pc[d] \in Todo[t] \cup Idle THEN -1 ELSE Offset[t]
  BY DEF TlsPlaces, TlsNext
<1>2. /\ ptr' \in [Local -> Nat] /\ at' \in [Cores -> [Local -> Int]]
      /\ tls_alloc_off' \in Nat
      /\ ptr'[s] = IF c = Bsp THEN tls_alloc_off ELSE ptr[s]
      /\ tls_alloc_off' = IF c = Bsp THEN tls_alloc_off + Size[s] ELSE tls_alloc_off
      /\ at'[c][s] = ptr'[s]
      /\ \A t \in Local \ {s} : ptr'[t] = ptr[t]
      /\ \A d \in Cores, t \in Local : d # c \/ t # s => at'[d][t] = at[d][t]
  BY <1>1, Placed
<1>3. pc[Bsp] = "spin" => \A t \in Local : pc[Bsp] \notin Todo[t]
  BY Layout, TodoFact
<1>4. ptr'[s] = Offset[s]
  BY <1>1, <1>2, <1>3
<1>5. \A t \in Local : ptr'[t] = IF pc'[Bsp] \in Todo[t] THEN NULL ELSE Offset[t]
  BY <1>0, <1>1, <1>2, <1>3, <1>4
<1>6. \A d \in Cores, t \in Local :
        at'[d][t] = IF pc'[d] \in Todo[t] \cup Idle THEN -1 ELSE Offset[t]
  <2> SUFFICES ASSUME NEW d \in Cores, NEW t \in Local
               PROVE  at'[d][t] = IF pc'[d] \in Todo[t] \cup Idle THEN -1 ELSE Offset[t]
    OBVIOUS
  <2>1. CASE d = c /\ t = s
    BY <1>0, <1>2, <1>4, <2>1
  <2>2. CASE d = c /\ t # s
    BY <1>0, <1>1, <1>2, <2>2
  <2>3. CASE d # c
    BY <1>0, <1>1, <1>2, <2>3
  <2> QED
    BY <2>1, <2>2, <2>3
<1> QED
  BY <1>1, <1>2, <1>5, <1>6 DEF TlsPlaces

(* A step that places nothing keeps what has been placed.                  *)
LEMMA KeptInPlace ==
  ASSUME BootInv, UNCHANGED <<ptr, at>>, NEW c \in Cores, NEW to,
         pc' = [pc EXCEPT ![c] = to],
         \A t \in Local : pc[c] \in Todo[t] \cup Idle <=> to \in Todo[t] \cup Idle,
         c = Bsp => \A t \in Local : pc[c] \in Todo[t] <=> to \in Todo[t]
  PROVE  TlsPlaces'
<1>1. DOMAIN pc = Cores /\ Bsp \in Cores
  BY Turns DEF BootInv, TurnType
<1> QED
  BY <1>1 DEF BootInv, TlsPlaces

(* The structures lie where the BSP placed them, and the next one will.    *)
LEMMA StepTls == BootInv /\ [Next]_vars => TlsPlaces' /\ TlsNext'
<1> SUFFICES ASSUME BootInv, [Next]_vars PROVE TlsPlaces' /\ TlsNext'
  OBVIOUS
<1> USE Turns
<1>0. DOMAIN pc = Cores
  BY DEF BootInv, TurnType
<1>a. TurnType /\ TurnOrder /\ TlsPlaces /\ TlsNext
  BY DEF BootInv
<1>1. ASSUME NEW c \in Cores, SetUp(c) PROVE TlsPlaces' /\ TlsNext'
  <2>a. c = Bsp \/ (c # Bsp /\ pc[Bsp] = "spin")
    BY <1>1, SetUpStep, RunsAlone DEF Booting
  <2>1. CASE TlsInit(c)
    <3>1. pc[c] = "tls" /\ pc' = [pc EXCEPT ![c] = "vmem"] /\ UNCHANGED <<ptr, at>>
      BY <2>1 DEF TlsInit, Goto
    <3>2. \A t \in Local : pc[c] \in Todo[t] /\ "vmem" \in Todo[t]
      BY <3>1, Layout, TodoFact
    <3>3. TlsPlaces'
      BY <3>1, <3>2, KeptInPlace
    <3> QED
      BY <1>0, <1>a, <2>a, <2>1, <3>1, <3>3 DEF TlsInit, TlsNext
  <2>2. CASE VmemInit(c)
    <3> DEFINE missing == (c = Bsp /\ ptr["lcl"] = NULL)
               to == "gdt"
    <3>1. Place(c, "lcl", missing) /\ pc[c] = "vmem" /\ pc' = [pc EXCEPT ![c] = to]
      BY <2>2 DEF VmemInit, Goto
    <3>2. to \notin Todo["lcl"] \cup Idle /\ pc[c] \in Todo["lcl"] /\ pc[c] \notin Idle
      BY <3>1, TodoFact DEF Idle
    <3>3. \A t \in Local \ {"lcl"} : pc[c] \in Todo[t] <=> to \in Todo[t]
      BY <3>1, Layout, TodoFact
    <3>4. c = Bsp => missing /\ tls_alloc_off = Offset["lcl"]
      BY <1>a, <3>1, Layout, TodoFact DEF TlsPlaces, TlsNext
    <3>5. c # Bsp => ~ missing
      <4>1. c # Bsp => pc[Bsp] \notin Todo["lcl"]
        BY <2>a, TodoFact
      <4>2. c # Bsp => ptr["lcl"] = Offset["lcl"]
        BY <1>a, <4>1, Layout DEF TlsPlaces
      <4> QED
        BY <4>2, Layout DEF NULL
    <3>6. "lcl" \in Local /\ (c = Bsp \/ pc[Bsp] = "spin")
      BY <2>a, Layout
    <3>7. /\ TlsPlaces' /\ tls_alloc_off' \in Nat
          /\ c = Bsp => tls_alloc_off' = Offset["lcl"] + Size["lcl"]
      <4> DEFINE s == "lcl"
      <4>1. /\ Place(c, s, c = Bsp) /\ pc' = [pc EXCEPT ![c] = to]
            /\ to \notin Todo[s] \cup Idle /\ pc[c] \in Todo[s] /\ pc[c] \notin Idle
            /\ \A u \in Local \ {s} : pc[c] \in Todo[u] <=> to \in Todo[u]
            /\ c = Bsp => tls_alloc_off = Offset[s]
            /\ s \in Local
        BY <3>1, <3>2, <3>3, <3>4, <3>5, <3>6 DEF Place
      <4> HIDE DEF s, to
      <4>2. /\ TlsPlaces' /\ tls_alloc_off' \in Nat
            /\ c = Bsp => tls_alloc_off' = Offset[s] + Size[s]
        BY <3>6, <4>1, FilledIn
      <4> QED
        BY <4>2 DEF s
    <3> QED
      BY <1>0, <2>a, <3>1, <3>7, Layout DEF TlsNext, to
  <2>3. CASE GdtInit(c)
    <3> DEFINE missing == (ptr["gdt"] = NULL)
               to == "idt"
    <3>1. Place(c, "gdt", missing) /\ pc[c] = "gdt" /\ pc' = [pc EXCEPT ![c] = to]
      BY <2>3 DEF GdtInit, Goto
    <3>2. to \notin Todo["gdt"] \cup Idle /\ pc[c] \in Todo["gdt"] /\ pc[c] \notin Idle
      BY <3>1, TodoFact DEF Idle
    <3>3. \A t \in Local \ {"gdt"} : pc[c] \in Todo[t] <=> to \in Todo[t]
      BY <3>1, Layout, TodoFact
    <3>4. c = Bsp => missing /\ tls_alloc_off = Offset["gdt"]
      BY <1>a, <3>1, Layout, TodoFact DEF TlsPlaces, TlsNext
    <3>5. c # Bsp => ~ missing
      <4>1. c # Bsp => pc[Bsp] \notin Todo["gdt"]
        BY <2>a, TodoFact
      <4>2. c # Bsp => ptr["gdt"] = Offset["gdt"]
        BY <1>a, <4>1, Layout DEF TlsPlaces
      <4> QED
        BY <4>2, Layout DEF NULL
    <3>6. "gdt" \in Local /\ (c = Bsp \/ pc[Bsp] = "spin")
      BY <2>a, Layout
    <3>7. /\ TlsPlaces' /\ tls_alloc_off' \in Nat
          /\ c = Bsp => tls_alloc_off' = Offset["gdt"] + Size["gdt"]
      <4> DEFINE s == "gdt"
      <4>1. /\ Place(c, s, c = Bsp) /\ pc' = [pc EXCEPT ![c] = to]
            /\ to \notin Todo[s] \cup Idle /\ pc[c] \in Todo[s] /\ pc[c] \notin Idle
            /\ \A u \in Local \ {s} : pc[c] \in Todo[u] <=> to \in Todo[u]
            /\ c = Bsp => tls_alloc_off = Offset[s]
            /\ s \in Local
        BY <3>1, <3>2, <3>3, <3>4, <3>5, <3>6 DEF Place
      <4> HIDE DEF s, to
      <4>2. /\ TlsPlaces' /\ tls_alloc_off' \in Nat
            /\ c = Bsp => tls_alloc_off' = Offset[s] + Size[s]
        BY <3>6, <4>1, FilledIn
      <4> QED
        BY <4>2 DEF s
    <3> QED
      BY <1>0, <2>a, <3>1, <3>7, Layout DEF TlsNext, to
  <2>4. CASE IdtInit(c)
    <3> DEFINE missing == (ptr["idt"] = NULL)
               to == IF c = Bsp THEN "handlers" ELSE "apic"
    <3>1. Place(c, "idt", missing) /\ pc[c] = "idt" /\ pc' = [pc EXCEPT ![c] = to]
      BY <2>4 DEF IdtInit, Goto
    <3>2. to \notin Todo["idt"] \cup Idle /\ pc[c] \in Todo["idt"] /\ pc[c] \notin Idle
      BY <3>1, TodoFact DEF Idle
    <3>3. \A t \in Local \ {"idt"} : pc[c] \in Todo[t] <=> to \in Todo[t]
      BY <3>1, Layout, TodoFact
    <3>4. c = Bsp => missing /\ tls_alloc_off = Offset["idt"]
      BY <1>a, <3>1, Layout, TodoFact DEF TlsPlaces, TlsNext
    <3>5. c # Bsp => ~ missing
      <4>1. c # Bsp => pc[Bsp] \notin Todo["idt"]
        BY <2>a, TodoFact
      <4>2. c # Bsp => ptr["idt"] = Offset["idt"]
        BY <1>a, <4>1, Layout DEF TlsPlaces
      <4> QED
        BY <4>2, Layout DEF NULL
    <3>6. "idt" \in Local /\ (c = Bsp \/ pc[Bsp] = "spin")
      BY <2>a, Layout
    <3>7. /\ TlsPlaces' /\ tls_alloc_off' \in Nat
          /\ c = Bsp => tls_alloc_off' = Offset["idt"] + Size["idt"]
      <4> DEFINE s == "idt"
      <4>1. /\ Place(c, s, c = Bsp) /\ pc' = [pc EXCEPT ![c] = to]
            /\ to \notin Todo[s] \cup Idle /\ pc[c] \in Todo[s] /\ pc[c] \notin Idle
            /\ \A u \in Local \ {s} : pc[c] \in Todo[u] <=> to \in Todo[u]
            /\ c = Bsp => tls_alloc_off = Offset[s]
            /\ s \in Local
        BY <3>1, <3>2, <3>3, <3>4, <3>5, <3>6 DEF Place
      <4> HIDE DEF s, to
      <4>2. /\ TlsPlaces' /\ tls_alloc_off' \in Nat
            /\ c = Bsp => tls_alloc_off' = Offset[s] + Size[s]
        BY <3>6, <4>1, FilledIn
      <4> QED
        BY <4>2 DEF s
    <3> QED
      BY <1>0, <2>a, <3>1, <3>7, Layout DEF TlsNext, to
  <2>5. CASE ApicInit(c)
    <3> DEFINE missing == (ptr["apic"] = NULL)
               to == "timer"
    <3>1. Place(c, "apic", missing) /\ pc[c] = "apic" /\ pc' = [pc EXCEPT ![c] = to]
      BY <2>5 DEF ApicInit, Goto
    <3>2. to \notin Todo["apic"] \cup Idle /\ pc[c] \in Todo["apic"] /\ pc[c] \notin Idle
      BY <3>1, TodoFact DEF Idle
    <3>3. \A t \in Local \ {"apic"} : pc[c] \in Todo[t] <=> to \in Todo[t]
      BY <3>1, Layout, TodoFact
    <3>4. c = Bsp => missing /\ tls_alloc_off = Offset["apic"]
      BY <1>a, <3>1, Layout, TodoFact DEF TlsPlaces, TlsNext
    <3>5. c # Bsp => ~ missing
      <4>1. c # Bsp => pc[Bsp] \notin Todo["apic"]
        BY <2>a, TodoFact
      <4>2. c # Bsp => ptr["apic"] = Offset["apic"]
        BY <1>a, <4>1, Layout DEF TlsPlaces
      <4> QED
        BY <4>2, Layout DEF NULL
    <3>6. "apic" \in Local /\ (c = Bsp \/ pc[Bsp] = "spin")
      BY <2>a, Layout
    <3>7. /\ TlsPlaces' /\ tls_alloc_off' \in Nat
          /\ c = Bsp => tls_alloc_off' = Offset["apic"] + Size["apic"]
      <4> DEFINE s == "apic"
      <4>1. /\ Place(c, s, c = Bsp) /\ pc' = [pc EXCEPT ![c] = to]
            /\ to \notin Todo[s] \cup Idle /\ pc[c] \in Todo[s] /\ pc[c] \notin Idle
            /\ \A u \in Local \ {s} : pc[c] \in Todo[u] <=> to \in Todo[u]
            /\ c = Bsp => tls_alloc_off = Offset[s]
            /\ s \in Local
        BY <3>1, <3>2, <3>3, <3>4, <3>5, <3>6 DEF Place
      <4> HIDE DEF s, to
      <4>2. /\ TlsPlaces' /\ tls_alloc_off' \in Nat
            /\ c = Bsp => tls_alloc_off' = Offset[s] + Size[s]
        BY <3>6, <4>1, FilledIn
      <4> QED
        BY <4>2 DEF s
    <3> QED
      BY <1>0, <2>a, <3>1, <3>7, Layout DEF TlsNext, to
  <2>6. CASE TimerInit(c)
    <3> DEFINE missing == (ptr["apic_state"] = NULL)
               to == IF c = Bsp THEN "next" ELSE "count"
    <3>1. Place(c, "apic_state", missing) /\ pc[c] = "timer" /\ pc' = [pc EXCEPT ![c] = to]
      BY <2>6 DEF TimerInit, Goto
    <3>2. to \notin Todo["apic_state"] \cup Idle /\ pc[c] \in Todo["apic_state"] /\ pc[c] \notin Idle
      BY <3>1, TodoFact DEF Idle
    <3>3. \A t \in Local \ {"apic_state"} : pc[c] \in Todo[t] <=> to \in Todo[t]
      BY <3>1, Layout, TodoFact
    <3>4. c = Bsp => missing /\ tls_alloc_off = Offset["apic_state"]
      BY <1>a, <3>1, Layout, TodoFact DEF TlsPlaces, TlsNext
    <3>5. c # Bsp => ~ missing
      <4>1. c # Bsp => pc[Bsp] \notin Todo["apic_state"]
        BY <2>a, TodoFact
      <4>2. c # Bsp => ptr["apic_state"] = Offset["apic_state"]
        BY <1>a, <4>1, Layout DEF TlsPlaces
      <4> QED
        BY <4>2, Layout DEF NULL
    <3>6. "apic_state" \in Local /\ (c = Bsp \/ pc[Bsp] = "spin")
      BY <2>a, Layout
    <3>7. /\ TlsPlaces' /\ tls_alloc_off' \in Nat
          /\ c = Bsp => tls_alloc_off' = Offset["apic_state"] + Size["apic_state"]
      <4> DEFINE s == "apic_state"
      <4>1. /\ Place(c, s, c = Bsp) /\ pc' = [pc EXCEPT ![c] = to]
            /\ to \notin Todo[s] \cup Idle /\ pc[c] \in Todo[s] /\ pc[c] \notin Idle
            /\ \A u \in Local \ {s} : pc[c] \in Todo[u] <=> to \in Todo[u]
            /\ c = Bsp => tls_alloc_off = Offset[s]
            /\ s \in Local
        BY <3>1, <3>2, <3>3, <3>4, <3>5, <3>6 DEF Place
      <4> HIDE DEF s, to
      <4>2. /\ TlsPlaces' /\ tls_alloc_off' \in Nat
            /\ c = Bsp => tls_alloc_off' = Offset[s] + Size[s]
        BY <3>6, <4>1, FilledIn
      <4> QED
        BY <4>2 DEF s
    <3> QED
      BY <1>0, <2>a, <3>1, <3>7, Layout DEF TlsNext, to
  <2> QED
    BY <1>1, <2>1, <2>2, <2>3, <2>4, <2>5, <2>6 DEF SetUp
<1>2. CASE RegisterHandlers
  <2>1. /\ pc[Bsp] = "handlers" /\ pc' = [pc EXCEPT ![Bsp] = "apic"]
        /\ UNCHANGED <<ptr, at, tls_alloc_off>>
    BY <1>2 DEF RegisterHandlers, Goto, tls
  <2>2. \A t \in Local : pc[Bsp] \in Todo[t] <=> "apic" \in Todo[t]
    BY <2>1, Layout, TodoFact
  <2>3. TlsPlaces'
    BY <2>1, <2>2, KeptInPlace DEF Idle
  <2> QED
    BY <1>0, <1>a, <2>1, <2>3 DEF TlsNext
<1>3. CASE BspNext \/ BspClear \/ BspStack \/ BspDelay \/ BspSpin
  <2>1. /\ pc[Bsp] \in {"next", "clear", "stack", "delay", "spin"}
        /\ pc'[Bsp] \in {"next", "clear", "stack", "init", "wait", "done"}
        /\ \A c \in Cores \ {Bsp} : pc'[c] = pc[c]
        /\ UNCHANGED <<ptr, at, tls_alloc_off>>
    BY <1>0, <1>3 DEF BspNext, BspClear, BspStack, BspDelay, BspSpin, Goto, tls
  <2>2. \A t \in Local : pc[Bsp] \notin Todo[t] \cup Idle /\ pc'[Bsp] \notin Todo[t] \cup Idle
    BY <2>1, Layout, TodoFact DEF Idle
  <2>3. TlsPlaces'
    <3>1. \A t \in Local : pc'[Bsp] \in Todo[t] <=> pc[Bsp] \in Todo[t]
      BY <2>2
    <3>2. \A c \in Cores, t \in Local :
            pc'[c] \in Todo[t] \cup Idle <=> pc[c] \in Todo[t] \cup Idle
      BY <2>1, <2>2
    <3>3. TlsPlaces
      BY <1>a
    <3> QED
      BY <2>1, <3>1, <3>2, <3>3 DEF TlsPlaces
  <2> QED
    BY <1>a, <2>1, <2>3 DEF TlsNext
<1>4. CASE BspInit \/ BspStartup
  <2>1. /\ UNCHANGED <<ptr, at, tls_alloc_off>>
        /\ pc[Bsp] \in {"init", "wait"} /\ Target \in APs
        /\ pc[Target] \in {"off", "reset"}
    BY <1>a, <1>4 DEF BspInit, BspStartup, tls, TurnType, TurnOrder, Target
  <2>2. /\ pc'[Bsp] \in {"delay", "spin"} /\ pc'[Target] \in {"reset", "trampoline"}
        /\ \A c \in Cores \ {Bsp, Target} : pc'[c] = pc[c]
    <3>1. Bsp # Target /\ Target \in Cores
      BY <2>1
    <3>2. CASE BspInit
      BY <1>0, <3>1, <3>2 DEF BspInit
    <3>3. CASE BspStartup
      <4>1. pc[Target] = "reset"
        BY <1>a, <3>3 DEF BspStartup, TurnType, TurnOrder, Target
      <4> QED
        BY <1>0, <3>1, <3>3, <4>1 DEF BspStartup, Started
    <3> QED
      BY <1>4, <3>2, <3>3
  <2>3. \A s \in Local : pc[Bsp] \notin Todo[s] \cup Idle /\ pc'[Bsp] \notin Todo[s] \cup Idle
    BY <2>1, <2>2, Layout, TodoFact DEF Idle
  <2>4. \A s \in Local, c \in Cores :
          pc'[c] \in Todo[s] \cup Idle <=> pc[c] \in Todo[s] \cup Idle
    <3> SUFFICES ASSUME NEW s \in Local, NEW c \in Cores
                 PROVE  pc'[c] \in Todo[s] \cup Idle <=> pc[c] \in Todo[s] \cup Idle
      OBVIOUS
    <3>1. CASE c = Bsp
      BY <2>3, <3>1
    <3>2. CASE c = Target
      BY <2>1, <2>2, <3>2 DEF Idle
    <3>3. CASE c \notin {Bsp, Target}
      BY <2>2, <3>3
    <3> QED
      BY <3>1, <3>2, <3>3
  <2>5. TlsPlaces'
    BY <1>a, <2>1, <2>3, <2>4 DEF TlsPlaces
  <2> QED
    BY <1>a, <2>1, <2>2, <2>5 DEF TlsNext
<1>5. CASE BspWait \/ Interrupt \/ UNCHANGED vars
  BY <1>a, <1>5 DEF BspWait, Interrupt, vars, tls, TlsPlaces, TlsNext
<1>6. ASSUME NEW a \in APs, ApTrampoline(a) \/ ApCount(a) \/ ApSignal(a)
      PROVE TlsPlaces' /\ TlsNext'
  <2>1. /\ pc[a] \in {"trampoline", "count", "signal"}
        /\ UNCHANGED <<ptr, at, tls_alloc_off>>
    BY <1>6 DEF ApTrampoline, ApCount, ApSignal, Goto, tls
  <2>2. PICK to : /\ pc' = [pc EXCEPT ![a] = to]
                  /\ pc[a] = "trampoline" => to = "tls"
                  /\ pc[a] \in {"count", "signal"} => to \in {"signal", "loop"}
    BY <1>6 DEF ApTrampoline, ApCount, ApSignal, Goto
  <2>3. TlsPlaces'
    <3>1. \A t \in Local : pc[a] \in Todo[t] \cup Idle <=> to \in Todo[t] \cup Idle
      <4>1. CASE pc[a] = "trampoline"
        BY <2>2, <4>1, Layout, TodoFact DEF Idle
      <4>2. CASE pc[a] \in {"count", "signal"}
        BY <2>2, <4>2, Layout, TodoFact DEF Idle
      <4> QED
        BY <2>1, <4>1, <4>2
    <3> QED
      BY <2>1, <2>2, <3>1, KeptInPlace
  <2>4. pc'[Bsp] = pc[Bsp]
    BY <1>0, <2>2
  <2> QED
    BY <1>a, <2>1, <2>3, <2>4 DEF TlsNext
<1> QED
  BY <1>1, <1>2, <1>3, <1>4, <1>5, <1>6 DEF Next, BspStep, ApStep

(* The tables are cleared before the BSP registers its handlers.           *)
LEMMA StepHandlers == BootInv /\ [Next]_vars => HandlerOrder'
<1> SUFFICES ASSUME BootInv, [Next]_vars PROVE HandlerOrder'
  OBVIOUS
<1> USE Turns
<1>0. DOMAIN pc = Cores /\ HandlerOrder
  BY DEF BootInv, TurnType
<1>1. ASSUME NEW c \in Cores, SetUp(c) PROVE HandlerOrder'
  <2>a. c = Bsp \/ (c # Bsp /\ pc[Bsp] = "spin")
    BY <1>1, SetUpStep, RunsAlone DEF Booting
  <2>1. CASE TlsInit(c) \/ VmemInit(c) \/ GdtInit(c) \/ ApicInit(c)
    BY <1>0, <2>1, <2>a, TodoFact
    DEF TlsInit, VmemInit, GdtInit, ApicInit, Goto, HandlerOrder, tables, SettingUp
  <2>2. CASE IdtInit(c)
    BY <1>0, <2>2, <2>a, TodoFact DEF IdtInit, Goto, HandlerOrder, SettingUp
  <2>3. CASE TimerInit(c)
    <3>1. "intrpt_num" \in Handlers
      BY DEF Handlers
    <3> QED
      BY <1>0, <2>3, <2>a, <3>1, TodoFact DEF TimerInit, Goto, HandlerOrder, SettingUp
  <2> QED
    BY <1>1, <2>1, <2>2, <2>3 DEF SetUp
<1>2. CASE RegisterHandlers
  <2>1. interrupt_funcs' \in [Handlers -> Nat] /\ interrupt_funcs'["intrpt_num"] = 0
    <3>1. /\ \A h \in Handlers : interrupt_funcs[h] = 0
          /\ "intrpt_num" \in Handlers
          /\ interrupt_funcs' =
               [h \in Handlers |-> interrupt_funcs[h] + IF h = "intrpt_num" THEN 0 ELSE 1]
      BY <1>0, <1>2, TodoFact DEF RegisterHandlers, Goto, HandlerOrder, Handlers
    <3>2. \A h \in Handlers : (IF h = "intrpt_num" THEN 0 ELSE 1) \in Nat
      OBVIOUS
    <3> QED
      BY <3>1, <3>2
  <2> QED
    BY <1>0, <1>2, <2>1, TodoFact DEF RegisterHandlers, Goto, HandlerOrder, SettingUp
<1>3. CASE BspNext \/ BspClear \/ BspStack \/ BspDelay \/ BspSpin \/ BspInit \/ BspStartup
  <2>1. pc[Bsp] \notin SettingUp /\ pc'[Bsp] \notin SettingUp /\ UNCHANGED tables
    <3>1. pc[Bsp] \in {"init", "delay", "wait", "spin"} => Target # Bsp
      BY DEF BootInv, TurnType
    <3> QED
      BY <1>0, <1>3, <3>1 DEF BspNext, BspClear, BspStack, BspDelay, BspSpin, BspInit,
         BspStartup, Started, Goto, SettingUp
  <2> QED
    BY <1>0, <2>1, TodoFact DEF HandlerOrder, SettingUp, tables
<1>4. CASE BspWait \/ Interrupt \/ UNCHANGED vars
  BY <1>0, <1>4 DEF BspWait, Interrupt, vars, tables, HandlerOrder
<1>5. ASSUME NEW a \in APs, ApTrampoline(a) \/ ApCount(a) \/ ApSignal(a) PROVE HandlerOrder'
  <2>1. pc'[Bsp] = pc[Bsp] /\ UNCHANGED tables
    BY <1>0, <1>5 DEF ApTrampoline, ApCount, ApSignal, Goto
  <2> QED
    BY <1>0, <2>1 DEF HandlerOrder, tables
<1> QED
  BY <1>1, <1>2, <1>3, <1>4, <1>5 DEF Next, BspStep, ApStep

(* At first every core but the BSP is off and nothing is handed out.       *)
LEMMA InitBoot == Init => BootInv
<1> SUFFICES ASSUME Init PROVE BootInv
  OBVIOUS
<1> USE Turns
<1>1. TurnType
  BY DEF Init, TurnType, Steps, SettingUp
<1>2. TurnOrder
  BY DEF Init, TurnOrder, SettingUp
<1>3. MemoryOrder
  BY DEF Init, MemoryOrder
<1>4. TlsPlaces
  <2>1. \A s \in Local : pc[Bsp] \in Todo[s]
    BY Layout, TodoFact DEF Init
  <2>2. \A c \in Cores, s \in Local : pc[c] \in Todo[s] \cup Idle
    BY <2>1 DEF Init, Idle
  <2> QED
    BY <2>1, <2>2 DEF Init, TlsPlaces, NULL
<1>5. TlsNext
  BY DEF Init, TlsNext
<1>6. HandlerOrder
  BY TodoFact DEF Init, HandlerOrder, SettingUp
<1> QED
  BY <1>1, <1>2, <1>3, <1>4, <1>5, <1>6 DEF BootInv

(* Where the BSP is in its set-up and in smp_init fixes where every core   *)
(* is, and what the globals they share hold.                               *)
THEOREM BootOrder == Spec => []BootInv
<1>1. Init => BootInv
  BY InitBoot
<1>2. BootInv /\ [Next]_vars => BootInv'
  BY StepTurn, StepMemory, StepTls, StepHandlers DEF BootInv
<1> QED
  BY <1>1, <1>2, PTL DEF Spec

(* No two cores use the same memory, for any MADT: each turn's stack is    *)
(* loaded before the next is taken, and the core-local structures stay     *)
(* where the BSP's own set-up placed them.                                 *)
THEOREM MemoryOwned == Spec => []OwnMemory
<1>1. BootInv => OwnMemory
  <2> SUFFICES ASSUME BootInv PROVE OwnMemory
    OBVIOUS
  <2>1. \A c \in Cores, s \in Local : at[c][s] # -1 => at[c][s] = Offset[s]
    BY DEF BootInv, TlsPlaces
  <2>2. \A c \in Cores, s \in Local : at[c][s] # -1 => ptr[s] = Offset[s]
    <3> SUFFICES ASSUME NEW c \in Cores, NEW s \in Local, at[c][s] # -1
                 PROVE  ptr[s] = Offset[s]
      OBVIOUS
    <3>1. pc[c] \notin Todo[s] \cup Idle
      BY DEF BootInv, TlsPlaces
    <3>2. CASE c = Bsp
      BY <3>1, <3>2 DEF BootInv, TlsPlaces
    <3>3. CASE c # Bsp
      <4>1. pc[c] # "off"
        BY <3>1 DEF Idle
      <4>2. PICK i \in 1 .. Len(Lapics) : Lapics[i] = c
        BY <3>3, Turns
      <4>3. pc[Bsp] \notin SettingUp
        BY <3>3, <4>1, <4>2 DEF BootInv, TurnOrder
      <4> QED
        BY <4>3, Layout, TodoFact DEF BootInv, TlsPlaces, SettingUp
    <3> QED
      BY <3>2, <3>3
  <2>3. \A s \in Local : \A t \in Local \ {s} : ~ Overlap(Offset[s], Size[s], Offset[t], Size[t])
    BY Layout DEF Overlap
  <2>4. \A c, d \in Cores : c # d => uses[c] \cap uses[d] = {}
    BY DEF BootInv, MemoryOrder
  <2> QED
    BY <2>1, <2>2, <2>3, <2>4 DEF OwnMemory
<1> QED
  BY <1>1, BootOrder, PTL

(* No core's set-up clears or repeats a registration, for any MADT.        *)
THEOREM RegistrationsStay == Spec => HandlersKept
<1>1. BootInv /\ [Next]_vars =>
        [\A h \in Handlers : interrupt_funcs[h] # 0 => interrupt_funcs'[h] = interrupt_funcs[h]]_vars
  <2> SUFFICES ASSUME BootInv, Next, NEW h \in Handlers, interrupt_funcs[h] # 0
               PROVE  interrupt_funcs'[h] = interrupt_funcs[h]
    OBVIOUS
  <2>0. HandlerOrder
    BY DEF BootInv
  <2>1. ASSUME NEW c \in Cores, SetUp(c) PROVE interrupt_funcs'[h] = interrupt_funcs[h]
    <3>a. c = Bsp \/ (c # Bsp /\ pc[Bsp] = "spin")
      BY <2>1, Turns, SetUpStep, RunsAlone DEF Booting
    <3>1. CASE IdtInit(c)
      BY <2>0, <3>a, <3>1, TodoFact DEF IdtInit, Goto, HandlerOrder
    <3>2. CASE TimerInit(c)
      <4>1. CASE c = Bsp
        BY <2>0, <3>2, <4>1 DEF TimerInit, Goto, HandlerOrder
      <4>2. CASE pc[Bsp] = "spin"
        BY <2>0, <3>2, <4>2 DEF TimerInit, HandlerOrder, SettingUp
      <4> QED
        BY <3>a, <4>1, <4>2
    <3>3. CASE TlsInit(c) \/ VmemInit(c) \/ GdtInit(c) \/ ApicInit(c)
      BY <3>3 DEF TlsInit, VmemInit, GdtInit, ApicInit, tables
    <3> QED
      BY <2>1, <3>1, <3>2, <3>3 DEF SetUp
  <2>2. ~ RegisterHandlers
    BY <2>0, TodoFact DEF RegisterHandlers, Goto, HandlerOrder
  <2>3. CASE BspNext \/ BspClear \/ BspStack \/ BspDelay \/ BspSpin \/ BspInit \/ BspStartup
             \/ BspWait \/ Interrupt
    BY <2>3 DEF BspNext, BspClear, BspStack, BspDelay, BspSpin, BspInit, BspStartup, BspWait,
       Interrupt, tables
  <2>4. ASSUME NEW a \in APs, ApTrampoline(a) \/ ApCount(a) \/ ApSignal(a)
        PROVE  interrupt_funcs'[h] = interrupt_funcs[h]
    BY <2>4 DEF ApTrampoline, ApCount, ApSignal, tables
  <2> QED
    BY <2>1, <2>2, <2>3, <2>4, Turns DEF Next, BspStep, ApStep
<1> QED
  BY <1>1, BootOrder, PTL DEF Spec, HandlersKept

(* A core sets itself up alone, for any MADT: smp_init waits for           *)
(* core_ready, which it cleared before the core was started.               *)
THEOREM CoresBootAlone == Spec => []BootsAlone
<1>1. BootInv => BootsAlone
  <2> SUFFICES ASSUME BootInv, NEW a \in APs, Booting(a)
               PROVE  /\ pc[Bsp] = "spin" /\ Target = a
                      /\ \A b \in APs : Booting(b) => a = b
    BY DEF BootsAlone
  <2>1. \A b \in APs : Booting(b) => pc[Bsp] = "spin" /\ Target = b
    BY RunsAlone
  <2> QED
    BY <2>1
<1> QED
  BY <1>1, BootOrder, PTL

(* A wait runs only while the BSP is at it, and its ticks are counted no    *)
(* faster than those since INIT.                                           *)
LEMMA StepDelay == BootInv /\ DelayOrder /\ [Next]_vars => DelayOrder'
<1> SUFFICES ASSUME BootInv, DelayOrder, [Next]_vars PROVE DelayOrder'
  OBVIOUS
<1>0. Delay \in Nat /\ DOMAIN pc = Cores /\ Bsp \in Cores
  BY DelayAssumption, Turns DEF BootInv, TurnType
<1>1. ASSUME UNCHANGED <<timer, quiet>>, pc'[Bsp] # "wait",
             pc[Bsp] = "wait" => wpc = "idle"
      PROVE  DelayOrder'
  BY <1>1 DEF DelayOrder, timer
<1>2. CASE SetUp(Bsp) \/ RegisterHandlers
  <2>1. PICK s \in SettingUp \cup {"next", "count"} : pc' = [pc EXCEPT ![Bsp] = s]
    BY <1>2, SetUpStep, <1>0 DEF RegisterHandlers, Goto, SettingUp
  <2>2. UNCHANGED <<timer, quiet>> /\ pc[Bsp] \in SettingUp
    BY <1>2, SetUpStep, <1>0 DEF RegisterHandlers, Goto, SettingUp
  <2> QED
    BY <1>0, <1>1, <2>1, <2>2 DEF SettingUp
<1>3. CASE BspNext \/ BspClear \/ BspStack \/ BspSpin
  BY <1>0, <1>1, <1>3 DEF BspNext, BspClear, BspStack, BspSpin, Goto
<1>4. CASE BspInit
  <2>1. Target # Bsp
    BY <1>4 DEF BspInit, BootInv, TurnType
  <2>2. pc'[Bsp] = "delay" /\ pc[Bsp] = "init" /\ quiet' = 0 /\ UNCHANGED timer
    BY <1>0, <1>4, <2>1 DEF BspInit
  <2> QED
    BY <1>0, <2>2 DEF DelayOrder, timer
<1>5. CASE BspStartup
  <2>1. Target # Bsp
    BY <1>5 DEF BspStartup, BootInv, TurnType
  <2>2. pc'[Bsp] = "spin" /\ wpc = "idle" /\ UNCHANGED <<timer, quiet>>
    BY <1>0, <1>5, <2>1 DEF BspStartup
  <2> QED
    BY <1>1, <2>2
<1>6. CASE BspDelay
  <2>1. /\ pc'[Bsp] = "wait" /\ wpc' = "reset" /\ want' = Delay
        /\ UNCHANGED <<timer_wait_pending, timer_wait_count, timer_wait_target, armed, quiet>>
        /\ wpc = "idle"
    BY <1>0, <1>6 DEF BspDelay, Goto, T!Begin, T!Goto, T!flags
  <2> QED
    BY <2>1 DEF DelayOrder
<1>7. CASE BspWait
  <2>1. pc[Bsp] = "wait" /\ pc'[Bsp] = "wait" /\ UNCHANGED quiet /\ T!Step
    BY <1>7 DEF BspWait
  <2>2. CASE T!Reset
    BY <2>1, <2>2 DEF T!Reset, T!Goto, T!flags, DelayOrder
  <2>3. CASE T!SetPending
    BY <2>1, <2>3 DEF T!SetPending, T!Goto, T!flags, DelayOrder
  <2>4. CASE T!SetTarget
    BY <1>0, <2>1, <2>4 DEF T!SetTarget, T!Goto, T!flags, DelayOrder
  <2>5. CASE T!Enable
    BY <2>1, <2>5 DEF T!Enable, T!Goto, T!flags, DelayOrder
  <2>6. CASE T!Check
    BY <2>1, <2>6 DEF T!Check, T!Goto, T!flags, DelayOrder
  <2>7. CASE T!Halt
    BY <2>1, <2>7 DEF T!Halt, T!Goto, T!flags, DelayOrder
  <2>8. CASE T!Disable
    BY <2>1, <2>8 DEF T!Disable, T!Goto, T!flags, DelayOrder
  <2> QED
    BY <2>1, <2>2, <2>3, <2>4, <2>5, <2>6, <2>7, <2>8 DEF T!Step
<1>8. CASE Interrupt
  <2>1. UNCHANGED <<pc, want, timer_wait_target, armed>> /\ wpc' = T!Woken
    BY <1>8 DEF Interrupt, T!Tick, T!OtherInterrupt, T!flags
  <2>2. \/ T!Tick /\ quiet' = (IF quiet < Delay THEN quiet + 1 ELSE quiet)
        \/ /\ UNCHANGED <<timer_wait_count, timer_wait_pending>>
           /\ quiet' \in {quiet, IF quiet < Delay THEN quiet + 1 ELSE quiet}
    BY <1>8 DEF Interrupt, T!OtherInterrupt, T!flags
  <2>3. \/ UNCHANGED <<timer_wait_count, timer_wait_pending>>
        \/ /\ armed
           /\ quiet' = (IF quiet < Delay THEN quiet + 1 ELSE quiet)
           /\ timer_wait_count' \in {timer_wait_count, timer_wait_count + 1}
           /\ timer_wait_pending' \in {timer_wait_pending, 0}
           /\ timer_wait_pending' = timer_wait_pending \/ timer_wait_count' >= timer_wait_target
    BY <2>2 DEF T!Tick, T!Bump
  <2>4. quiet' \in Nat /\ quiet' <= Delay /\ quiet <= quiet'
    BY <1>0, <2>2 DEF DelayOrder
  <2> QED
    BY <1>0, <2>1, <2>3, <2>4 DEF T!Woken, DelayOrder
<1>9. CASE UNCHANGED vars
  BY <1>9 DEF vars, timer, DelayOrder
<1>10. ASSUME NEW a \in APs, ApStep(a) PROVE DelayOrder'
  <2>1. a # Bsp /\ a \in Cores
    BY Turns
  <2>2. UNCHANGED <<timer, quiet>> /\ \E s : pc' = [pc EXCEPT ![a] = s]
    BY <1>10, <2>1, SetUpStep DEF ApStep, ApTrampoline, ApCount, ApSignal, Goto
  <2> QED
    BY <1>0, <2>1, <2>2 DEF DelayOrder, timer
<1> QED
  BY <1>2, <1>3, <1>4, <1>5, <1>6, <1>7, <1>8, <1>9, <1>10 DEF Next, BspStep

(* A core gets STARTUP no sooner after its INIT than smp_init asks          *)
(* timer_wait for, for any MADT and any delay: the wait's count starts at 0 *)
(* behind INIT, and other interrupts do not add to it.                     *)
THEOREM StartupWaits == Spec => StartupDelayed
<1>1. Init => DelayOrder
  BY DelayAssumption, Turns DEF Init, T!Init, DelayOrder
<1>2. BootInv /\ DelayOrder /\ [Next]_vars =>
        [\A a \in APs : pc[a] = "reset" /\ pc'[a] = "trampoline" => quiet >= Delay]_vars
  <2> SUFFICES ASSUME BootInv, DelayOrder, Next, NEW a \in APs,
                      pc[a] = "reset", pc'[a] = "trampoline"
               PROVE  quiet >= Delay
    OBVIOUS
  <2>0. /\ Delay \in Nat /\ DOMAIN pc = Cores /\ Bsp \in Cores /\ a \in Cores /\ a # Bsp
        /\ \A b \in APs : b # Bsp /\ b \in Cores
    BY DelayAssumption, Turns DEF BootInv, TurnType
  <2>1. CASE BspStartup
    BY <2>0, <2>1 DEF BspStartup, DelayOrder
  <2>2. ASSUME NEW c \in Cores, SetUp(c) PROVE FALSE
    <3>1. PICK s \in SettingUp \cup {"next", "count"} : pc' = [pc EXCEPT ![c] = s]
      BY <2>2, SetUpStep
    <3> QED
      BY <2>0, <3>1 DEF SettingUp
  <2>3. CASE RegisterHandlers \/ BspNext \/ BspClear \/ BspStack \/ BspInit \/ BspDelay
             \/ BspWait \/ BspSpin \/ Interrupt
    BY <2>0, <2>3 DEF RegisterHandlers, BspNext, BspClear, BspStack, BspInit, BspDelay, BspWait,
       BspSpin, Interrupt, Goto
  <2>4. ASSUME NEW b \in APs, ApTrampoline(b) \/ ApCount(b) \/ ApSignal(b) PROVE FALSE
    BY <2>0, <2>4 DEF ApTrampoline, ApCount, ApSignal, Goto
  <2> QED
    BY <2>0, <2>1, <2>2, <2>3, <2>4 DEF Next, BspStep, ApStep
<1> QED
  BY <1>1, <1>2, BootOrder, StepDelay, PTL DEF Spec, StartupDelayed

=============================================================================

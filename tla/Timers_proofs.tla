--------------------------- MODULE Timers_proofs ---------------------------
(***************************************************************************)
(* The registry of timers and the waits on it, for any machines, any       *)
(* requests and any waits.  The argument is TimersInv of Timers: which     *)
(* timers are registered follows from the step of the initialisation,      *)
(* a granted timer belongs to its request alone, and the wait's handler is *)
(* called only while the wait is on.                                       *)
(***************************************************************************)
EXTENDS Timers, SequenceTheorems, FiniteSetTheorems, WellFoundedInduction, TLAPS

Dev == [on : BOOLEAN, oneshot : BOOLEAN, handler : Int]

LEMMA OffType == Off \in Dev
BY DEF Off, Dev, NoHandler

(* A set of numbers that is not empty has the least member that the search *)
(* of the registry chooses.                                                *)
LEMMA LeastMember ==
  ASSUME NEW S, S \subseteq Nat, S # {}
  PROVE  (CHOOSE i \in S : \A j \in S : i <= j) \in S
<1> DEFINE Below(x) == {y \in S : y <= x}
           Belows   == {U \in SUBSET S : \E x \in S : U = Below(x)}
<1>1. Belows \subseteq FiniteSubsetsOf(S)
  <2> SUFFICES ASSUME NEW x \in S PROVE IsFiniteSet(Below(x))
    BY DEF FiniteSubsetsOf
  <2>1. x \in Nat /\ Below(x) \in SUBSET Nat /\ \A y \in Below(x) : y <= x
    OBVIOUS
  <2> HIDE DEF Below
  <2> QED BY <2>1, FS_BoundedSetOfNaturals
<1>2. Belows # {}
  OBVIOUS
<1>3. IsWellFoundedOn(StrictSubsetOrdering(S), FiniteSubsetsOf(S))
  BY FS_StrictSubsetOrderingWellFounded
<1>4. PICK U \in Belows : \A V \in Belows : ~(<<V, U>> \in StrictSubsetOrdering(S))
  <2> HIDE DEF Belows
  <2> QED BY <1>1, <1>2, <1>3, WFMin
<1>5. PICK x \in S : U = Below(x)
  OBVIOUS
<1>6. \A y \in S : x <= y
  <2> SUFFICES ASSUME NEW y \in S, y < x PROVE FALSE
    OBVIOUS
  <2>1. Below(y) \in Belows /\ Below(y) \subseteq U /\ Below(y) # U
    <3>1. x \in U /\ x \notin Below(y)
      BY <1>5
    <3>2. \A z \in Below(y) : z <= x
      OBVIOUS
    <3> QED BY <1>5, <3>1, <3>2
  <2> QED BY <1>4, <2>1 DEF StrictSubsetOrdering
<1> QED BY <1>6

(* A request or a wait gets a timer that is free, or none.                 *)
LEMMA RequestFinds ==
  ASSUME TimersType, NEW features
  PROVE  /\ ForRequest(features) \in Nat
         /\ ForRequest(features) # 0 => /\ ForRequest(features) \in Idx
                                        /\ ~timer_defs[ForRequest(features)].in_use
<1> DEFINE free == {i \in Idx : /\ ~timer_defs[i].in_use
                                /\ timer_defs[i].settable
                                /\ /\ features \subseteq timer_defs[i].features
                                   /\ "write" \in features => timer_defs[i].writable}
<1>1. ForRequest(features) =
        IF free = {} THEN 0 ELSE CHOOSE i \in free : \A j \in free : i <= j
  BY DEF ForRequest, FirstFree
<1>2. free \subseteq Idx /\ free \subseteq Nat
  BY DEF Idx
<1>3. \A i \in free : ~timer_defs[i].in_use
  OBVIOUS
<1> HIDE DEF free
<1>4. CASE free = {}
  BY <1>1, <1>4
<1>5. CASE free # {}
  <2>1. ForRequest(features) \in free
    BY <1>1, <1>2, <1>5, LeastMember
  <2> QED BY <1>2, <1>3, <2>1
<1> QED BY <1>4, <1>5

LEMMA WaitFinds ==
  ASSUME TimersType
  PROVE  ForWait # 0 => ForWait \in Idx /\ ForWait \in Nat /\ ~timer_defs[ForWait].in_use
<1> DEFINE free == {i \in Idx : /\ ~timer_defs[i].in_use
                                /\ timer_defs[i].settable
                                /\ "periodic" \in timer_defs[i].features}
<1>1. ForWait =
        IF free = {} THEN 0 ELSE CHOOSE i \in free : \A j \in free : i <= j
  BY DEF ForWait, FirstFree
<1>2. free \subseteq Idx /\ free \subseteq Nat
  BY DEF Idx
<1>3. \A i \in free : ~timer_defs[i].in_use
  OBVIOUS
<1> HIDE DEF free
<1>4. CASE free = {}
  BY <1>1, <1>4
<1>5. CASE free # {}
  <2>1. ForWait \in free
    BY <1>1, <1>2, <1>5, LeastMember
  <2> QED BY <1>2, <1>3, <2>1
<1> QED BY <1>4, <1>5

-----------------------------------------------------------------------------
(* The initialisation.                                                     *)

LEMMA InitTimers == Init => TimersInv
<1> SUFFICES ASSUME Init PROVE TimersInv
  OBVIOUS
<1> USE DEF Init, T!Init
<1>1. Len(timer_defs) = 0 /\ Idx = {}
  BY DEF Idx
<1>2. Len(dev) = 0 /\ Len(grants) = 0 /\ Len(fired) = 0
  OBVIOUS
<1>3. TimersType
  BY <1>1, <1>2 DEF TimersType
<1>4. RegisteredSoFar
  BY <1>1, MachinesAssumption DEF RegisteredSoFar
<1>5. OneApic /\ GrantsOrder /\ WaitOrder
  BY <1>1, <1>2 DEF OneApic, GrantsOrder, WaitOrder
<1> QED BY <1>3, <1>4, <1>5 DEF TimersInv

(* A registration appends a timer that is off and belongs to nobody.       *)
LEMMA RegisterAppends ==
  ASSUME TimersType, NEW def \in TimerDef, Register(def)
  PROVE  /\ timer_defs' \in Seq(TimerDef) /\ dev' \in Seq(Dev)
         /\ Len(timer_defs') = Len(timer_defs) + 1 /\ Len(dev') = Len(timer_defs) + 1
         /\ \A i \in Idx : timer_defs'[i] = timer_defs[i] /\ dev'[i] = dev[i]
         /\ timer_defs'[Len(timer_defs) + 1] = def
         /\ dev'[Len(timer_defs) + 1] = Off
<1>1. timer_defs \in Seq(TimerDef) /\ dev \in Seq(Dev) /\ Len(dev) = Len(timer_defs)
  BY DEF TimersType, Dev
<1>2. timer_defs' = Append(timer_defs, def) /\ dev' = Append(dev, Off)
  BY DEF Register
<1> QED BY <1>1, <1>2, AppendProperties, OffType DEF Idx

LEMMA RegisterKeeps ==
  ASSUME TimersInv, NEW def \in TimerDef, Register(def), UNCHANGED <<users, wait>>
  PROVE  /\ TimersType' /\ GrantsOrder' /\ WaitOrder' /\ machine' = machine
         /\ Len(timer_defs') = Len(timer_defs) + 1 /\ Len(timer_defs) \in Nat
         /\ \A i \in Idx : timer_defs'[i] = timer_defs[i]
         /\ timer_defs'[Len(timer_defs) + 1] = def
<1>1. TimersType /\ GrantsOrder /\ WaitOrder
  BY DEF TimersInv
<1>2. /\ timer_defs' \in Seq(TimerDef) /\ dev' \in Seq(Dev)
      /\ Len(timer_defs') = Len(timer_defs) + 1 /\ Len(dev') = Len(timer_defs) + 1
      /\ \A i \in Idx : timer_defs'[i] = timer_defs[i] /\ dev'[i] = dev[i]
      /\ timer_defs'[Len(timer_defs) + 1] = def
      /\ dev'[Len(timer_defs) + 1] = Off
  BY <1>1, RegisterAppends
<1>3. Len(timer_defs) \in Nat
  BY <1>1 DEF TimersType
<1> DEFINE n == Len(timer_defs)
<1>4. Idx = 1 .. n /\ Idx' = 1 .. n + 1
  BY <1>2 DEF Idx
<1>5. TimersType'
  BY <1>1, <1>2, <1>3, <1>4 DEF TimersType, Dev, Register, users, wait, DefCount, TimerCount
<1>6. GrantsOrder'
  <2>1. UNCHANGED <<grants, fired, sel>>
    BY DEF users
  <2>2. \A r \in 1 .. Len(grants) :
          OnApic(grants[r].timer)' => OnApic(grants[r].timer) /\ grants[r].timer \in Idx
    BY <1>1, <1>2, <2>1 DEF OnApic, GrantsOrder, TimersType
  <2>3. dev'[n + 1].handler = 0
    BY <1>2 DEF Off, NoHandler
  <2>4. \A i \in Idx' : i \in Idx \/ i = n + 1
    BY <1>3, <1>4
  <2>5. ASSUME NEW r \in 1 .. Len(grants'), grants'[r].timer # 0
        PROVE  /\ grants'[r].timer \in Idx' \ {sel'}
               /\ timer_defs'[grants'[r].timer].in_use
               /\ dev'[grants'[r].timer].handler = r
    BY <1>1, <1>2, <1>3, <1>4, <2>1, <2>5 DEF GrantsOrder
  <2>6. ASSUME NEW i \in Idx', dev'[i].handler > 0
        PROVE  dev'[i].handler \in 1 .. Len(grants') /\ grants'[dev'[i].handler].timer = i
    BY <1>1, <1>2, <2>1, <2>3, <2>4, <2>6 DEF GrantsOrder
  <2>7. ASSUME NEW r \in 1 .. Len(grants'), OnApic(grants[r].timer)',
               "oneshot" \in grants'[r].features
        PROVE  /\ dev'[grants'[r].timer].oneshot
               /\ fired'[r] <= IF dev'[grants'[r].timer].on THEN 0 ELSE 1
    BY <1>1, <1>2, <2>1, <2>2, <2>7 DEF GrantsOrder
  <2> QED BY <2>5, <2>6, <2>7 DEF GrantsOrder
<1>7. WaitOrder'
  <2>1. ~dev'[n + 1].on
    BY <1>2 DEF Off
  <2>2. \A i \in Idx' : i \in Idx \/ i = n + 1
    BY <1>3, <1>4
  <2> QED BY <1>1, <1>2, <2>1, <2>2 DEF WaitOrder, users, wait, Ticks
<1> QED BY <1>2, <1>3, <1>5, <1>6, <1>7 DEF Register

(* Only RegisterApic registers a local APIC timer.                         *)
LEMMA OtherKeepsOneApic ==
  ASSUME TimersInv, NEW def \in TimerDef, Register(def), UNCHANGED <<users, wait>>,
         def.kind # "apic",
         pc' \in {"tsc", "hpet_main", "hpet_sub", "hpet_done", "apic"} =>
           pc \in {"tsc", "hpet_main", "hpet_sub", "hpet_done", "apic"}
  PROVE  OneApic'
<1>1. /\ Len(timer_defs') = Len(timer_defs) + 1 /\ Len(timer_defs) \in Nat
      /\ \A i \in Idx : timer_defs'[i] = timer_defs[i]
      /\ timer_defs'[Len(timer_defs) + 1] = def
  BY RegisterKeeps
<1>2. \A i \in Idx' : timer_defs'[i].kind = "apic" =>
        i \in Idx /\ timer_defs[i].kind = "apic"
  BY <1>1 DEF Idx
<1> QED BY <1>2 DEF TimersInv, OneApic

LEMMA RegisterTscKeeps == TimersInv /\ RegisterTsc => TimersInv'
<1> SUFFICES ASSUME TimersInv, RegisterTsc PROVE TimersInv'
  OBVIOUS
<1> DEFINE def == Def("tsc", {"persistent", "counter", "read"}, FALSE, FALSE)
<1>1. def \in TimerDef /\ def.kind # "apic"
  BY DEF Def, TimerDef
<1>2. /\ Register(def) /\ UNCHANGED <<users, wait>>
      /\ pc = "tsc" /\ pc' = "apic"
  BY DEF RegisterTsc
<1> HIDE DEF def
<1>3. /\ TimersType' /\ GrantsOrder' /\ WaitOrder' /\ machine' = machine
      /\ Len(timer_defs') = Len(timer_defs) + 1
  BY <1>1, <1>2, RegisterKeeps
<1>4. OneApic'
  BY <1>1, <1>2, OtherKeepsOneApic
<1>5. RegisteredSoFar'
  BY <1>2, <1>3 DEF TimersInv, RegisteredSoFar, wait
<1> QED BY <1>3, <1>4, <1>5 DEF TimersInv

LEMMA RegisterHpetKeeps == TimersInv /\ RegisterHpet => TimersInv'
<1> SUFFICES ASSUME TimersInv, RegisterHpet PROVE TimersInv'
  OBVIOUS
<1> DEFINE def == Def("hpet_main", {"persistent", "read", "counter", "write"}, FALSE, TRUE)
<1>1. def \in TimerDef /\ def.kind # "apic"
  BY DEF Def, TimerDef
<1>2. /\ Register(def) /\ UNCHANGED <<users, wait>>
      /\ pc = "hpet_main" /\ pc' = "hpet_sub"
  BY DEF RegisterHpet
<1> HIDE DEF def
<1>3. /\ TimersType' /\ GrantsOrder' /\ WaitOrder' /\ machine' = machine
      /\ Len(timer_defs') = Len(timer_defs) + 1
  BY <1>1, <1>2, RegisterKeeps
<1>4. OneApic'
  BY <1>1, <1>2, OtherKeepsOneApic
<1>5. Len(machine.subs) \in Nat \ {0}
  BY MachinesAssumption DEF TimersInv, TimersType
<1>6. RegisteredSoFar'
  BY <1>2, <1>3, <1>5 DEF TimersInv, RegisteredSoFar, wait
<1> QED BY <1>3, <1>4, <1>6 DEF TimersInv

LEMMA RegisterHpetSubKeeps == TimersInv /\ RegisterHpetSub => TimersInv'
<1> SUFFICES ASSUME TimersInv, RegisterHpetSub PROVE TimersInv'
  OBVIOUS
<1> DEFINE s   == machine.subs[Len(timer_defs)]
           def == Def("hpet_sub",
                      {"persistent", "read", "write", "oneshot"}
                        \cup (IF s.fsb THEN {"pcie_msg_intr"} ELSE {"fixed_intr"})
                        \cup (IF s.periodic THEN {"periodic"} ELSE {}),
                      TRUE, TRUE)
<1>1. def \in TimerDef /\ def.kind # "apic"
  BY DEF Def, TimerDef
<1>2. /\ Register(def) /\ UNCHANGED <<users, wait>>
      /\ pc = "hpet_sub"
      /\ pc' = IF Len(timer_defs) = Len(machine.subs) THEN "hpet_done" ELSE pc
  BY DEF RegisterHpetSub
<1> HIDE DEF def
<1>3. /\ TimersType' /\ GrantsOrder' /\ WaitOrder' /\ machine' = machine
      /\ Len(timer_defs') = Len(timer_defs) + 1 /\ Len(timer_defs) \in Nat
  BY <1>1, <1>2, RegisterKeeps
<1>4. OneApic'
  BY <1>1, <1>2, OtherKeepsOneApic
<1>5. Len(machine.subs) \in Nat \ {0}
  BY MachinesAssumption DEF TimersInv, TimersType
<1>6. RegisteredSoFar'
  BY <1>2, <1>3, <1>5 DEF TimersInv, RegisteredSoFar, wait
<1> QED BY <1>3, <1>4, <1>6 DEF TimersInv

LEMMA RegisterApicKeeps == TimersInv /\ RegisterApic => TimersInv'
<1> SUFFICES ASSUME TimersInv, RegisterApic PROVE TimersInv'
  OBVIOUS
<1>1. Apic \in TimerDef
  BY DEF Apic, Def, TimerDef
<1>2. /\ Register(Apic) /\ UNCHANGED <<users, wait>>
      /\ pc = "apic" /\ pc' = "rtc"
  BY DEF RegisterApic
<1>3. /\ TimersType' /\ GrantsOrder' /\ WaitOrder' /\ machine' = machine
      /\ Len(timer_defs') = Len(timer_defs) + 1 /\ Len(timer_defs) \in Nat
      /\ \A i \in Idx : timer_defs'[i] = timer_defs[i]
  BY <1>1, <1>2, RegisterKeeps
<1>4. OneApic'
  <2>1. \A i \in Idx' : i \in Idx \/ i = Len(timer_defs) + 1
    BY <1>3 DEF Idx
  <2>2. \A i \in Idx : timer_defs'[i].kind # "apic"
    BY <1>2, <1>3 DEF TimersInv, OneApic
  <2> QED BY <1>2, <2>1, <2>2 DEF OneApic
<1>5. Len(machine.subs) \in Nat \ {0}
  BY MachinesAssumption DEF TimersInv, TimersType
<1>6. RegisteredSoFar'
  <2>1. Len(timer_defs) = (IF machine.tsc THEN 1 ELSE Len(machine.subs) + 1) /\ wpc = "idle"
    BY <1>2 DEF TimersInv, RegisteredSoFar
  <2>2. Len(timer_defs') = IF machine'.tsc THEN 2 ELSE Len(machine'.subs) + 2
    BY <1>3, <1>5, <2>1
  <2> QED BY <1>2, <1>3, <2>1, <2>2 DEF RegisteredSoFar, wait
<1> QED BY <1>3, <1>4, <1>6 DEF TimersInv

(* Steps that touch neither the registry nor its users: an interrupt of    *)
(* another timer ends a hlt.                                               *)
LEMMA UsersUntouched ==
  ASSUME TimersInv, UNCHANGED <<machine, registry, users>>, UNCHANGED <<want, T!flags, elapsed>>,
         wpc' = wpc \/ (wpc = "halted" /\ wpc' = "check")
  PROVE  TimersType' /\ GrantsOrder' /\ WaitOrder'
<1>1. TimersType'
  BY DEF TimersInv, TimersType, registry, users, T!flags, Idx, DefCount, TimerCount
<1>2. GrantsOrder'
  BY DEF TimersInv, GrantsOrder, registry, users, Idx, OnApic
<1>3. WaitOrder'
  BY DEF TimersInv, WaitOrder, registry, users, T!flags, Idx, Ticks
<1> QED BY <1>1, <1>2, <1>3

LEMMA HpetDoneKeeps == TimersInv /\ HpetDone => TimersInv'
<1> SUFFICES ASSUME TimersInv, HpetDone PROVE TimersInv'
  OBVIOUS
<1> USE DEF HpetDone
<1>1. TimersType' /\ GrantsOrder' /\ WaitOrder'
  BY UsersUntouched DEF wait, T!flags
<1>2. OneApic'
  BY DEF TimersInv, OneApic, registry, Idx
<1>3. RegisteredSoFar'
  BY DEF TimersInv, RegisteredSoFar, registry, wait
<1> QED BY <1>1, <1>2, <1>3 DEF TimersInv

LEMMA RegisterRtcKeeps == TimersInv /\ RegisterRtc => TimersInv'
<1> SUFFICES ASSUME TimersInv, RegisterRtc PROVE TimersInv'
  OBVIOUS
<1>1. pc = "rtc" /\ pc' = "ready" /\ UNCHANGED <<users, wait>>
  BY DEF RegisterRtc
<1>2. Len(machine.subs) \in Nat \ {0}
  BY MachinesAssumption DEF TimersInv, TimersType
<1>3. CASE machine.rtc
  <2> DEFINE def == Def("rtc", {"persistent", "counter", "read"}, FALSE, FALSE)
  <2>1. def \in TimerDef /\ def.kind # "apic"
    BY DEF Def, TimerDef
  <2>2. Register(def)
    BY <1>3 DEF RegisterRtc
  <2> HIDE DEF def
  <2>3. /\ TimersType' /\ GrantsOrder' /\ WaitOrder' /\ machine' = machine
        /\ Len(timer_defs') = Len(timer_defs) + 1 /\ Len(timer_defs) \in Nat
    BY <1>1, <2>1, <2>2, RegisterKeeps
  <2>4. OneApic'
    BY <1>1, <2>1, <2>2, OtherKeepsOneApic
  <2>5. RegisteredSoFar'
    <3>1. Len(timer_defs) = (IF machine.tsc THEN 2 ELSE Len(machine.subs) + 2) /\ wpc = "idle"
      BY <1>1 DEF TimersInv, RegisteredSoFar
    <3>2. Len(timer_defs') <= IF machine'.tsc THEN 3 ELSE Len(machine'.subs) + 3
      BY <1>2, <2>3, <3>1
    <3> QED BY <1>1, <2>3, <3>1, <3>2 DEF RegisteredSoFar, wait
  <2> QED BY <2>3, <2>4, <2>5 DEF TimersInv
<1>4. CASE ~machine.rtc
  <2>1. UNCHANGED <<machine, registry>>
    BY <1>4 DEF RegisterRtc
  <2>2. TimersType' /\ GrantsOrder' /\ WaitOrder'
    BY <1>1, <2>1, UsersUntouched DEF wait, T!flags
  <2>3. OneApic'
    BY <1>1, <2>1 DEF TimersInv, OneApic, registry, Idx
  <2>4. RegisteredSoFar'
    <3>1. Len(timer_defs) = (IF machine.tsc THEN 2 ELSE Len(machine.subs) + 2) /\ wpc = "idle"
      BY <1>1 DEF TimersInv, RegisteredSoFar
    <3>2. Len(timer_defs') <= IF machine'.tsc THEN 3 ELSE Len(machine'.subs) + 3
      BY <1>2, <2>1, <3>1 DEF registry
    <3> QED BY <1>1, <2>1, <3>1, <3>2 DEF RegisteredSoFar, wait
  <2> QED BY <2>2, <2>3, <2>4 DEF TimersInv
<1> QED BY <1>3, <1>4

LEMMA MpInitKeeps == TimersInv /\ MpInit => TimersInv'
<1> SUFFICES ASSUME TimersInv, MpInit PROVE TimersInv'
  OBVIOUS
<1> USE DEF MpInit
<1>1. TimersType' /\ GrantsOrder' /\ WaitOrder'
  BY UsersUntouched DEF wait, T!flags
<1>2. OneApic'
  BY DEF TimersInv, OneApic, registry, Idx
<1>3. RegisteredSoFar'
  BY DEF TimersInv, RegisteredSoFar, registry, wait
<1> QED BY <1>1, <1>2, <1>3 DEF TimersInv

LEMMA WaitPanicKeeps == TimersInv /\ WaitPanic => TimersInv'
<1> SUFFICES ASSUME TimersInv, WaitPanic PROVE TimersInv'
  OBVIOUS
<1> USE DEF WaitPanic
<1>1. TimersType' /\ GrantsOrder' /\ WaitOrder'
  BY UsersUntouched DEF wait, T!flags
<1>2. OneApic'
  BY DEF TimersInv, OneApic, registry, Idx
<1>3. RegisteredSoFar'
  BY DEF TimersInv, RegisteredSoFar, registry, wait
<1> QED BY <1>1, <1>2, <1>3 DEF TimersInv

LEMMA RtcInterruptKeeps == TimersInv /\ RtcInterrupt => TimersInv'
<1> SUFFICES ASSUME TimersInv, RtcInterrupt PROVE TimersInv'
  OBVIOUS
<1> USE DEF RtcInterrupt, T!OtherInterrupt, T!Woken
<1>1. TimersType' /\ GrantsOrder' /\ WaitOrder'
  BY UsersUntouched
<1>2. OneApic'
  BY DEF TimersInv, OneApic, registry, Idx
<1>3. RegisteredSoFar'
  BY DEF TimersInv, RegisteredSoFar, registry
<1> QED BY <1>1, <1>2, <1>3 DEF TimersInv

-----------------------------------------------------------------------------
(* Requests.                                                               *)

LEMMA InUseSets ==
  ASSUME TimersType, NEW i \in Idx, NEW b \in BOOLEAN, InUse(i, b)
  PROVE  /\ timer_defs' \in Seq(TimerDef) /\ Len(timer_defs') = Len(timer_defs)
         /\ \A j \in Idx : j # i => timer_defs'[j] = timer_defs[j]
         /\ \A j \in Idx : timer_defs'[j].kind = timer_defs[j].kind
         /\ timer_defs'[i].in_use = b
<1> DEFINE d == [timer_defs[i] EXCEPT !.in_use = b]
<1>1. timer_defs \in Seq(TimerDef) /\ i \in 1 .. Len(timer_defs)
  BY DEF TimersType, Idx
<1>2. timer_defs[i] \in TimerDef
  BY <1>1
<1>3. d \in TimerDef /\ d.in_use = b /\ d.kind = timer_defs[i].kind
  BY <1>2 DEF TimerDef
<1>4. timer_defs' = [timer_defs EXCEPT ![i] = d]
  BY DEF InUse
<1> HIDE DEF d
<1>5. /\ timer_defs' \in Seq(TimerDef) /\ Len(timer_defs') = Len(timer_defs)
      /\ \A j \in Idx : timer_defs'[j] = IF j = i THEN d ELSE timer_defs[j]
  BY <1>1, <1>3, <1>4, ExceptSeq DEF Idx
<1> QED BY <1>3, <1>5

LEMMA DevSets ==
  ASSUME TimersType, NEW i \in Idx, NEW d \in Dev, dev' = [dev EXCEPT ![i] = d]
  PROVE  /\ dev' \in Seq(Dev) /\ Len(dev') = Len(timer_defs)
         /\ \A j \in Idx : j # i => dev'[j] = dev[j]
         /\ dev'[i] = d
<1>1. dev \in Seq(Dev) /\ i \in 1 .. Len(dev) /\ Len(dev) = Len(timer_defs)
  BY DEF TimersType, Idx, Dev
<1> QED BY <1>1, ExceptSeq DEF Idx

LEMMA DevAt == TimersType => \A i \in Idx : dev[i] \in Dev
<1> SUFFICES ASSUME TimersType, NEW i \in Idx PROVE dev[i] \in Dev
  OBVIOUS
<1>1. dev \in Seq(Dev) /\ i \in 1 .. Len(dev)
  BY DEF TimersType, Idx, Dev
<1> QED BY <1>1

(* What stays of the other parts when only a timer's use and device change.*)
LEMMA SameRegistry ==
  ASSUME TimersInv, UNCHANGED <<machine, pc>>, wpc' = "idle" \/ pc = "ready",
         Len(timer_defs') = Len(timer_defs),
         \A j \in Idx : timer_defs'[j].kind = timer_defs[j].kind
  PROVE  Idx' = Idx /\ OneApic' /\ RegisteredSoFar'
<1>1. Idx' = Idx
  BY DEF Idx
<1>2. OneApic'
  BY <1>1 DEF TimersInv, OneApic
<1>3. RegisteredSoFar'
  BY DEF TimersInv, RegisteredSoFar
<1> QED BY <1>1, <1>2, <1>3

LEMMA RequestKeeps ==
  ASSUME TimersInv, NEW features \in Requests, Request(features)
  PROVE  TimersInv'
<1> DEFINE i == ForRequest(features)
           n == Len(grants)
           g == [timer |-> i, features |-> features]
<1>1. TimersType /\ GrantsOrder /\ WaitOrder
  BY DEF TimersInv
<1>2. /\ pc = "ready" /\ wpc = "idle"
      /\ i = 0 => UNCHANGED <<timer_defs, dev>>
      /\ i # 0 => Grant(i, features)
      /\ grants' = Append(grants, g) /\ fired' = Append(fired, 0)
      /\ UNCHANGED <<machine, pc, timer_def_cnt, sel, wait>>
  BY DEF Request
<1>3. i \in Nat /\ (i # 0 => i \in Idx /\ ~timer_defs[i].in_use)
  BY <1>1, RequestFinds
<1> HIDE DEF i
<1>4. n \in Nat /\ grants \in Seq([timer : Nat, features : Requests])
      /\ fired \in Seq(Nat) /\ Len(fired) = n
  BY <1>1 DEF TimersType
<1>5. /\ grants' \in Seq([timer : Nat, features : Requests]) /\ Len(grants') = n + 1
      /\ \A r \in 1 .. n : grants'[r] = grants[r]
      /\ grants'[n + 1] = g
  <2>1. g \in [timer : Nat, features : Requests]
    BY <1>3
  <2> QED BY <1>2, <1>4, <2>1, AppendProperties
<1>6. /\ fired' \in Seq(Nat) /\ Len(fired') = n + 1
      /\ \A r \in 1 .. n : fired'[r] = fired[r]
      /\ fired'[n + 1] = 0
  BY <1>2, <1>4, AppendProperties
<1>7. sel = 0 /\ sel' = 0
  BY <1>1, <1>2 DEF TimersType
<1>8. /\ timer_defs' \in Seq(TimerDef) /\ Len(timer_defs') = Len(timer_defs)
      /\ dev' \in Seq(Dev) /\ Len(dev') = Len(timer_defs)
      /\ \A j \in Idx : timer_defs'[j].kind = timer_defs[j].kind
      /\ \A j \in Idx : j # i => timer_defs'[j] = timer_defs[j] /\ dev'[j] = dev[j]
      /\ i # 0 => /\ timer_defs'[i].in_use /\ dev'[i].handler = n + 1
                  /\ "oneshot" \in features => dev'[i].oneshot
  <2>1. CASE i = 0
    BY <1>1, <1>2, <2>1 DEF TimersType, Dev
  <2>2. CASE i # 0
    <3> DEFINE o == "oneshot" \in features
                      \/ (dev[i].oneshot /\ "periodic" \notin features)
               d == [dev[i] EXCEPT !.on = TRUE, !.handler = n + 1, !.oneshot = o]
    <3>1. InUse(i, TRUE) /\ dev' = [dev EXCEPT ![i] = d]
      <4>1. Grant(i, features)
        BY <1>2, <2>2
      <4> QED BY <4>1 DEF Grant
    <3>2. dev[i] \in Dev
      BY <1>1, <1>3, <2>2, DevAt
    <3>3. o \in BOOLEAN /\ ("oneshot" \in features => o)
      OBVIOUS
    <3> HIDE DEF o
    <3>4. /\ d \in Dev /\ d.handler = n + 1
          /\ "oneshot" \in features => d.oneshot
      <4>1. n + 1 \in Int
        BY <1>4
      <4> HIDE DEF n
      <4>2. d \in Dev
        BY <3>2, <3>3, <4>1 DEF Dev
      <4>3. d.handler = n + 1
        BY <3>2 DEF Dev
      <4>4. d.oneshot = o
        BY <3>2 DEF Dev
      <4> QED BY <3>3, <4>2, <4>3, <4>4
    <3> HIDE DEF d
    <3>5. /\ timer_defs' \in Seq(TimerDef) /\ Len(timer_defs') = Len(timer_defs)
          /\ \A j \in Idx : j # i => timer_defs'[j] = timer_defs[j]
          /\ \A j \in Idx : timer_defs'[j].kind = timer_defs[j].kind
          /\ timer_defs'[i].in_use = TRUE
      BY <1>1, <1>3, <2>2, <3>1, InUseSets
    <3>6. /\ dev' \in Seq(Dev) /\ Len(dev') = Len(timer_defs)
          /\ \A j \in Idx : j # i => dev'[j] = dev[j]
          /\ dev'[i] = d
      BY <1>1, <1>3, <2>2, <3>1, <3>4, DevSets
    <3> QED BY <3>4, <3>5, <3>6
  <2> QED BY <2>1, <2>2
<1>9. Idx' = Idx /\ OneApic' /\ RegisteredSoFar'
  BY <1>2, <1>8, SameRegistry
<1>10. TimersType'
  BY <1>1, <1>2, <1>5, <1>6, <1>7, <1>8, <1>9
     DEF TimersType, Dev, wait, DefCount, TimerCount
<1>11. GrantsOrder'
  <2>1. ASSUME NEW r \in 1 .. n, grants[r].timer # 0
        PROVE  grants[r].timer \in Idx /\ grants[r].timer # i
               /\ timer_defs[grants[r].timer].in_use
               /\ dev[grants[r].timer].handler = r
    BY <1>1, <1>3, <1>4, <2>1 DEF GrantsOrder
  <2>2. \A r \in 1 .. Len(grants') : r \in 1 .. n \/ r = n + 1
    BY <1>4, <1>5
  <2>3. ASSUME NEW r \in 1 .. Len(grants'), grants'[r].timer # 0
        PROVE  /\ grants'[r].timer \in Idx' \ {sel'}
               /\ timer_defs'[grants'[r].timer].in_use
               /\ dev'[grants'[r].timer].handler = r
    <3>1. CASE r = n + 1
      BY <1>3, <1>5, <1>7, <1>8, <1>9, <2>3, <3>1 DEF Idx
    <3>2. CASE r \in 1 .. n
      <4>1. grants'[r].timer = grants[r].timer
        BY <1>5, <3>2
      <4> QED BY <1>7, <1>8, <1>9, <2>1, <2>3, <3>2, <4>1 DEF Idx
    <3> QED BY <2>2, <3>1, <3>2
  <2>4. ASSUME NEW j \in Idx', dev'[j].handler > 0
        PROVE  dev'[j].handler \in 1 .. Len(grants') /\ grants'[dev'[j].handler].timer = j
    <3>1. CASE j = i /\ i # 0
      BY <1>4, <1>5, <1>8, <3>1
    <3>2. CASE j # i
      <4>1. dev'[j] = dev[j] /\ j \in Idx
        BY <1>8, <1>9, <3>2
      <4>2. dev[j].handler \in 1 .. n /\ grants[dev[j].handler].timer = j
        BY <1>1, <2>4, <4>1 DEF GrantsOrder
      <4>3. PICK r \in 1 .. n : r = dev'[j].handler /\ grants[r].timer = j
        BY <4>1, <4>2
      <4>4. r \in 1 .. Len(grants') /\ grants'[r].timer = grants[r].timer
        BY <1>4, <1>5
      <4> QED BY <4>3, <4>4
    <3>3. j # 0
      BY <1>9 DEF Idx
    <3> QED BY <3>1, <3>2, <3>3
  <2>5. ASSUME NEW r \in 1 .. Len(grants'), OnApic(grants[r].timer)',
               "oneshot" \in grants'[r].features
        PROVE  /\ dev'[grants'[r].timer].oneshot
               /\ fired'[r] <= IF dev'[grants'[r].timer].on THEN 0 ELSE 1
    <3>1. CASE r = n + 1
      BY <1>5, <1>6, <1>8, <2>5, <3>1 DEF OnApic
    <3>2. CASE r \in 1 .. n
      <4>1. OnApic(grants[r].timer) /\ grants[r].timer \in Idx /\ grants[r].timer # i
        BY <1>5, <1>8, <2>1, <2>5, <3>2 DEF OnApic
      <4>2. dev[grants[r].timer].oneshot
            /\ fired[r] <= IF dev[grants[r].timer].on THEN 0 ELSE 1
        BY <1>1, <1>5, <2>5, <3>2, <4>1 DEF GrantsOrder
      <4>3. grants'[r].timer = grants[r].timer /\ fired'[r] = fired[r]
        BY <1>5, <1>6, <3>2
      <4>4. dev'[grants[r].timer] = dev[grants[r].timer]
        BY <1>8, <4>1
      <4> QED BY <4>2, <4>3, <4>4
    <3> QED BY <2>2, <3>1, <3>2
  <2> QED BY <2>3, <2>4, <2>5 DEF GrantsOrder
<1>12. WaitOrder'
  <2>1. \A j \in Idx : dev'[j].on /\ dev'[j].handler = WaitHandler =>
          dev[j].on /\ dev[j].handler = WaitHandler
    <3> SUFFICES ASSUME NEW j \in Idx, dev'[j].on, dev'[j].handler = WaitHandler
                 PROVE  dev'[j] = dev[j]
      OBVIOUS
    <3>1. j # i
      <4>1. n + 1 # WaitHandler
        BY <1>4 DEF WaitHandler
      <4> QED BY <1>8, <4>1 DEF Idx
    <3> QED BY <1>8, <3>1
  <2> QED BY <1>1, <1>2, <1>7, <1>9, <2>1 DEF WaitOrder, wait, Ticks
<1> QED BY <1>9, <1>10, <1>11, <1>12 DEF TimersInv

-----------------------------------------------------------------------------
(* The wait.                                                               *)

LEMMA WaitSelectKeeps ==
  ASSUME TimersInv, NEW w \in Waits, WaitSelect(w)
  PROVE  TimersInv'
<1>1. TimersType /\ GrantsOrder /\ WaitOrder
  BY DEF TimersInv
<1>2. /\ pc = "ready" /\ sel' = ForWait /\ wpc = "idle" /\ wpc' = "reset" /\ want' = w
      /\ UNCHANGED <<machine, pc, registry, grants, fired, T!flags, elapsed>>
  BY DEF WaitSelect, T!Begin, T!Goto
<1>3. ForWait # 0 /\ ForWait \in Idx /\ ForWait \in Nat /\ ~timer_defs[ForWait].in_use
  <2>1. ForWait # 0
    BY DEF WaitSelect
  <2> QED BY <1>1, <2>1, WaitFinds
<1>4. Idx' = Idx /\ OneApic' /\ RegisteredSoFar'
  BY <1>2, SameRegistry DEF registry
<1>5. TimersType'
  BY <1>1, <1>2, <1>3, <1>4, WaitsAssumption
     DEF TimersType, registry, T!flags, DefCount, TimerCount
<1>6. GrantsOrder'
  BY <1>1, <1>2, <1>3, <1>4 DEF GrantsOrder, registry, OnApic
<1>7. WaitOrder'
  <2>1. \A i \in Idx : ~(dev[i].on /\ dev[i].handler = WaitHandler)
    BY <1>1, <1>2 DEF WaitOrder
  <2> QED BY <1>2, <1>4, <2>1 DEF WaitOrder, registry
<1> QED BY <1>4, <1>5, <1>6, <1>7 DEF TimersInv

LEMMA WaitStepKeeps == TimersInv /\ WaitStep => TimersInv'
<1> SUFFICES ASSUME TimersInv, WaitStep PROVE TimersInv'
  OBVIOUS
<1>1. TimersType /\ GrantsOrder /\ WaitOrder
  BY DEF TimersInv
<1>2. /\ UNCHANGED <<machine, pc, registry, users, want, elapsed>>
      /\ wpc # "idle" /\ wpc' # "idle"
  BY DEF WaitStep, T!Reset, T!SetPending, T!SetTarget, T!Check, T!Halt, T!Goto, T!flags
<1>3. pc = "ready"
  BY <1>2 DEF TimersInv, RegisteredSoFar
<1>4. Idx' = Idx /\ OneApic' /\ RegisteredSoFar'
  BY <1>2, <1>3, SameRegistry DEF registry
<1>5. GrantsOrder'
  BY <1>1, <1>2, <1>4 DEF GrantsOrder, registry, users, OnApic
<1>6. Ticks \in Nat
  BY <1>1 DEF TimersType, Ticks
<1> USE DEF T!Goto, T!flags
<1>7. CASE T!Reset
  <2>1. TimersType'
    BY <1>1, <1>2, <1>4, <1>7
       DEF TimersType, registry, users, T!Reset, DefCount, TimerCount
  <2>2. WaitOrder'
    BY <1>1, <1>2, <1>4, <1>7 DEF WaitOrder, registry, users, T!Reset, Ticks
  <2> QED BY <1>4, <1>5, <2>1, <2>2 DEF TimersInv
<1>8. CASE T!SetPending
  <2>1. TimersType'
    BY <1>1, <1>2, <1>4, <1>8
       DEF TimersType, registry, users, T!SetPending, DefCount, TimerCount
  <2>2. WaitOrder'
    BY <1>1, <1>2, <1>4, <1>8 DEF WaitOrder, registry, users, T!SetPending, Ticks
  <2> QED BY <1>4, <1>5, <2>1, <2>2 DEF TimersInv
<1>9. CASE T!SetTarget
  <2>1. TimersType'
    BY <1>1, <1>2, <1>4, <1>9
       DEF TimersType, registry, users, T!SetTarget, DefCount, TimerCount
  <2>2. WaitOrder'
    BY <1>1, <1>2, <1>4, <1>9 DEF WaitOrder, registry, users, T!SetTarget, Ticks
  <2> QED BY <1>4, <1>5, <2>1, <2>2 DEF TimersInv
<1>10. CASE T!Check
  <2>1. TimersType'
    BY <1>1, <1>2, <1>4, <1>10
       DEF TimersType, registry, users, T!Check, DefCount, TimerCount
  <2>2. WaitOrder'
    BY <1>1, <1>2, <1>4, <1>10 DEF WaitOrder, registry, users, T!Check, Ticks
  <2> QED BY <1>4, <1>5, <2>1, <2>2 DEF TimersInv
<1>11. CASE T!Halt
  <2>1. TimersType'
    BY <1>1, <1>2, <1>4, <1>11
       DEF TimersType, registry, users, T!Halt, DefCount, TimerCount
  <2>2. WaitOrder'
    BY <1>1, <1>2, <1>4, <1>11 DEF WaitOrder, registry, users, T!Halt, Ticks
  <2> QED BY <1>4, <1>5, <2>1, <2>2 DEF TimersInv
<1> QED BY <1>7, <1>8, <1>9, <1>10, <1>11 DEF WaitStep

(* What a wait does to its own timer concerns no request.                  *)
LEMMA OwnTimer ==
  ASSUME TimersInv, NEW b \in BOOLEAN, NEW d \in Dev, wpc # "idle",
         InUse(sel, b), dev' = [dev EXCEPT ![sel] = d], ~(d.handler > 0),
         UNCHANGED <<machine, pc, grants, fired>>, sel' = sel \/ sel' = 0
  PROVE  /\ sel \in Idx /\ pc = "ready"
         /\ timer_defs' \in Seq(TimerDef) /\ Len(timer_defs') = Len(timer_defs)
         /\ dev' \in Seq(Dev) /\ Len(dev') = Len(timer_defs)
         /\ \A j \in Idx : j # sel => dev'[j] = dev[j]
         /\ dev'[sel] = d
         /\ Idx' = Idx /\ OneApic' /\ RegisteredSoFar' /\ GrantsOrder'
<1>1. TimersType /\ GrantsOrder
  BY DEF TimersInv
<1>2. sel \in Idx /\ pc = "ready"
  BY <1>1 DEF TimersInv, TimersType, RegisteredSoFar
<1>3. /\ timer_defs' \in Seq(TimerDef) /\ Len(timer_defs') = Len(timer_defs)
      /\ \A j \in Idx : j # sel => timer_defs'[j] = timer_defs[j]
      /\ \A j \in Idx : timer_defs'[j].kind = timer_defs[j].kind
  BY <1>1, <1>2, InUseSets
<1>4. /\ dev' \in Seq(Dev) /\ Len(dev') = Len(timer_defs)
      /\ \A j \in Idx : j # sel => dev'[j] = dev[j]
      /\ dev'[sel] = d
  BY <1>1, <1>2, DevSets
<1>5. Idx' = Idx /\ OneApic' /\ RegisteredSoFar'
  BY <1>2, <1>3, SameRegistry
<1>6. 0 \notin Idx
  BY DEF Idx
<1>7. GrantsOrder'
  <2>1. ASSUME NEW r \in 1 .. Len(grants), grants[r].timer # 0
        PROVE  /\ grants[r].timer \in Idx /\ grants[r].timer # sel
               /\ timer_defs'[grants[r].timer] = timer_defs[grants[r].timer]
               /\ dev'[grants[r].timer] = dev[grants[r].timer]
    BY <1>1, <1>3, <1>4, <2>1 DEF GrantsOrder
  <2>2. ASSUME NEW r \in 1 .. Len(grants'), grants'[r].timer # 0
        PROVE  /\ grants'[r].timer \in Idx' \ {sel'}
               /\ timer_defs'[grants'[r].timer].in_use
               /\ dev'[grants'[r].timer].handler = r
    BY <1>1, <1>5, <1>6, <2>1, <2>2 DEF GrantsOrder
  <2>3. ASSUME NEW j \in Idx', dev'[j].handler > 0
        PROVE  dev'[j].handler \in 1 .. Len(grants') /\ grants'[dev'[j].handler].timer = j
    BY <1>1, <1>4, <1>5, <2>3 DEF GrantsOrder
  <2>4. ASSUME NEW r \in 1 .. Len(grants'), OnApic(grants[r].timer)',
               "oneshot" \in grants'[r].features
        PROVE  /\ dev'[grants'[r].timer].oneshot
               /\ fired'[r] <= IF dev'[grants'[r].timer].on THEN 0 ELSE 1
    <3>1. OnApic(grants[r].timer) /\ dev'[grants[r].timer] = dev[grants[r].timer]
      BY <1>3, <2>1, <2>4 DEF OnApic
    <3> QED BY <1>1, <2>4, <3>1 DEF GrantsOrder
  <2> QED BY <2>2, <2>3, <2>4 DEF GrantsOrder
<1> QED BY <1>2, <1>3, <1>4, <1>5, <1>7

LEMMA WaitEnableKeeps == TimersInv /\ WaitEnable => TimersInv'
<1> SUFFICES ASSUME TimersInv, WaitEnable PROVE TimersInv'
  OBVIOUS
<1>1. TimersType /\ WaitOrder
  BY DEF TimersInv
<1>2. /\ wpc = "enable" /\ wpc' = "check" /\ elapsed' = 0
      /\ UNCHANGED <<machine, pc, timer_def_cnt, grants, fired, sel, want, T!flags>>
  BY DEF WaitEnable, T!Enable, T!Goto, users
<1> DEFINE d == [dev[sel] EXCEPT !.on = TRUE, !.handler = WaitHandler]
<1>3. InUse(sel, TRUE) /\ dev' = [dev EXCEPT ![sel] = d]
  BY DEF WaitEnable
<1>4. d \in Dev /\ d.handler = WaitHandler
  <2>1. sel \in Idx
    BY <1>1, <1>2 DEF TimersType
  <2>2. dev[sel] \in Dev
    BY <1>1, <2>1, DevAt
  <2>3. WaitHandler \in Int
    BY DEF WaitHandler
  <2>4. d \in Dev
    BY <2>2, <2>3 DEF Dev
  <2>5. d.handler = WaitHandler
    BY <2>2 DEF Dev
  <2> QED BY <2>4, <2>5
<1>5. ~(d.handler > 0)
  BY <1>4 DEF WaitHandler
<1> HIDE DEF d
<1>6. /\ sel \in Idx
      /\ timer_defs' \in Seq(TimerDef) /\ Len(timer_defs') = Len(timer_defs)
      /\ dev' \in Seq(Dev) /\ Len(dev') = Len(timer_defs)
      /\ \A j \in Idx : j # sel => dev'[j] = dev[j]
      /\ Idx' = Idx /\ OneApic' /\ RegisteredSoFar' /\ GrantsOrder'
  BY <1>2, <1>3, <1>4, <1>5, OwnTimer
<1>7. TimersType'
  BY <1>1, <1>2, <1>6 DEF TimersType, Dev, T!flags, DefCount, TimerCount
<1>8. WaitOrder'
  <2>1. Ticks' = Ticks /\ timer_wait_count = 0 /\ timer_wait_pending # 0
        /\ timer_wait_target = Ticks
    BY <1>1, <1>2 DEF WaitOrder, Ticks
  <2>2. \A j \in Idx' : dev'[j].on /\ dev'[j].handler = WaitHandler => j = sel'
    BY <1>1, <1>2, <1>6 DEF WaitOrder
  <2> QED BY <1>2, <2>1, <2>2 DEF WaitOrder, T!flags
<1> QED BY <1>6, <1>7, <1>8 DEF TimersInv

LEMMA WaitDisableKeeps == TimersInv /\ WaitDisable => TimersInv'
<1> SUFFICES ASSUME TimersInv, WaitDisable PROVE TimersInv'
  OBVIOUS
<1>1. TimersType /\ GrantsOrder /\ WaitOrder
  BY DEF TimersInv
<1>2. /\ wpc = "disable" /\ wpc' = "idle" /\ sel' = 0
      /\ UNCHANGED <<machine, pc, timer_def_cnt, grants, fired, want, T!flags, elapsed>>
  BY DEF WaitDisable, T!Disable, T!Goto
<1> DEFINE d == [dev[sel] EXCEPT !.on = FALSE]
<1>3. InUse(sel, FALSE) /\ dev' = [dev EXCEPT ![sel] = d]
  BY DEF WaitDisable
<1>4. sel \in Idx /\ dev[sel] \in Dev
  <2>1. sel \in Idx
    BY <1>1, <1>2 DEF TimersType
  <2> QED BY <1>1, <2>1, DevAt
<1>5. d \in Dev /\ d.handler = dev[sel].handler /\ ~d.on
  BY <1>4 DEF Dev
<1>6. ~(d.handler > 0)
  BY <1>1, <1>4, <1>5 DEF GrantsOrder, Idx
<1> HIDE DEF d
<1>7. /\ timer_defs' \in Seq(TimerDef) /\ Len(timer_defs') = Len(timer_defs)
      /\ dev' \in Seq(Dev) /\ Len(dev') = Len(timer_defs)
      /\ \A j \in Idx : j # sel => dev'[j] = dev[j]
      /\ dev'[sel] = d
      /\ Idx' = Idx /\ OneApic' /\ RegisteredSoFar' /\ GrantsOrder'
  BY <1>2, <1>3, <1>5, <1>6, OwnTimer
<1>8. TimersType'
  BY <1>1, <1>2, <1>7 DEF TimersType, Dev, T!flags, DefCount, TimerCount
<1>9. WaitOrder'
  <2>1. \A j \in Idx' : ~(dev'[j].on /\ dev'[j].handler = WaitHandler)
    BY <1>1, <1>5, <1>7 DEF WaitOrder
  <2> QED BY <1>2, <2>1 DEF WaitOrder
<1> QED BY <1>7, <1>8, <1>9 DEF TimersInv

-----------------------------------------------------------------------------
(* The interrupts.                                                         *)

LEMMA BumpOrder ==
  /\ T!MaxElapsed \in Int
  /\ \A x, y \in Nat : x <= y => T!Bump(x) <= T!Bump(y)
  /\ \A x \in Nat : T!Bump(x) \in Nat /\ x <= T!Bump(x)
<1> DEFINE longest == CHOOSE m \in Waits : \A n \in Waits : n <= m
<1>1. longest \in Waits
  BY WaitsAssumption
<1>2. T!MaxElapsed = 1 + longest
  BY DEF T!MaxElapsed
<1> HIDE DEF longest
<1>3. T!MaxElapsed \in Int
  BY <1>1, <1>2, WaitsAssumption
<1> QED BY <1>3 DEF T!Bump

(* A tick changes of the devices only that a one-shot timer goes off.      *)
LEMMA TickDevice ==
  ASSUME TimersInv, NEW i \in Idx, Tick(i)
  PROVE  /\ dev' \in Seq(Dev) /\ Len(dev') = Len(timer_defs)
         /\ \A j \in Idx : /\ dev'[j].handler = dev[j].handler
                           /\ dev'[j].oneshot = dev[j].oneshot
                           /\ dev'[j].on => dev[j].on
         /\ timer_defs[i].kind = "apic" /\ dev[i].oneshot => ~dev'[i].on
<1>1. TimersType
  BY DEF TimersInv
<1>2. dev' = [dev EXCEPT ![i] = AfterTick(i)]
  BY DEF Tick
<1>3. dev[i] \in Dev
  BY <1>1, DevAt
<1>4. /\ AfterTick(i) \in Dev /\ AfterTick(i).handler = dev[i].handler
      /\ AfterTick(i).oneshot = dev[i].oneshot
      /\ AfterTick(i).on => dev[i].on
      /\ timer_defs[i].kind = "apic" /\ dev[i].oneshot => ~AfterTick(i).on
  BY <1>3 DEF AfterTick, Dev
<1>5. /\ dev' \in Seq(Dev) /\ Len(dev') = Len(timer_defs)
      /\ \A j \in Idx : j # i => dev'[j] = dev[j]
      /\ dev'[i] = AfterTick(i)
  BY <1>1, <1>2, <1>4, DevSets
<1> QED BY <1>4, <1>5

LEMMA TickCounts ==
  ASSUME TimersType, NEW i, Tick(i)
  PROVE  /\ fired' \in Seq(Nat) /\ Len(fired') = Len(grants)
         /\ \A r \in 1 .. Len(grants) :
              /\ fired'[r] \in {fired[r], fired[r] + 1}
              /\ ~Calls(r, i) => fired'[r] = fired[r]
<1>1. fired \in Seq(Nat) /\ Len(fired) = Len(grants) /\ DOMAIN fired = 1 .. Len(grants)
      /\ Len(grants) \in Nat
  BY DEF TimersType
<1>2. fired' = [r \in 1 .. Len(grants) |->
                 IF Calls(r, i) /\ fired[r] < 2 THEN fired[r] + 1 ELSE fired[r]]
  BY <1>1 DEF Tick
<1>3. \A r \in 1 .. Len(grants) : fired[r] \in Nat
  BY <1>1
<1>4. \A r \in 1 .. Len(grants) :
        /\ fired'[r] \in {fired[r], fired[r] + 1} /\ fired'[r] \in Nat
        /\ ~Calls(r, i) => fired'[r] = fired[r]
  BY <1>2, <1>3
<1>5. fired' \in [1 .. Len(grants) -> Nat]
  BY <1>2, <1>4
<1>6. fired' \in Seq(Nat) /\ Len(fired') = Len(grants)
  BY <1>1, <1>5, SeqDef, LenProperties
<1> QED BY <1>4, <1>6

LEMMA TickKeeps ==
  ASSUME TimersInv, NEW i \in Idx, Tick(i)
  PROVE  TimersInv'
<1>1. TimersType /\ GrantsOrder /\ WaitOrder /\ OneApic
  BY DEF TimersInv
<1>2. /\ pc = "ready"
      /\ UNCHANGED <<machine, pc, timer_defs, timer_def_cnt, grants, sel>>
      /\ IF Calls(WaitHandler, i) THEN T!Tick ELSE T!OtherInterrupt
  BY DEF Tick
<1>3. /\ dev' \in Seq(Dev) /\ Len(dev') = Len(timer_defs)
      /\ \A j \in Idx : /\ dev'[j].handler = dev[j].handler
                        /\ dev'[j].oneshot = dev[j].oneshot
                        /\ dev'[j].on => dev[j].on
      /\ timer_defs[i].kind = "apic" /\ dev[i].oneshot => ~dev'[i].on
  BY TickDevice
<1>4. /\ fired' \in Seq(Nat) /\ Len(fired') = Len(grants)
      /\ \A r \in 1 .. Len(grants) :
           /\ fired'[r] \in {fired[r], fired[r] + 1}
           /\ ~Calls(r, i) => fired'[r] = fired[r]
  BY <1>1, TickCounts
<1>5. Idx' = Idx /\ OneApic' /\ RegisteredSoFar'
  BY <1>2, SameRegistry
<1>6. wpc' = T!Woken /\ want' = want /\ timer_wait_target' = timer_wait_target
  BY <1>2 DEF T!Tick, T!OtherInterrupt, T!flags
<1>7. ASSUME Calls(WaitHandler, i)
      PROVE  TimersType' /\ WaitOrder'
  <2>1. PICK j \in Idx : dev[j].on /\ dev[j].handler = WaitHandler
    BY <1>7 DEF Calls, Called
  <2>2. j = sel /\ wpc \in {"check", "halt", "halted", "disable"}
    BY <1>1, <2>1 DEF WaitOrder
  <2>3. armed
    BY <2>1, <2>2 DEF armed, Idx
  <2>4. /\ timer_wait_count' = T!Bump(timer_wait_count)
        /\ timer_wait_pending' = IF timer_wait_count' >= timer_wait_target
                                   THEN 0 ELSE timer_wait_pending
        /\ elapsed' = T!Bump(elapsed)
    BY <1>2, <1>7, <2>3 DEF T!Tick
  <2>5. /\ {timer_wait_pending, timer_wait_count, timer_wait_target, elapsed} \subseteq Nat
        /\ timer_wait_count <= elapsed /\ timer_wait_target = Ticks /\ Ticks \in Nat
        /\ timer_wait_pending # 0 \/ elapsed >= Ticks
        /\ wpc = "disable" => elapsed >= Ticks
    BY <1>1, <2>2 DEF TimersType, WaitOrder, Ticks
  <2>6. /\ timer_wait_count' \in Nat /\ elapsed' \in Nat /\ timer_wait_pending' \in Nat
        /\ timer_wait_count' <= elapsed' /\ elapsed <= elapsed'
    BY <2>4, <2>5, BumpOrder
  <2>7. timer_wait_pending' # 0 \/ elapsed' >= Ticks
    BY <2>4, <2>5, <2>6
  <2>8. wpc' \in {"check", "halt", "halted", "disable"}
        /\ (wpc' = "disable" => wpc = "disable")
    BY <1>6, <2>2 DEF T!Woken
  <2>9. wpc' = "disable" => elapsed' >= Ticks
    BY <2>5, <2>6, <2>8
  <2>10. TimersType'
    BY <1>1, <1>2, <1>3, <1>4, <1>5, <1>6, <2>2, <2>5, <2>6, <2>8
       DEF TimersType, Dev, DefCount, TimerCount
  <2>11. \A k \in Idx' : dev'[k].on /\ dev'[k].handler = WaitHandler => k = sel'
    BY <1>1, <1>2, <1>3, <1>5 DEF WaitOrder
  <2>12. Ticks' = Ticks
    BY <1>6 DEF Ticks
  <2>13. WaitOrder'
    BY <1>6, <2>5, <2>6, <2>7, <2>8, <2>9, <2>11, <2>12 DEF WaitOrder
  <2> QED BY <2>10, <2>13
<1>8. ASSUME ~Calls(WaitHandler, i)
      PROVE  TimersType' /\ WaitOrder'
  <2>1. UNCHANGED <<want, T!flags, elapsed>>
    BY <1>2, <1>8 DEF T!OtherInterrupt
  <2>2. wpc' = wpc \/ (wpc = "halted" /\ wpc' = "check")
    BY <1>6 DEF T!Woken
  <2>3. TimersType'
    BY <1>1, <1>2, <1>3, <1>4, <1>5, <2>1, <2>2
       DEF TimersType, Dev, T!flags, DefCount, TimerCount
  <2>4. \A k \in Idx' : dev'[k].on /\ dev'[k].handler = WaitHandler =>
          dev[k].on /\ dev[k].handler = WaitHandler
    BY <1>3, <1>5
  <2>5. Ticks' = Ticks
    BY <2>1 DEF Ticks
  <2>6. WaitOrder'
    BY <1>1, <1>2, <1>5, <2>1, <2>2, <2>4, <2>5 DEF WaitOrder, T!flags
  <2> QED BY <2>3, <2>6
<1>9. GrantsOrder'
  <2>1. ASSUME NEW r \in 1 .. Len(grants'), grants'[r].timer # 0
        PROVE  /\ grants'[r].timer \in Idx' \ {sel'}
               /\ timer_defs'[grants'[r].timer].in_use
               /\ dev'[grants'[r].timer].handler = r
    BY <1>1, <1>2, <1>3, <1>5, <2>1 DEF GrantsOrder
  <2>2. ASSUME NEW j \in Idx', dev'[j].handler > 0
        PROVE  dev'[j].handler \in 1 .. Len(grants') /\ grants'[dev'[j].handler].timer = j
    BY <1>1, <1>2, <1>3, <1>5, <2>2 DEF GrantsOrder
  <2>3. ASSUME NEW r \in 1 .. Len(grants'), OnApic(grants[r].timer)',
               "oneshot" \in grants'[r].features
        PROVE  /\ dev'[grants'[r].timer].oneshot
               /\ fired'[r] <= IF dev'[grants'[r].timer].on THEN 0 ELSE 1
    <3> DEFINE t == grants[r].timer
    <3>1. /\ r \in 1 .. Len(grants) /\ "oneshot" \in grants[r].features
          /\ OnApic(t) /\ t # 0 /\ timer_defs[t].kind = "apic" /\ grants'[r].timer = t
      BY <1>2, <2>3 DEF OnApic
    <3>2. /\ t \in Idx /\ dev[t].handler = r /\ dev[t].oneshot
          /\ fired[r] <= IF dev[t].on THEN 0 ELSE 1
      BY <1>1, <3>1 DEF GrantsOrder
    <3>3. r > 0 /\ fired[r] \in Nat
      <4>1. fired \in Seq(Nat) /\ Len(fired) = Len(grants)
        BY <1>1 DEF TimersType
      <4>2. r \in 1 .. Len(fired)
        BY <3>1, <4>1
      <4> HIDE DEF t
      <4> QED BY <4>1, <4>2
    <3> HIDE DEF t
    <3>4. CASE Calls(r, i)
      <4>1. PICK j \in Idx : /\ dev[j].on /\ dev[j].handler = r
                             /\ timer_defs[j].kind = timer_defs[i].kind
        BY <3>4 DEF Calls, Called
      <4>2. grants[r].timer = j
        BY <1>1, <3>3, <4>1 DEF GrantsOrder
      <4>3. j = t
        BY <4>2 DEF t
      <4>4. t = i
        BY <1>1, <3>1, <3>2, <4>1, <4>3 DEF OneApic
      <4>5. ~dev'[t].on /\ fired[r] = 0
        BY <1>3, <3>1, <3>2, <3>3, <4>1, <4>3, <4>4
      <4>6. fired'[r] \in {0, 1}
        BY <1>4, <3>1, <4>5
      <4> QED BY <1>3, <3>1, <3>2, <4>5, <4>6
    <3>5. CASE ~Calls(r, i)
      <4>1. fired'[r] = fired[r]
        BY <1>4, <3>1, <3>5
      <4>2. dev'[t].oneshot /\ (dev'[t].on => dev[t].on)
        BY <1>3, <3>2
      <4> QED BY <3>1, <3>2, <3>3, <4>1, <4>2
    <3> QED BY <3>4, <3>5
  <2> QED BY <2>1, <2>2, <2>3 DEF GrantsOrder
<1> QED BY <1>5, <1>7, <1>8, <1>9 DEF TimersInv

-----------------------------------------------------------------------------
(* Every step keeps TimersInv.                                             *)
LEMMA TimersStep == TimersInv /\ [Next]_vars => TimersInv'
<1> SUFFICES ASSUME TimersInv, [Next]_vars PROVE TimersInv'
  OBVIOUS
<1>1. ASSUME UNCHANGED vars PROVE TimersInv'
  <2>1. TimersType' /\ GrantsOrder' /\ WaitOrder'
    BY <1>1, UsersUntouched DEF vars, wait, T!flags
  <2>2. OneApic'
    BY <1>1 DEF TimersInv, OneApic, vars, registry, Idx
  <2>3. RegisteredSoFar'
    BY <1>1 DEF TimersInv, RegisteredSoFar, vars, registry, wait
  <2> QED BY <2>1, <2>2, <2>3 DEF TimersInv
<1>2. CASE Initialise
  BY <1>2, RegisterTscKeeps, RegisterHpetKeeps, RegisterHpetSubKeeps, HpetDoneKeeps,
     RegisterApicKeeps, RegisterRtcKeeps DEF Initialise
<1>3. CASE \E features \in Requests : Request(features)
  BY <1>3, RequestKeeps
<1>4. CASE \E w \in Waits : WaitSelect(w)
  BY <1>4, WaitSelectKeeps
<1>5. CASE \E i \in Idx : Tick(i)
  BY <1>5, TickKeeps
<1> QED
  BY <1>1, <1>2, <1>3, <1>4, <1>5, WaitStepKeeps, WaitEnableKeeps, WaitDisableKeeps,
     WaitPanicKeeps, MpInitKeeps, RtcInterruptKeeps DEF Next, TaskStep

(* The inductive invariant of the timers.                                  *)
THEOREM TimersInvariant == Spec => []TimersInv
BY InitTimers, TimersStep, PTL DEF Spec

(* timer_register never writes behind the table that timer_init allocated, *)
(* on any machine and with any number of further cores.                    *)
THEOREM RegistryLargeEnough == Spec => []RegistryFits
<1>1. TimersInv => RegistryFits
  <2> SUFFICES ASSUME TimersInv PROVE RegistryFits
    OBVIOUS
  <2>1. Len(machine.subs) \in Nat \ {0} /\ machine.tsc \in BOOLEAN
    BY MachinesAssumption DEF TimersInv, TimersType
  <2>2. timer_def_cnt = DefCount(machine) /\ Len(timer_defs) \in Nat
    BY DEF TimersInv, TimersType
  <2> DEFINE n == Len(timer_defs)
             m == Len(machine.subs)
  <2>3. CASE machine.tsc
    <3>0. pc \in {"tsc", "apic", "rtc", "ready", "dead"}
      BY <2>3 DEF TimersInv, RegisteredSoFar
    <3>1. n <= 3
      <4>1. CASE pc = "tsc"
        BY <4>1, <2>2, <2>3 DEF TimersInv, RegisteredSoFar
      <4>2. CASE pc = "apic"
        <5>1. n = IF machine.tsc THEN 1 ELSE m + 1
          BY <4>2 DEF TimersInv, RegisteredSoFar
        <5> QED BY <2>3, <5>1
      <4>3. CASE pc = "rtc"
        <5>1. n = IF machine.tsc THEN 2 ELSE m + 2
          BY <4>3 DEF TimersInv, RegisteredSoFar
        <5> QED BY <2>3, <5>1
      <4>4. CASE pc \in {"ready", "dead"}
        BY <4>4, <2>2, <2>3 DEF TimersInv, RegisteredSoFar
      <4> QED BY <3>0, <4>1, <4>2, <4>3, <4>4
    <3>2. timer_def_cnt = m - 1 + 2 + 2 + 2
      BY <2>2, <2>3 DEF DefCount, TimerCount
    <3> QED BY <2>1, <2>2, <3>1, <3>2 DEF RegistryFits
  <2>4. CASE ~machine.tsc
    <3>1. n <= m + 3
      BY <2>1, <2>2, <2>4 DEF TimersInv, RegisteredSoFar
    <3>2. timer_def_cnt = m - 1 + 2 + 0 + 2
      BY <2>2, <2>4 DEF DefCount, TimerCount
    <3> QED BY <2>1, <2>2, <3>1, <3>2 DEF RegistryFits
  <2> QED BY <2>3, <2>4
<1> QED BY <1>1, TimersInvariant, PTL

(* The handler of a one-shot request on the local APIC timer, which is     *)
(* periodic in hardware, is called once at most.                           *)
THEOREM OneShotsOnce == Spec => []OneShotOnce
<1>1. TimersInv => OneShotOnce
  <2> SUFFICES ASSUME TimersInv, NEW r \in DOMAIN grants,
                      OnApic(grants[r].timer), "oneshot" \in grants[r].features
               PROVE  fired[r] <= 1
    BY DEF OneShotOnce
  <2>1. r \in 1 .. Len(grants) /\ fired[r] \in Nat
    BY DEF TimersInv, TimersType
  <2>2. fired[r] <= IF dev[grants[r].timer].on THEN 0 ELSE 1
    BY <2>1 DEF TimersInv, GrantsOrder
  <2> QED BY <2>1, <2>2
<1> QED BY <1>1, TimersInvariant, PTL

(* timer_wait never returns before as many ticks as it was asked to wait.  *)
THEOREM WaitsNotEarly == Spec => []WaitNotEarly
<1>1. TimersInv => WaitNotEarly
  BY DEF TimersInv, WaitOrder, WaitNotEarly, T!NotEarly, Ticks
<1> QED BY <1>1, TimersInvariant, PTL

(* No later request and no wait takes a timer that timer_request has given.*)
THEOREM RequestsStayKept == Spec => RequestsKept
<1>1. TimersInv /\ TimersInv' /\ [Next]_vars =>
        [\A r \in DOMAIN grants : grants[r].timer # 0 =>
           /\ timer_defs'[grants[r].timer].in_use
           /\ dev'[grants[r].timer].handler = r]_vars
  <2> SUFFICES ASSUME TimersInv, TimersInv', [Next]_vars,
                      NEW r \in DOMAIN grants, grants[r].timer # 0
               PROVE  /\ timer_defs'[grants[r].timer].in_use
                      /\ dev'[grants[r].timer].handler = r
    OBVIOUS
  <2>1. /\ grants \in Seq([timer : Nat, features : Requests])
        /\ r \in 1 .. Len(grants)
    BY DEF TimersInv, TimersType
  <2>2. r \in 1 .. Len(grants') /\ grants'[r] = grants[r]
    <3>1. CASE \E features \in Requests : Request(features)
      <4>1. PICK features \in Requests : Request(features)
        BY <3>1
      <4>2. /\ ForRequest(features) \in Nat
            /\ grants' = Append(grants, [timer |-> ForRequest(features), features |-> features])
        BY <4>1, RequestFinds DEF Request, TimersInv
      <4> QED BY <2>1, <4>2, AppendProperties
    <3>2. CASE UNCHANGED grants
      BY <2>1, <3>2
    <3> QED
      BY <3>1, <3>2 DEF Next, TaskStep, Initialise, RegisterTsc, RegisterHpet, RegisterHpetSub,
         HpetDone, RegisterApic, RegisterRtc, WaitStep, WaitEnable, WaitDisable, WaitSelect,
         WaitPanic, MpInit, Tick, RtcInterrupt, users, vars
  <2> QED BY <2>2 DEF TimersInv, GrantsOrder
<1> QED BY <1>1, TimersInvariant, PTL DEF Spec, RequestsKept

-----------------------------------------------------------------------------
(* The real time clock.                                                    *)

(* Decoding a register gives the number that was encoded, in binary as in  *)
(* BCD, and the hours of a 12-hour register that is neither 12 AM nor PM.  *)
LEMMA DecodeEncode ==
  ASSUME NEW v \in Nat, v < 100
  PROVE  R!Decode(R!Encode(v)) = v
<1>1. CASE format.binary
  BY <1>1 DEF R!Decode, R!Encode
<1>2. CASE ~format.binary
  <2> DEFINE w == (v \div 10) * 16 + (v % 10)
  <2>1. /\ {v \div 10, v % 10} \subseteq Nat /\ v \div 10 < 10 /\ v % 10 < 10
        /\ v = (v \div 10) * 10 + (v % 10)
    OBVIOUS
  <2>2. w \div 16 = v \div 10 /\ w % 16 = v % 10
    <3> DEFINE a == v \div 10
               b == v % 10
    <3> HIDE DEF a, b
    <3>1. a \in Nat /\ b \in Nat /\ a < 10 /\ b < 10
      BY <2>1 DEF a, b
    <3>2. (a * 16 + b) \div 16 = a /\ (a * 16 + b) % 16 = b
      BY <3>1
    <3> QED BY <3>2 DEF a, b
  <2>3. R!Encode(v) = w /\ R!Decode(w) = (w \div 16) * 10 + (w % 16)
    BY <1>2 DEF R!Decode, R!Encode
  <2> QED BY <2>1, <2>2, <2>3
<1> QED BY <1>1, <1>2

LEMMA EncodeSmall ==
  ASSUME NEW v \in Nat, v < 12
  PROVE  R!Encode(v) \in Nat /\ R!Encode(v) < 18
BY DEF R!Encode

LEMMA AfternoonRead ==
  ASSUME ~format.h24, NEW v \in Nat
  PROVE  R!ReadHours(v + 128) = R!Decode(v) + 12
<1>1. v + 128 >= 128 /\ (v + 128) - 128 = v
  OBVIOUS
<1> QED BY <1>1 DEF R!ReadHours

LEMMA HoursRead ==
  ASSUME device.hours \in Nat, device.hours < 24, R!ReadsHours
  PROVE  R!ReadHours(R!Register("hours")) = device.hours
<1> DEFINE h == device.hours
<1>1. CASE format.h24
  <2>1. R!Register("hours") = R!Encode(h)
    BY <1>1 DEF R!Register
  <2>2. R!ReadHours(R!Encode(h)) = R!Decode(R!Encode(h))
    BY <1>1 DEF R!ReadHours
  <2> QED BY <2>1, <2>2, DecodeEncode
<1>2. CASE ~format.h24
  <2>1. h % 12 \in Nat /\ h % 12 # 0 /\ h % 12 < 12
    BY <1>2 DEF R!ReadsHours
  <2>2. R!Encode(h % 12) \in Nat /\ R!Encode(h % 12) < 18 /\ R!Decode(R!Encode(h % 12)) = h % 12
    BY <2>1, EncodeSmall, DecodeEncode
  <2>3. R!Register("hours") = R!Encode(h % 12) + (IF h >= 12 THEN 128 ELSE 0)
    BY <1>2, <2>1 DEF R!Register
  <2>4. CASE h >= 12
    <3>1. R!Register("hours") = R!Encode(h % 12) + 128
      BY <2>3, <2>4
    <3>2. R!ReadHours(R!Encode(h % 12) + 128) = R!Decode(R!Encode(h % 12)) + 12
      BY <1>2, <2>2, AfternoonRead
    <3>3. (h % 12) + 12 = h
      BY <2>4
    <3> QED BY <2>2, <3>1, <3>2, <3>3
  <2>5. CASE h < 12
    <3>1. R!Register("hours") = R!Encode(h % 12) /\ h % 12 = h
      BY <2>2, <2>3, <2>5
    <3>2. R!ReadHours(R!Encode(h % 12)) = R!Decode(R!Encode(h % 12))
      BY <1>2, <2>2 DEF R!ReadHours
    <3> QED BY <2>2, <3>1, <3>2
  <2> QED BY <2>4, <2>5
<1> QED BY <1>1, <1>2

LEMMA TimeRead ==
  ASSUME device \in Starts
  PROVE  /\ R!ReadsHours => R!GetTime.hours = device.hours
         /\ R!GetTime.minutes = device.minutes /\ R!GetTime.seconds = device.seconds
         /\ R!GetTime.weekday = device.weekday
         /\ R!GetTime.dayofmonth = device.dayofmonth
         /\ R!GetTime.month = device.month /\ R!GetTime.year = device.year
<1>1. /\ {device.seconds, device.minutes, device.hours, device.weekday} \subseteq Nat
      /\ device.seconds < 100 /\ device.minutes < 100 /\ device.hours < 24
      /\ device.weekday < 100
      /\ {device.dayofmonth, device.month, device.year} \subseteq Nat
      /\ device.dayofmonth < 100 /\ device.month < 100 /\ device.year < 100
  BY RtcAssumption
<1>2. \A f \in {"seconds", "minutes", "weekday", "dayofmonth", "month", "year"} :
        R!GetTime[f] = R!Decode(R!Encode(device[f]))
  BY DEF R!GetTime, R!Fields, R!Register
<1>3. R!GetTime.hours = R!ReadHours(R!Register("hours"))
  BY DEF R!GetTime, R!Fields
<1> QED BY <1>1, <1>2, <1>3, DecodeEncode, HoursRead

(* The carries of the date from c to n, the day being over or not.         *)
AdvancesDate(c, n, day) ==
  LET d == c.dayofmonth + day
      o == c.month + R!Carry(d, 31)
      y == c.year + R!Carry(o, 12)
  IN  n.dayofmonth = R!Rest(d, 31) /\ n.month = R!Rest(o, 12) /\ n.year = R!Rest(y, 100)

(* One more second: the carries from the seconds to the weekday.           *)
LEMMA SecondsInDay ==
  ASSUME NEW h \in Nat, NEW m \in Nat, NEW s \in Nat, h < 24, m < 60, s < 60
  PROVE  h * 3600 + m * 60 + s \in Nat /\ h * 3600 + m * 60 + s < 86400
OBVIOUS

LEMMA SameSecond ==
  ASSUME NEW t \in Nat, t < 86400
  PROVE  t % 86400 = t /\ t \div 86400 = 0
OBVIOUS

LEMMA OneSecond ==
  ASSUME NEW c, R!InRange(c)
  PROVE  LET n == R!Advance(c, 1)
             t == R!SecondOfDay(c) + 1
         IN  /\ R!InRange(n)
             /\ R!SecondOfDay(n) = t % 86400
             /\ n.weekday = IF t = 86400 THEN (c.weekday + 1) % 7 ELSE c.weekday
             /\ AdvancesDate(c, n, IF t = 86400 THEN 1 ELSE 0)
<1>1. PICK s \in Nat, m \in Nat, h \in Nat, w \in Nat :
        s < 60 /\ m < 60 /\ h < 24 /\ s = c.seconds /\ m = c.minutes /\ h = c.hours /\ w = c.weekday
  BY DEF R!InRange
<1> DEFINE n  == R!Advance(c, 1)
           s1 == s + 1
           m1 == m + R!Carry(s1, 60)
           h1 == h + R!Carry(m1, 60)
           t  == h * 3600 + m * 60 + s + 1
<1>2. /\ n.seconds = R!Rest(s1, 60) /\ n.minutes = R!Rest(m1, 60) /\ n.hours = R!Rest(h1, 24)
      /\ n.weekday = IF h1 >= 24 THEN (w + 1) % 7 ELSE w
  BY <1>1 DEF R!Advance
<1>3. R!SecondOfDay(c) + 1 = t
  BY <1>1 DEF R!SecondOfDay
<1>4. /\ {R!Rest(s1, 60), R!Rest(m1, 60), R!Rest(h1, 24)} \subseteq Nat
      /\ R!Rest(s1, 60) < 60 /\ R!Rest(m1, 60) < 60 /\ R!Rest(h1, 24) < 24
      /\ h1 >= 24 <=> t = 86400
      /\ t % 86400 = R!Rest(h1, 24) * 3600 + R!Rest(m1, 60) * 60 + R!Rest(s1, 60)
  <2>1. CASE s = 59 /\ m = 59 /\ h = 23
    <3>1. t = 86400 /\ t % 86400 = 0
      BY <1>1, <2>1
    <3> QED BY <1>1, <2>1, <3>1 DEF R!Carry, R!Rest
  <2>2. CASE s = 59 /\ m = 59 /\ h < 23
    <3>1. t = (h + 1) * 3600 /\ t \in Nat /\ t < 86400 /\ t % 86400 = t
      BY <1>1, <2>2
    <3> QED BY <1>1, <2>2, <3>1 DEF R!Carry, R!Rest
  <2>3. CASE s = 59 /\ m < 59
    <3>1. t = h * 3600 + (m + 1) * 60 /\ t % 86400 = t
      <4>1. t = h * 3600 + (m + 1) * 60 + 0 /\ m + 1 \in Nat /\ m + 1 < 60
        BY <1>1, <2>3
      <4>2. t \in Nat /\ t < 86400
        <5> HIDE DEF t
        <5> QED BY <1>1, <4>1, SecondsInDay
      <4>3. t % 86400 = t
        <5> HIDE DEF t
        <5> QED BY <4>2, SameSecond
      <4> QED BY <1>1, <4>1, <4>3
    <3> QED BY <1>1, <2>3, <3>1 DEF R!Carry, R!Rest
  <2>4. CASE s < 59
    <3>1. t % 86400 = t
      <4>1. s + 1 \in Nat /\ s + 1 < 60
        BY <2>4
      <4>2. t \in Nat /\ t < 86400
        <5>1. t = h * 3600 + m * 60 + (s + 1)
          OBVIOUS
        <5> HIDE DEF t
        <5> QED BY <1>1, <4>1, <5>1, SecondsInDay
      <4> HIDE DEF t
      <4> QED BY <4>2, SameSecond
    <3> QED BY <1>1, <2>4, <3>1 DEF R!Carry, R!Rest
  <2> QED BY <1>1, <2>1, <2>2, <2>3, <2>4
<1>5. (w + 1) % 7 \in Nat
  OBVIOUS
<1> HIDE DEF n, s1, m1, h1, t
<1>6. n.weekday = IF t = 86400 THEN (w + 1) % 7 ELSE w
  BY <1>2, <1>4
<1>7. R!SecondOfDay(n) = t % 86400
  BY <1>2, <1>4 DEF R!SecondOfDay
<1>8. R!InRange(n)
  BY <1>2, <1>4, <1>5, <1>6 DEF R!InRange
<1>9. AdvancesDate(c, n, IF t = 86400 THEN 1 ELSE 0)
  <2>1. R!Carry(h1, 24) = IF t = 86400 THEN 1 ELSE 0
    BY <1>4 DEF R!Carry
  <2>2. AdvancesDate(c, n, R!Carry(h1, 24))
    BY <1>1 DEF AdvancesDate, R!Advance, n, h1, m1, s1
  <2> QED BY <2>1, <2>2
<1> QED BY <1>1, <1>3, <1>6, <1>7, <1>8, <1>9 DEF n

LEMMA NoSecond ==
  ASSUME NEW c, R!InRange(c)
  PROVE  LET n == R!Advance(c, 0)
         IN  /\ n.seconds = c.seconds /\ n.minutes = c.minutes /\ n.hours = c.hours
             /\ n.weekday = c.weekday
             /\ AdvancesDate(c, n, 0)
<1>1. PICK s \in Nat, m \in Nat, h \in Nat :
        s < 60 /\ m < 60 /\ h < 24 /\ s = c.seconds /\ m = c.minutes /\ h = c.hours
  BY DEF R!InRange
<1>2. /\ s + 0 = s /\ m + 0 = m /\ h + 0 = h /\ ~(h >= 24)
      /\ R!Carry(s, 60) = 0 /\ R!Rest(s, 60) = s /\ R!Carry(m, 60) = 0 /\ R!Rest(m, 60) = m
      /\ R!Carry(h, 24) = 0 /\ R!Rest(h, 24) = h
  BY <1>1 DEF R!Carry, R!Rest
<1>3. AdvancesDate(c, R!Advance(c, 0), 0)
  BY <1>1, <1>2 DEF R!Advance, AdvancesDate
<1> QED BY <1>1, <1>2, <1>3 DEF R!Advance

(* No month ends before the 31st.                                          *)
LEMMA DateAdvanced ==
  ASSUME NEW c, NEW n, NEW day \in {0, 1}, AdvancesDate(c, n, day),
         {c.dayofmonth, c.month, c.year} \subseteq Nat,
         c.dayofmonth + day < 31, c.month < 12, c.year < 100
  PROVE  n.dayofmonth = c.dayofmonth + day /\ n.month = c.month /\ n.year = c.year
<1>1. PICK d \in Nat, o \in Nat, y \in Nat :
        d = c.dayofmonth + day /\ o = c.month /\ y = c.year /\ d < 31 /\ o < 12 /\ y < 100
  OBVIOUS
<1>2. /\ R!Rest(d, 31) = d /\ R!Carry(d, 31) = 0 /\ o + 0 = o
      /\ R!Rest(o, 12) = o /\ R!Carry(o, 12) = 0 /\ y + 0 = y /\ R!Rest(y, 100) = y
  BY <1>1 DEF R!Carry, R!Rest
<1> QED BY <1>1, <1>2 DEF AdvancesDate

LEMMA DateKept ==
  ASSUME NEW k \in Nat, NEW day \in {0, 1}, device \in Starts, device' = device,
         R!ShowsDate(k), AdvancesDate(clock, clock', day)
  PROVE  R!ShowsDate(k + day)'
<1> SUFFICES ASSUME device.month < 12, device.dayofmonth + (k + day) < 31
             PROVE  /\ clock'.dayofmonth = device.dayofmonth + (k + day)
                    /\ clock'.month = device.month /\ clock'.year = device.year
  BY DEF R!ShowsDate
<1>1. {device.dayofmonth, device.month, device.year} \subseteq Nat /\ device.year < 100
  BY RtcAssumption
<1>2. /\ clock.dayofmonth = device.dayofmonth + k
      /\ clock.month = device.month /\ clock.year = device.year
  BY <1>1 DEF R!ShowsDate
<1>3. /\ {clock.dayofmonth, clock.month, clock.year} \subseteq Nat
      /\ clock.dayofmonth + day < 31
  BY <1>1, <1>2
<1>4. /\ clock'.dayofmonth = clock.dayofmonth + day
      /\ clock'.month = clock.month /\ clock'.year = clock.year
  BY <1>1, <1>2, <1>3, DateAdvanced
<1> QED BY <1>1, <1>2, <1>4

(* Days and seconds of a day, over one more second.                        *)
LEMMA NextSecond ==
  ASSUME NEW now \in Nat
  PROVE  LET t == (now % 86400) + 1
         IN  /\ (now + 1) % 86400 = t % 86400
             /\ (now + 1) \div 86400 = (now \div 86400) + (IF t = 86400 THEN 1 ELSE 0)
<1>1. PICK d \in Nat, r \in Nat :
        r < 86400 /\ d = now \div 86400 /\ r = now % 86400 /\ now = d * 86400 + r
  OBVIOUS
<1>2. CASE r = 86399
  <2>1. now + 1 = (d + 1) * 86400 /\ r + 1 = 86400
    BY <1>1, <1>2
  <2>2. (now + 1) % 86400 = 0 /\ (now + 1) \div 86400 = d + 1 /\ (r + 1) % 86400 = 0
    BY <2>1
  <2> QED BY <1>1, <2>1, <2>2
<1>3. CASE r # 86399
  <2>1. now + 1 = d * 86400 + (r + 1) /\ r + 1 < 86400
    BY <1>1, <1>3
  <2>2. (now + 1) % 86400 = r + 1 /\ (now + 1) \div 86400 = d /\ (r + 1) % 86400 = r + 1
    BY <2>1
  <2> QED BY <1>1, <2>1, <2>2
<1> QED BY <1>2, <1>3

LEMMA NextWeekday ==
  ASSUME NEW w \in Nat, NEW v \in Nat, NEW d \in Nat, (w - v - d) % 7 = 0
  PROVE  (((w + 1) % 7) - v - (d + 1)) % 7 = 0
<1>1. PICK q \in Int : w - v - d = 7 * q
  <2>1. w - v - d = 7 * ((w - v - d) \div 7)
    OBVIOUS
  <2> QED BY <2>1
<1>2. PICK p \in Int : (w + 1) % 7 = w + 1 - 7 * p
  <2>1. (w + 1) % 7 = w + 1 - 7 * ((w + 1) \div 7)
    OBVIOUS
  <2> QED BY <2>1
<1>3. ((w + 1) % 7) - v - (d + 1) = 7 * (q - p)
  BY <1>1, <1>2
<1> QED BY <1>3

LEMMA WholeSeconds ==
  ASSUME NEW n \in Nat \ {0}, NEW q \in Nat, NEW r \in Nat, r < n
  PROVE  (q * n + r) \div n = q
<1>1. PICK d \in Int : d = (q * n + r) \div n
  OBVIOUS
<1>2. n * d <= q * n + r /\ q * n + r < n * d + n
  BY <1>1
<1>3. ~(d < q)
  <2> SUFFICES ASSUME d + 1 <= q PROVE FALSE
    OBVIOUS
  <2>1. n * (d + 1) <= n * q
    OBVIOUS
  <2> QED BY <1>2, <2>1
<1>4. ~(d > q)
  <2> SUFFICES ASSUME q + 1 <= d PROVE FALSE
    OBVIOUS
  <2>1. n * (q + 1) <= n * d
    OBVIOUS
  <2> QED BY <1>2, <2>1
<1> QED BY <1>1, <1>3, <1>4

LEMMA InitClock == Init => ClockInv
BY RtcAssumption DEF Init, ClockInv, R!Init, R!RtcInv

LEMMA StartKeeps == ClockInv /\ RegisterRtc => ClockInv'
<1> SUFFICES ASSUME ClockInv, RegisterRtc PROVE ClockInv'
  OBVIOUS
<1>1. R!RtcInv /\ ms_sinceboot = 0 /\ device \in Starts
  BY DEF ClockInv, RegisterRtc, R!RtcInv
<1>2. /\ clock' = R!GetTime /\ pc' = "ready"
      /\ UNCHANGED <<device, format, ms_10000000x, ms_sinceboot, interrupts>>
  BY DEF RegisterRtc, R!Start
<1>3. R!ReadsHours' => R!ReadsHours
  BY <1>2 DEF R!ReadsHours
<1>4. ASSUME R!ReadsHours PROVE R!ShowsSecond(0)'
  <2>1. /\ clock'.hours = device'.hours /\ clock'.minutes = device'.minutes
        /\ clock'.seconds = device'.seconds /\ clock'.weekday = device'.weekday
        /\ clock'.dayofmonth = device'.dayofmonth
        /\ clock'.month = device'.month /\ clock'.year = device'.year
    BY <1>1, <1>2, <1>4, TimeRead
  <2>2. /\ {device'.seconds, device'.minutes, device'.hours, device'.weekday} \subseteq Nat
        /\ device'.seconds < 60 /\ device'.minutes < 60 /\ device'.hours < 24 /\ device'.weekday < 10
    BY <1>1, <1>2, RtcAssumption
  <2>3. PICK now \in Nat :
          now < 86400 /\ now = device'.hours * 3600 + device'.minutes * 60 + device'.seconds
    BY <2>2, SecondsInDay
  <2>4. R!SecondOfDay(device)' = now /\ R!SecondOfDay(clock)' = now /\ R!InRange(clock)'
    BY <2>1, <2>2, <2>3 DEF R!SecondOfDay, R!InRange
  <2>5. /\ now + 0 = now /\ now % 86400 = now /\ now \div 86400 = 0
        /\ (clock'.weekday - device'.weekday - 0) % 7 = 0
    <3>1. PICK w \in Nat : w = device'.weekday
      BY <2>2
    <3>2. (w - w - 0) % 7 = 0
      OBVIOUS
    <3>3. now + 0 = now /\ now % 86400 = now /\ now \div 86400 = 0
      BY <2>3, SameSecond
    <3> QED BY <2>1, <3>1, <3>2, <3>3
  <2>6. R!ShowsDate(0)'
    <3>1. device'.dayofmonth \in Nat
      BY <1>1, <1>2, RtcAssumption
    <3> QED BY <2>1, <3>1 DEF R!ShowsDate
  <2> QED BY <2>4, <2>5, <2>6 DEF R!ShowsSecond
<1>5. R!RtcInv'
  <2>1. running' /\ R!ReadsHours' => R!ShowsSecond(ms_sinceboot)'
    BY <1>1, <1>2, <1>3, <1>4 DEF R!ShowsSecond
  <2> QED BY <1>1, <1>2, <2>1 DEF R!RtcInv
<1> QED BY <1>2, <1>5 DEF ClockInv

LEMMA InterruptKeeps ==
  ASSUME R!RtcInv, NEW periodic \in BOOLEAN, R!Interrupt(periodic)
  PROVE  R!RtcInv'
<1> DEFINE ms == ms_10000000x + (IF periodic THEN 1 ELSE 0)
           up == R!Carry(ms, TicksPerSecond)
<1>1. /\ interrupts' = interrupts + (IF periodic THEN 1 ELSE 0)
      /\ ms_10000000x' = R!Rest(ms, TicksPerSecond)
      /\ ms_sinceboot' = ms_sinceboot + up
      /\ clock' = R!Advance(clock, up)
      /\ UNCHANGED <<device, format, running>> /\ running
  BY DEF R!Interrupt
<1>2. /\ ms_sinceboot \in Nat /\ ms_10000000x \in Nat /\ ms_10000000x < TicksPerSecond
      /\ interrupts = ms_sinceboot * TicksPerSecond + ms_10000000x
      /\ device \in Starts /\ TicksPerSecond \in Nat \ {0}
  BY RtcAssumption DEF R!RtcInv
<1>3. ms \in Nat /\ ms <= TicksPerSecond /\ up \in {0, 1}
  BY <1>2 DEF R!Carry
<1>4. /\ ms_sinceboot' \in Nat /\ ms_10000000x' \in Nat /\ ms_10000000x' < TicksPerSecond
      /\ interrupts' = ms_sinceboot' * TicksPerSecond + ms_10000000x'
  <2>1. interrupts' = ms_sinceboot * TicksPerSecond + ms
    BY <1>1, <1>2
  <2>2. CASE ms = TicksPerSecond
    <3>1. ms_10000000x' = 0 /\ ms_sinceboot' = ms_sinceboot + 1
      BY <1>1, <1>2, <2>2 DEF R!Carry, R!Rest
    <3>2. (ms_sinceboot + 1) * TicksPerSecond = ms_sinceboot * TicksPerSecond + TicksPerSecond
      BY <1>2
    <3> QED BY <1>2, <2>1, <2>2, <3>1, <3>2
  <2>3. CASE ms < TicksPerSecond
    <3>1. ms_10000000x' = ms /\ ms_sinceboot' = ms_sinceboot
      BY <1>1, <1>2, <1>3, <2>3 DEF R!Carry, R!Rest
    <3> QED BY <1>2, <1>3, <2>1, <2>3, <3>1
  <2> QED BY <1>2, <1>3, <2>2, <2>3
<1> HIDE DEF up
<1>5. ASSUME R!ReadsHours PROVE R!ShowsSecond(ms_sinceboot)'
  <2>1. PICK now \in Nat, w \in Nat, v \in Nat :
          /\ now = R!SecondOfDay(device) + ms_sinceboot
          /\ w = clock.weekday /\ v = device.weekday
    <3>1. /\ {device.seconds, device.minutes, device.hours, device.weekday} \subseteq Nat
          /\ device.seconds < 60 /\ device.minutes < 60 /\ device.hours < 24 /\ device.weekday < 10
      BY <1>2, RtcAssumption
    <3>2. R!SecondOfDay(device) \in Nat
      BY <3>1, SecondsInDay DEF R!SecondOfDay
    <3>3. clock.weekday \in Nat
      BY <1>1, <1>5 DEF R!RtcInv, R!ShowsSecond, R!InRange
    <3> QED BY <1>2, <3>1, <3>2, <3>3
  <2>2. /\ R!InRange(clock) /\ R!SecondOfDay(clock) = now % 86400
        /\ (w - v - (now \div 86400)) % 7 = 0
        /\ R!ShowsDate(now \div 86400)
    BY <1>1, <1>5, <2>1 DEF R!RtcInv, R!ShowsSecond
  <2>3. R!SecondOfDay(device)' = R!SecondOfDay(device) /\ device'.weekday = v
    BY <1>1, <2>1 DEF R!SecondOfDay
  <2>4. CASE up = 0
    <3>1. clock' = R!Advance(clock, 0) /\ ms_sinceboot' = ms_sinceboot
      BY <1>1, <1>2, <2>4
    <3>2. /\ clock'.seconds = clock.seconds /\ clock'.minutes = clock.minutes
          /\ clock'.hours = clock.hours /\ clock'.weekday = clock.weekday
          /\ AdvancesDate(clock, clock', 0)
      BY <2>2, <3>1, NoSecond
    <3>3. R!InRange(clock') /\ R!SecondOfDay(clock') = R!SecondOfDay(clock)
      BY <2>2, <3>2 DEF R!InRange, R!SecondOfDay
    <3>4. R!ShowsDate(now \div 86400)'
      <4>1. now \div 86400 \in Nat /\ (now \div 86400) + 0 = now \div 86400
        OBVIOUS
      <4>2. R!ShowsDate((now \div 86400) + 0)'
        BY <1>1, <1>2, <2>2, <3>2, <4>1, DateKept
      <4> QED BY <4>1, <4>2
    <3> QED BY <2>1, <2>2, <2>3, <3>1, <3>2, <3>3, <3>4 DEF R!ShowsSecond
  <2>5. CASE up = 1
    <3> DEFINE t == (now % 86400) + 1
    <3>1. clock' = R!Advance(clock, 1) /\ ms_sinceboot' = ms_sinceboot + 1
      BY <1>1, <1>2, <2>5
    <3>2. /\ R!InRange(clock')
          /\ R!SecondOfDay(clock') = t % 86400
          /\ clock'.weekday = IF t = 86400 THEN (w + 1) % 7 ELSE w
          /\ AdvancesDate(clock, clock', IF t = 86400 THEN 1 ELSE 0)
      <4>1. R!SecondOfDay(clock) + 1 = t
        BY <2>2
      <4>2. /\ R!InRange(R!Advance(clock, 1))
            /\ R!SecondOfDay(R!Advance(clock, 1)) = (R!SecondOfDay(clock) + 1) % 86400
            /\ R!Advance(clock, 1).weekday = IF R!SecondOfDay(clock) + 1 = 86400
                                             THEN (clock.weekday + 1) % 7 ELSE clock.weekday
            /\ AdvancesDate(clock, R!Advance(clock, 1),
                            IF R!SecondOfDay(clock) + 1 = 86400 THEN 1 ELSE 0)
        BY <2>2, OneSecond
      <4> HIDE DEF t
      <4> QED BY <2>1, <3>1, <4>1, <4>2
    <3>3. /\ (now + 1) % 86400 = t % 86400
          /\ (now + 1) \div 86400 = (now \div 86400) + (IF t = 86400 THEN 1 ELSE 0)
      BY NextSecond
    <3>4. R!SecondOfDay(device)' + ms_sinceboot' = now + 1
      <4>1. R!SecondOfDay(device) \in Int
        <5>1. /\ {device.seconds, device.minutes, device.hours, device.weekday} \subseteq Nat
              /\ device.seconds < 60 /\ device.minutes < 60 /\ device.hours < 24 /\ device.weekday < 10
          BY <1>2, RtcAssumption
        <5> QED BY <5>1, SecondsInDay DEF R!SecondOfDay
      <4> QED BY <1>2, <2>1, <2>3, <3>1, <4>1
    <3>5. (clock'.weekday - v - ((now + 1) \div 86400)) % 7 = 0
      <4>1. now \div 86400 \in Nat
        OBVIOUS
      <4>2. CASE t = 86400
        <5>1. /\ clock'.weekday = (w + 1) % 7
              /\ (now + 1) \div 86400 = (now \div 86400) + 1
          BY <3>2, <3>3, <4>2
        <5>2. (((w + 1) % 7) - v - ((now \div 86400) + 1)) % 7 = 0
          BY <2>2, <4>1, NextWeekday
        <5> QED BY <5>1, <5>2
      <4>3. CASE t # 86400
        <5>1. clock'.weekday = w /\ (now + 1) \div 86400 = (now \div 86400) + 0
          BY <3>2, <3>3, <4>3
        <5>2. (now \div 86400) + 0 = now \div 86400
          BY <4>1
        <5> QED BY <2>2, <5>1, <5>2
      <4> QED BY <4>2, <4>3
    <3>6. R!ShowsDate((now + 1) \div 86400)'
      <4> DEFINE day == IF t = 86400 THEN 1 ELSE 0
      <4>1. now \div 86400 \in Nat /\ day \in {0, 1}
        OBVIOUS
      <4>2. AdvancesDate(clock, clock', day) /\ (now + 1) \div 86400 = (now \div 86400) + day
        BY <3>2, <3>3
      <4> HIDE DEF day
      <4>3. R!ShowsDate((now \div 86400) + day)'
        BY <1>1, <1>2, <2>2, <4>1, <4>2, DateKept
      <4> QED BY <4>2, <4>3
    <3> QED BY <2>3, <3>2, <3>3, <3>4, <3>5, <3>6 DEF R!ShowsSecond
  <2> QED BY <1>3, <2>4, <2>5
<1>6. R!ReadsHours' => R!ReadsHours
  BY <1>1 DEF R!ReadsHours
<1> QED BY <1>1, <1>2, <1>4, <1>5, <1>6 DEF R!RtcInv

LEMMA ClockStep == ClockInv /\ [Next]_vars => ClockInv'
<1> SUFFICES ASSUME ClockInv, [Next]_vars PROVE ClockInv'
  OBVIOUS
<1>1. CASE RegisterRtc
  BY <1>1, StartKeeps
<1>2. CASE RtcInterrupt
  <2>1. PICK periodic \in BOOLEAN : R!Interrupt(periodic)
    BY <1>2 DEF RtcInterrupt
  <2>2. pc = "ready" /\ pc' = "ready"
    BY <1>2 DEF RtcInterrupt
  <2> QED BY <2>1, <2>2, InterruptKeeps DEF ClockInv
<1>3. CASE UNCHANGED rtc /\ (pc' \in {"ready", "dead"} \/ pc \notin {"ready", "dead"})
  <2>1. R!RtcInv' = R!RtcInv
    BY <1>3 DEF rtc, R!RtcInv, R!ShowsSecond, R!ShowsDate, R!InRange, R!SecondOfDay,
       R!ReadsHours
  <2> QED BY <1>3, <2>1 DEF ClockInv, rtc
<1> QED
  BY <1>1, <1>2, <1>3 DEF Next, TaskStep, Initialise, RegisterTsc, RegisterHpet, RegisterHpetSub,
     HpetDone, RegisterApic, WaitStep, WaitEnable, WaitDisable, WaitSelect, WaitPanic,
     MpInit, Tick, Request, vars

(* The time of day and the weekday of rtc_interrupt's clock are those of   *)
(* the boot plus the whole seconds that its periodic interrupts make up,   *)
(* and its date is until the 30th: for every time at the boot but 12 AM    *)
(* and 12 PM of a 12-hour device, and saying nothing of the date once a    *)
(* month has ended or in December.                                         *)
THEOREM ClockKeepsTime == Spec => []ClockRight
<1>1. ClockInv => ClockRight
  <2> SUFFICES ASSUME R!RtcInv, running, R!ReadsHours
               PROVE  /\ R!SecondOfDay(clock) = R!Elapsed % 86400
                      /\ (clock.weekday - device.weekday - R!Elapsed \div 86400) % 7 = 0
                      /\ R!ShowsDate(R!Elapsed \div 86400)
    BY DEF ClockInv, ClockRight, R!KeepsTime
  <2>1. interrupts \div TicksPerSecond = ms_sinceboot
    BY RtcAssumption, WholeSeconds DEF R!RtcInv
  <2>2. R!Elapsed = R!SecondOfDay(device) + ms_sinceboot
    BY <2>1 DEF R!Elapsed
  <2> QED BY <2>2 DEF R!RtcInv, R!ShowsSecond
<1> QED BY <1>1, InitClock, ClockStep, PTL DEF Spec

=============================================================================

------------------------------- MODULE Timers -------------------------------
(***************************************************************************)
(* The registry of timers (kernel/src/timers/timer_main.c) with the timers *)
(* that the platform registers: the HPET (hpet.c), the local APIC timer    *)
(* (apic.c), the TSC (tsc.c) and the real time clock (Rtc).  The bootstrap *)
(* processor registers them, then requests timers and waits (TimerWait)    *)
(* while they interrupt it.                                                *)
(***************************************************************************)
EXTENDS Integers, Sequences, FiniteSets

CONSTANTS
  Machines,     \* records [tsc, bus, rtc, subs]: use_tsc(); an APIC frequency
                \* of at least 20000; vector 40 is free; the HPET's timers
                \* 0 .. TimerCount, each [periodic, fsb]
  Requests,     \* sets of features to ask for
  Waits,        \* ticks to wait
  MaxRequests,  \* bound: requests made
  MaxCores,     \* bound: further cores that set up their timer
  TicksPerSecond, Starts, Formats, CurrentCentury, MaxInterrupts  \* of Rtc

ASSUME MachinesAssumption ==
  \A m \in Machines : m.tsc \in BOOLEAN /\ Len(m.subs) \in Nat \ {0}
ASSUME WaitsAssumption ==
  Waits \subseteq Nat /\ \E m \in Waits : \A n \in Waits : n <= m

(* The device holds a time of day and a date; its weekdays have one digit. *)
ASSUME RtcAssumption ==
  /\ TicksPerSecond \in Nat \ {0}
  /\ \A t \in Starts :
       /\ {t.seconds, t.minutes, t.hours, t.weekday} \subseteq Nat
       /\ t.seconds < 60 /\ t.minutes < 60 /\ t.hours < 24 /\ t.weekday < 10
       /\ {t.dayofmonth, t.month, t.year} \subseteq Nat
       /\ t.dayofmonth < 32 /\ t.month < 13 /\ t.year < 100

VARIABLES
  machine,
  pc,           \* what timer_platform_init is about to register, then "ready"
  timer_defs,   \* the registry: a sequence of records
  timer_def_cnt,
  counting,     \* the HPET's GlobalEnable
  dev,          \* each registered timer's device: on, oneshot, handler
  grants,       \* the registry index each request got, 0 for -1
  fired,        \* calls of each request's handler, up to 2
  sel,          \* the timer of the wait in progress, 0 outside of one
  cores,        \* cores that went through timer_mp_init
  wpc, want, timer_wait_pending, timer_wait_count, timer_wait_target, elapsed,
  device, format, clock, ms_10000000x, ms_sinceboot, running, interrupts

registry == <<timer_defs, timer_def_cnt, dev>>
users    == <<grants, fired, sel>>
wait     == <<wpc, want, timer_wait_pending, timer_wait_count,
              timer_wait_target, elapsed>>
rtc      == <<device, format, clock, ms_10000000x, ms_sinceboot, running,
              interrupts>>
vars     == <<machine, pc, counting, registry, users, cores, wait, rtc>>

(* A timer's handler: none, timer_wait_handler, or that of a request.      *)
NoHandler   == 0
WaitHandler == -1

armed == sel # 0 /\ dev[sel].on /\ dev[sel].handler = WaitHandler

T == INSTANCE TimerWait
R == INSTANCE Rtc

Idx == 1 .. Len(timer_defs)

Off == [on |-> FALSE, oneshot |-> FALSE, handler |-> NoHandler]

(* timer_init: hpet_getcount() + (use_tsc() ? 2 : 0) + 2, where            *)
(* hpet_getcount is TimerCount + 2.                                        *)
TimerCount(m) == Len(m.subs) - 1
DefCount(m)   == TimerCount(m) + 2 + (IF m.tsc THEN 2 ELSE 0) + 2

Init ==
  /\ machine \in Machines
  /\ pc = IF machine.tsc THEN "tsc" ELSE "hpet_main"
  /\ timer_defs = <<>>
  /\ timer_def_cnt = DefCount(machine)
  /\ counting = TRUE
  /\ dev = <<>>
  /\ grants = <<>> /\ fired = <<>> /\ sel = 0
  /\ cores = 0
  /\ T!Init /\ R!Init

-----------------------------------------------------------------------------
Def(kind, features, settable, writable) ==
  [kind |-> kind, features |-> features, settable |-> settable,
   writable |-> writable, in_use |-> FALSE]

(* timer_register                                                          *)
Register(def) ==
  /\ timer_defs' = Append(timer_defs, def)
  /\ dev' = Append(dev, Off)
  /\ UNCHANGED <<timer_def_cnt, machine>>

RegisterTsc ==
  /\ pc = "tsc"
  /\ Register(Def("tsc", {"persistent", "counter", "read"}, FALSE, FALSE))
  /\ pc' = "apic"
  /\ UNCHANGED <<counting, users, cores, wait, rtc>>

RegisterHpet ==
  /\ pc = "hpet_main"
  /\ Register(Def("hpet_main", {"persistent", "read", "counter", "write"},
                  FALSE, TRUE))
  /\ counting' = FALSE
  /\ pc' = "hpet_sub"
  /\ UNCHANGED <<users, cores, wait, rtc>>

(* The loop of hpet_init over its timers, all of them sharing one vector.  *)
RegisterHpetSub ==
  /\ pc = "hpet_sub"
  /\ LET s == machine.subs[Len(timer_defs)]
     IN  Register(Def("hpet_sub",
                      {"persistent", "read", "write", "oneshot"}
                        \cup (IF s.fsb THEN {"pcie_msg_intr"} ELSE {"fixed_intr"})
                        \cup (IF s.periodic THEN {"periodic"} ELSE {}),
                      TRUE, TRUE))
  /\ pc' = IF Len(timer_defs) = Len(machine.subs) THEN "hpet_done" ELSE pc
  /\ UNCHANGED <<counting, users, cores, wait, rtc>>

(* "Enable the counter": GlobalEnable = 0.                                 *)
HpetDone ==
  /\ pc = "hpet_done"
  /\ counting' = FALSE
  /\ pc' = "apic"
  /\ UNCHANGED <<machine, registry, users, cores, wait, rtc>>

Apic == Def("apic", {"persistent", "oneshot", "periodic", "local"}, TRUE, FALSE)

(* apic_timer_init on the bootstrap processor.                             *)
RegisterApic ==
  /\ pc = "apic"
  /\ Register(Apic)
  /\ pc' = "rtc"
  /\ UNCHANGED <<counting, users, cores, wait, rtc>>

RegisterRtc ==
  /\ pc = "rtc"
  /\ R!Start(machine.rtc)
  /\ IF machine.rtc
       THEN Register(Def("rtc", {"persistent", "counter", "read"}, FALSE, FALSE))
       ELSE UNCHANGED <<machine, registry>>
  /\ pc' = "ready"
  /\ UNCHANGED <<counting, users, cores, wait>>

Initialise == \/ RegisterTsc \/ RegisterHpet \/ RegisterHpetSub \/ HpetDone
              \/ RegisterApic \/ RegisterRtc

(* Mutant of MpInit: apic_state is a pointer of its own on every core, so  *)
(* that every core finds it NULL and registers its timer.                  *)
MpInit_Registers ==
  /\ pc = "ready" /\ cores < MaxCores
  /\ cores' = cores + 1
  /\ Register(Apic)
  /\ UNCHANGED <<pc, counting, users, wait, rtc>>

(* timer_mp_init on a further core: the variable apic_state is shared and  *)
(* not NULL, so that nothing is registered; the fields are the core's own. *)
MpInit ==
  /\ pc = "ready" /\ cores < MaxCores
  /\ cores' = cores + 1
  /\ UNCHANGED <<machine, pc, counting, registry, users, wait, rtc>>

-----------------------------------------------------------------------------
(* The first timer of the registry that is free and that fits.             *)
FirstFree(Fits(_)) ==
  LET free == {i \in Idx : /\ ~timer_defs[i].in_use
                           /\ timer_defs[i].settable
                           /\ Fits(timer_defs[i])}
  IN  IF free = {} THEN 0 ELSE CHOOSE i \in free : \A j \in free : i <= j

ForRequest(features) ==
  FirstFree(LAMBDA d : /\ features \subseteq d.features
                       /\ "write" \in features => d.writable)

ForWait == FirstFree(LAMBDA d : "periodic" \in d.features)

InUse(i, b) == timer_defs' = [timer_defs EXCEPT ![i].in_use = b]

(* Mutant of Grant: the timer is not marked as used.                       *)
Grant_Unmarked(i, features) ==
  /\ dev' = [dev EXCEPT ![i].on = TRUE, ![i].handler = Len(grants) + 1]
  /\ UNCHANGED timer_defs

(* set_mode, write, set_handler, set_enable of the timer's own functions.  *)
(* A mode without oneshot and periodic changes nothing.                    *)
Grant(i, features) ==
  /\ InUse(i, TRUE)
  /\ dev' = [dev EXCEPT
               ![i].on = TRUE,
               ![i].handler = Len(grants) + 1,
               ![i].oneshot = "oneshot" \in features
                                \/ (@ /\ "periodic" \notin features)]

(* timer_request, -1 (0 here) when no timer fits.                          *)
Request(features) ==
  /\ pc = "ready" /\ wpc = "idle" /\ Len(grants) < MaxRequests
  /\ LET i == ForRequest(features)
     IN  /\ IF i = 0 THEN UNCHANGED <<timer_defs, dev>> ELSE Grant(i, features)
         /\ grants' = Append(grants, [timer |-> i, features |-> features])
  /\ fired' = Append(fired, 0)
  /\ UNCHANGED <<machine, pc, timer_def_cnt, counting, sel, cores, wait, rtc>>

-----------------------------------------------------------------------------
(* timer_wait selects the first free periodic timer; when there is none it *)
(* PANICs and goes on with the entry behind the registry, whose rate of 0  *)
(* is a division error: the end of the core.                               *)
WaitSelect(n) ==
  /\ pc = "ready" /\ ForWait # 0
  /\ sel' = ForWait
  /\ UNCHANGED <<machine, pc, counting, registry, grants, fired, cores, rtc>>
  /\ T!Begin(n)

WaitPanic ==
  /\ pc = "ready" /\ wpc = "idle" /\ ForWait = 0
  /\ pc' = "dead"
  /\ UNCHANGED <<machine, counting, registry, users, cores, wait, rtc>>

WaitStep ==
  /\ UNCHANGED <<machine, pc, counting, registry, users, cores, rtc>>
  /\ T!Reset \/ T!SetPending \/ T!SetTarget \/ T!Check \/ T!Halt

(* in_use, set_handler, set_enable.  The mode stays what it is.            *)
WaitEnable ==
  /\ wpc = "enable"
  /\ InUse(sel, TRUE)
  /\ dev' = [dev EXCEPT ![sel].on = TRUE, ![sel].handler = WaitHandler]
  /\ UNCHANGED <<machine, pc, timer_def_cnt, counting, users, cores, rtc>>
  /\ T!Enable

WaitDisable ==
  /\ wpc = "disable"
  /\ sel' = 0
  /\ dev' = [dev EXCEPT ![sel].on = FALSE]
  /\ InUse(sel, FALSE)
  /\ UNCHANGED <<machine, pc, timer_def_cnt, counting, grants, fired, cores, rtc>>
  /\ T!Disable

-----------------------------------------------------------------------------
(* Whether a timer raises interrupts: the periodic local APIC timer always *)
(* does, the HPET's while its counter runs.                                *)
Counts(i) ==
  \/ timer_defs[i].kind = "apic" /\ machine.bus
  \/ timer_defs[i].kind = "hpet_sub" /\ counting /\ dev[i].on

(* apic_handler; hpet_timer_handler, which calls the handlers of all the   *)
(* HPET's enabled timers.                                                  *)
Called(i) == {j \in Idx : dev[j].on /\ timer_defs[j].kind = timer_defs[i].kind}

Calls(h, i) == \E j \in Called(i) : dev[j].handler = h

(* Mutant of AfterTick: the local APIC timer is off after every tick.      *)
AfterTick_Off(i) == [dev[i] EXCEPT !.on = FALSE]

(* Mutant of AfterTick: the local APIC timer stays on after its one shot.  *)
AfterTick_StaysOn(i) == dev[i]

AfterTick(i) ==
  IF timer_defs[i].kind = "apic" /\ dev[i].oneshot
    THEN [dev[i] EXCEPT !.on = FALSE] ELSE dev[i]

(* A timer's interrupt.  Before the timers are set up its handler would    *)
(* find them off.                                                          *)
Tick(i) ==
  /\ pc = "ready" /\ i \in Idx /\ Counts(i)
  /\ dev' = [dev EXCEPT ![i] = AfterTick(i)]
  /\ fired' = [r \in DOMAIN fired |->
                 IF Calls(r, i) /\ fired[r] < 2 THEN fired[r] + 1 ELSE fired[r]]
  /\ UNCHANGED <<machine, pc, counting, timer_defs, timer_def_cnt, grants, sel,
                 cores, rtc>>
  /\ IF Calls(WaitHandler, i) THEN T!Tick ELSE T!OtherInterrupt

(* The real time clock's, which ends a hlt as any other.                   *)
RtcInterrupt ==
  /\ pc = "ready"
  /\ \E periodic \in BOOLEAN : R!Interrupt(periodic)
  /\ UNCHANGED <<machine, pc, counting, registry, users, cores>>
  /\ T!OtherInterrupt

TaskStep == Initialise \/ WaitStep \/ WaitEnable \/ WaitDisable

Next == \/ TaskStep
        \/ \E features \in Requests : Request(features)
        \/ \E n \in Waits : WaitSelect(n)
        \/ WaitPanic
        \/ MpInit
        \/ \E i \in Idx : Tick(i)
        \/ RtcInterrupt

Spec == Init /\ [][Next]_vars

(* The core executes its code, and a timer that counts keeps ticking.      *)
MaxDefs  == CHOOSE n \in {DefCount(m) : m \in Machines} :
              \A m \in Machines : DefCount(m) <= n
FairSpec == /\ Spec /\ WF_vars(TaskStep)
            /\ \A i \in 1 .. MaxDefs : WF_vars(Tick(i))

-----------------------------------------------------------------------------
(* timer_register writes behind its index without a test: on every machine *)
(* and with every core's initialisation, timer_init's count of the timers  *)
(* to come is large enough.                                                *)
RegistryFits == Len(timer_defs) <= timer_def_cnt

(* What timer_request has given stays given: neither a later request nor   *)
(* any wait takes the timer or replaces its handler.                       *)
RequestsKept ==
  [][\A r \in DOMAIN grants : grants[r].timer # 0 =>
       /\ timer_defs'[grants[r].timer].in_use
       /\ dev'[grants[r].timer].handler = r]_vars

OnApic(i) == i # 0 /\ timer_defs[i].kind = "apic"

(* On the local APIC timer, which is periodic in hardware, the handler of  *)
(* a one-shot request runs once at most.                                   *)
OneShotOnce ==
  \A r \in DOMAIN grants :
    OnApic(grants[r].timer) /\ "oneshot" \in grants[r].features => fired[r] <= 1

(* A wait is never shorter than asked for, and the clock is right, with    *)
(* every timer of the machine interrupting (TimerWait, Rtc).               *)
WaitNotEarly == T!NotEarly
ClockRight   == R!KeepsTime

-----------------------------------------------------------------------------
(* What these rest on.                                                     *)

TimerDef ==
  [kind : {"tsc", "hpet_main", "hpet_sub", "apic", "rtc"},
   features : SUBSET {"persistent", "counter", "read", "write", "oneshot", "periodic",
                      "local", "pcie_msg_intr", "fixed_intr"},
   settable : BOOLEAN, writable : BOOLEAN, in_use : BOOLEAN]

TimersType ==
  /\ machine \in Machines
  /\ timer_defs \in Seq(TimerDef)
  /\ dev \in Seq([on : BOOLEAN, oneshot : BOOLEAN, handler : Int])
  /\ Len(dev) = Len(timer_defs)
  /\ timer_def_cnt = DefCount(machine)
  /\ grants \in Seq([timer : Nat, features : Requests])
  /\ fired \in Seq(Nat) /\ Len(fired) = Len(grants)
  /\ wpc \in {"idle", "reset", "pending", "target", "enable", "check", "halt",
              "halted", "disable"}
  /\ sel \in Nat /\ (sel = 0 <=> wpc = "idle") /\ (sel # 0 => sel \in Idx)
  /\ want \in Nat
  /\ {timer_wait_pending, timer_wait_count, timer_wait_target, elapsed} \subseteq Nat

(* The step of timer_platform_init tells how many timers are registered.   *)
RegisteredSoFar ==
  LET n == Len(timer_defs)
      m == Len(machine.subs)
  IN  /\ pc \in {"tsc", "hpet_main", "hpet_sub", "hpet_done", "apic", "rtc",
                 "ready", "dead"}
      /\ pc \in {"tsc", "hpet_main"} => n = 0
      /\ pc \in {"hpet_main", "hpet_sub", "hpet_done"} => ~machine.tsc
      /\ pc \in {"tsc"} => machine.tsc
      /\ pc = "hpet_sub"  => n \in 1 .. m
      /\ pc = "hpet_done" => n = m + 1
      /\ pc = "apic" => n = IF machine.tsc THEN 1 ELSE m + 1
      /\ pc = "rtc"  => n = IF machine.tsc THEN 2 ELSE m + 2
      /\ pc \in {"ready", "dead"} => n <= IF machine.tsc THEN 3 ELSE m + 3
      /\ pc # "ready" => wpc = "idle"

(* There is one local APIC timer at most, and none before its turn.        *)
OneApic ==
  /\ \A i, j \in Idx : timer_defs[i].kind = "apic" /\ timer_defs[j].kind = "apic" => i = j
  /\ pc \in {"tsc", "hpet_main", "hpet_sub", "hpet_done", "apic"} =>
       \A i \in Idx : timer_defs[i].kind # "apic"

(* A granted timer is in use, with its request's handler, and no other is; *)
(* a one-shot local APIC timer that still runs has not called it.          *)
GrantsOrder ==
  /\ \A r \in 1 .. Len(grants) : grants[r].timer # 0 =>
       /\ grants[r].timer \in Idx \ {sel}
       /\ timer_defs[grants[r].timer].in_use
       /\ dev[grants[r].timer].handler = r
  /\ \A i \in Idx : dev[i].handler > 0 =>
       dev[i].handler \in 1 .. Len(grants) /\ grants[dev[i].handler].timer = i
  /\ \A r \in 1 .. Len(grants) :
       OnApic(grants[r].timer) /\ "oneshot" \in grants[r].features =>
         /\ dev[grants[r].timer].oneshot
         /\ fired[r] <= IF dev[grants[r].timer].on THEN 0 ELSE 1

Ticks == IF want = 0 THEN 1 ELSE want

(* The wait's handler is called only between Enable and Disable, and what  *)
(* it has counted has elapsed.                                             *)
WaitOrder ==
  /\ \A i \in Idx : dev[i].on /\ dev[i].handler = WaitHandler =>
       i = sel /\ wpc \in {"check", "halt", "halted", "disable"}
  /\ wpc \in {"pending", "target", "enable"} => timer_wait_count = 0
  /\ wpc \in {"target", "enable"} => timer_wait_pending # 0
  /\ wpc \in {"enable", "check", "halt", "halted", "disable"} => timer_wait_target = Ticks
  /\ wpc \in {"check", "halt", "halted", "disable"} =>
       timer_wait_count <= elapsed /\ (timer_wait_pending # 0 \/ elapsed >= Ticks)
  /\ wpc = "disable" => elapsed >= Ticks

(* Nothing is counted before rtc_init has read the device.                 *)
ClockInv == R!RtcInv /\ (pc \notin {"ready", "dead"} => ms_sinceboot = 0)

TimersInv == TimersType /\ RegisteredSoFar /\ OneApic /\ GrantsOrder /\ WaitOrder

-----------------------------------------------------------------------------
(* A request that gets the local APIC timer has its handler called, and a  *)
(* wait that selects it ends, whatever was requested before (unless a wait *)
(* without a timer has ended the core).                                    *)
ApicServes ==
  /\ \A r \in 1 .. MaxRequests :
       r \in DOMAIN grants /\ OnApic(grants[r].timer) /\ machine.bus
         ~> pc = "dead" \/ (r \in DOMAIN fired /\ fired[r] > 0)
  /\ OnApic(sel) /\ machine.bus ~> sel = 0

(* "Use the timer api to wait for 10ms" (smp.c:43): every wait ends that   *)
(* finds a timer; hpet.c:280 announces "Enable the counter".               *)
WaitEnds == sel # 0 ~> sel = 0

=============================================================================

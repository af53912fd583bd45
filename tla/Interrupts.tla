----------------------------- MODULE Interrupts -----------------------------
(***************************************************************************)
(* Interrupt vectors on several cores, kernel/src/interrupts/idt.c: the    *)
(* table of handlers, the reservation of vectors, and the dispatcher, all  *)
(* under one spinlock that every caller takes with interrupts off.         *)
(*                                                                         *)
(* Each core runs a task, and on top of it at most one interrupt: the IDT  *)
(* entries are interrupt gates, so the dispatcher runs with interrupts off *)
(* and its own cli/sti pair changes nothing.  Handlers run under the lock. *)
(***************************************************************************)
EXTENDS Integers, FiniteSets

CONSTANTS
  Core,
  Enabled,      \* the cores that have executed sti(1)
  LastVector,   \* IDT_ENTRY_COUNT - 1
  FirstIrq,     \* 32: the vectors below are exceptions
  HandlerCnt,   \* IDT_HANDLER_CNT
  Handler, NULL,
  Requests,     \* the calls made: records [op, v, h] or [op, base, cnt, flags]
  Halting,      \* the handlers that end in halt(), as pagefault_handler does
  Sources,      \* the interrupts devices raise: <<core, vector>>
  Faults,       \* the exceptions tasks run into: <<core, vector>>
  MaxCalls,     \* bound: calls made in all
  MaxRaised     \* bound: interrupts and exceptions in all

Vector == 0 .. LastVector
Slot   == 1 .. HandlerCnt

(* A fixed block is one of the table's and not the exception vector 0.     *)
Request ==
  [op : {"register", "unregister"}, v : Vector, h : Handler] \cup
  {r \in [op : {"allocate"}, base : Vector, cnt : Nat \ {0},
          flags : SUBSET {"exclusive", "fixed"}] :
     /\ r.base + r.cnt <= LastVector + 1
     /\ "fixed" \in r.flags => r.base # 0}

ASSUME VectorAssumption  == FirstIrq \in Nat /\ LastVector \in Nat /\ FirstIrq <= LastVector
ASSUME CoreAssumption    == Enabled \subseteq Core
ASSUME RequestAssumption == Requests \subseteq Request
ASSUME HandlerAssumption == HandlerCnt \in Nat \ {0} /\ NULL \notin Handler

VARIABLES
  funcs,     \* interrupt_funcs
  blocked,   \* interrupt_blocked
  lock,      \* interrupt_alloc_lock: who holds it, or Nobody
  ifl,       \* each core's interrupt flag
  tpc,       \* the step each core's task is about to take
  req,       \* the call it is in
  try,       \* which half of interrupt_allocate, "fixed" or "search"
  state,     \* its local state: the interrupt flag that cli() returned
  pick,      \* what its scan found: a slot, a first vector, or 0 (nothing)
  ipc,       \* the step each core's interrupt is about to take, or "none"
  ivec,      \* the vector it serves
  islot,     \* how many slots of the vector it has gone through
  handled,   \* its local handled
  rflags,    \* the interrupt flag its iretq restores
  irr, isr,  \* the local APIC's pending and in-service vectors
  installed, \* how many registrations of a handler a vector should have
  owners,    \* how many exclusive reservations each vector is part of
  calls, raised

table   == <<funcs, blocked>>
task    == <<tpc, req, try, state, pick>>
irq     == <<ipc, ivec, islot, handled, rflags>>
apic    == <<irr, isr>>
ghosts  == <<installed, owners>>
bounds  == <<calls, raised>>
vars    == <<table, lock, ifl, task, irq, apic, ghosts, bounds>>

NoRequest == [op |-> "none"]
Nobody    == << >>

Init ==
  /\ funcs = [v \in Vector |-> [i \in Slot |-> NULL]]
  /\ blocked = [v \in Vector |-> FALSE]
  /\ lock = Nobody
  /\ ifl = [c \in Core |-> c \in Enabled]
  /\ tpc = [c \in Core |-> "idle"]
  /\ req = [c \in Core |-> NoRequest]
  /\ try = [c \in Core |-> "fixed"]
  /\ state = [c \in Core |-> FALSE]
  /\ pick = [c \in Core |-> 0]
  /\ ipc = [c \in Core |-> "none"]
  /\ ivec = [c \in Core |-> 0]
  /\ islot = [c \in Core |-> 0]
  /\ handled = [c \in Core |-> FALSE]
  /\ rflags = [c \in Core |-> FALSE]
  /\ irr = [c \in Core |-> {}]
  /\ isr = [c \in Core |-> {}]
  /\ installed = [v \in Vector |-> [h \in Handler |-> 0]]
  /\ owners = [v \in Vector |-> 0]
  /\ calls = 0 /\ raised = 0

-----------------------------------------------------------------------------
(* A task's call: cli, lock, one or two steps under the lock, unlock, sti. *)
(* A task runs only while its core is not serving an interrupt.            *)

At(c, from, to) ==
  /\ ipc[c] = "none"
  /\ tpc[c] = from
  /\ tpc' = [tpc EXCEPT ![c] = to]

(* interrupt_allocate goes straight to the search if it has no wish.       *)
Call(c, r) ==
  /\ calls < MaxCalls
  /\ At(c, "idle", "cli")
  /\ req' = [req EXCEPT ![c] = r]
  /\ try' = [try EXCEPT ![c] =
               IF r.op = "allocate" /\ "fixed" \notin r.flags /\ r.base = 0
                 THEN "search" ELSE "fixed"]
  /\ calls' = calls + 1
  /\ UNCHANGED <<table, lock, ifl, state, pick, irq, apic, ghosts, raised>>

(* Mutant of Cli: interrupts stay on.                                      *)
Cli_Forgotten(c) ==
  /\ At(c, "cli", "lock")
  /\ state' = [state EXCEPT ![c] = ifl[c]]
  /\ UNCHANGED <<table, lock, ifl, req, try, pick, irq, apic, ghosts, bounds>>

Cli(c) ==
  /\ At(c, "cli", "lock")
  /\ state' = [state EXCEPT ![c] = ifl[c]]
  /\ ifl' = [ifl EXCEPT ![c] = FALSE]
  /\ UNCHANGED <<table, lock, req, try, pick, irq, apic, ghosts, bounds>>

(* Mutant of Lock: it does not wait.                                       *)
Lock_Barging(c) ==
  /\ At(c, "lock", "scan")
  /\ lock' = <<c, "task">>
  /\ UNCHANGED <<table, ifl, req, try, state, pick, irq, apic, ghosts, bounds>>

Lock(c) ==
  /\ At(c, "lock", "scan")
  /\ lock = Nobody
  /\ lock' = <<c, "task">>
  /\ UNCHANGED <<table, ifl, req, try, state, pick, irq, apic, ghosts, bounds>>

(* Mutant of Unlock: a call that found nothing leaves the lock taken.      *)
Unlock_Leaks(c) ==
  /\ At(c, "unlock", "sti")
  /\ lock' = IF pick[c] = 0 THEN lock ELSE Nobody
  /\ UNCHANGED <<table, ifl, req, try, state, pick, irq, apic, ghosts, bounds>>

Unlock(c) ==
  /\ At(c, "unlock", "sti")
  /\ lock' = Nobody
  /\ UNCHANGED <<table, ifl, req, try, state, pick, irq, apic, ghosts, bounds>>

(* What follows the sti: a second try, the oversubscription PANIC (a hlt), *)
(* or the return.                                                          *)
AfterSti(c) ==
  IF req[c].op = "register" /\ pick[c] = 0 THEN "hlt"
  ELSE IF /\ req[c].op = "allocate" /\ pick[c] = 0
          /\ try[c] = "fixed" /\ "fixed" \notin req[c].flags THEN "cli"
  ELSE "idle"

(* Mutant of Sti: interrupts stay off on the way to the PANIC.             *)
Sti_SkippedByPanic(c) ==
  /\ At(c, "sti", AfterSti(c))
  /\ ifl' = [ifl EXCEPT ![c] = @ \/ (state[c] /\ AfterSti(c) # "hlt")]
  /\ try' = [try EXCEPT ![c] = IF AfterSti(c) = "cli" THEN "search" ELSE @]
  /\ UNCHANGED <<table, lock, req, state, pick, irq, apic, ghosts, bounds>>

Sti(c) ==
  /\ At(c, "sti", AfterSti(c))
  /\ ifl' = [ifl EXCEPT ![c] = ifl[c] \/ state[c]]
  /\ try' = [try EXCEPT ![c] = IF AfterSti(c) = "cli" THEN "search" ELSE try[c]]
  /\ UNCHANGED <<table, lock, req, state, pick, irq, apic, ghosts, bounds>>

-----------------------------------------------------------------------------
(* What each call does under the lock: read the table, then write it.      *)

LeastOr0(S) == IF S = {} THEN 0 ELSE CHOOSE x \in S : \A y \in S : x <= y

(* Mutant of Free: only the first vector of the run is looked at.          *)
Free_First(base, cnt) == ~blocked[base]

Free(base, cnt) == \A v \in base .. base + cnt - 1 : ~blocked[v]

(* The search tests a run of free vectors only on the turn after the one   *)
(* that completed it, so it never finds a run that ends at the last vector.*)
Scan(c) ==
  /\ At(c, "scan", "write")
  /\ LET r == req[c]
         Finds(p) == pick' = [pick EXCEPT ![c] = p]
     IN  \/ r.op = "register" /\ Finds(LeastOr0({i \in Slot : funcs[r.v][i] = NULL}))
         \/ r.op = "unregister" /\ Finds(0)
         \/ /\ r.op = "allocate" /\ try[c] = "fixed"
            /\ Finds(IF Free(r.base, r.cnt) THEN r.base ELSE 0)
         \/ /\ r.op = "allocate" /\ try[c] = "search"
            /\ Finds(LeastOr0({b \in FirstIrq .. LastVector - r.cnt : Free(b, r.cnt)}))
  /\ UNCHANGED <<table, lock, ifl, req, try, state, irq, apic, ghosts, bounds>>

(* interrupt_registerhandler                                               *)
WriteRegister(c) ==
  /\ At(c, "write", "unlock")
  /\ req[c].op = "register"
  /\ IF pick[c] = 0 THEN UNCHANGED <<funcs, installed>>
     ELSE /\ funcs' = [funcs EXCEPT ![req[c].v][pick[c]] = req[c].h]
          /\ installed' = [installed EXCEPT ![req[c].v][req[c].h] = @ + 1]
  /\ UNCHANGED <<blocked, lock, ifl, req, try, state, pick, irq, apic, owners, bounds>>

(* interrupt_unregisterhandler clears every slot the handler is in.        *)
WriteUnregister(c) ==
  /\ At(c, "write", "unlock")
  /\ req[c].op = "unregister"
  /\ funcs' = [funcs EXCEPT ![req[c].v] =
                 [i \in Slot |-> IF @[i] = req[c].h THEN NULL ELSE @[i]]]
  /\ installed' = [installed EXCEPT ![req[c].v][req[c].h] = 0]
  /\ UNCHANGED <<blocked, lock, ifl, req, try, state, pick, irq, apic, owners, bounds>>

(* interrupt_allocate: only an exclusive reservation is remembered.        *)
WriteAllocate(c) ==
  LET run == pick[c] .. pick[c] + req[c].cnt - 1
  IN  /\ At(c, "write", "unlock")
      /\ req[c].op = "allocate"
      /\ IF pick[c] # 0 /\ "exclusive" \in req[c].flags
           THEN /\ blocked' = [v \in Vector |-> v \in run \/ blocked[v]]
                /\ owners' = [v \in Vector |-> owners[v] + IF v \in run THEN 1 ELSE 0]
           ELSE UNCHANGED <<blocked, owners>>
      /\ UNCHANGED <<funcs, lock, ifl, req, try, state, pick, irq, apic,
                     installed, bounds>>

TaskStep(c) ==
  \/ Cli(c) \/ Lock(c) \/ Scan(c)
  \/ WriteRegister(c) \/ WriteUnregister(c) \/ WriteAllocate(c)
  \/ Unlock(c) \/ Sti(c)

-----------------------------------------------------------------------------
(* The dispatcher, idt_mainhandler.                                        *)

Raise(c, v) ==
  /\ raised < MaxRaised
  /\ <<c, v>> \in Sources
  /\ irr' = [irr EXCEPT ![c] = @ \cup {v}]
  /\ raised' = raised + 1
  /\ UNCHANGED <<table, lock, ifl, task, irq, isr, ghosts, calls>>

(* The gate saves the flag and turns interrupts off.                       *)
Enter(c, v) ==
  /\ ipc[c] = "none"
  /\ ipc' = [ipc EXCEPT ![c] = "lock"]
  /\ ivec' = [ivec EXCEPT ![c] = v]
  /\ islot' = [islot EXCEPT ![c] = 0]
  /\ handled' = [handled EXCEPT ![c] = FALSE]
  /\ rflags' = [rflags EXCEPT ![c] = ifl[c]]
  /\ ifl' = [ifl EXCEPT ![c] = FALSE]

(* The local APIC delivers the highest vector that is pending.             *)
Deliver(c) ==
  \E v \in irr[c] :
    /\ ifl[c]
    /\ \A w \in irr[c] : w <= v
    /\ Enter(c, v)
    /\ irr' = [irr EXCEPT ![c] = @ \ {v}]
    /\ isr' = [isr EXCEPT ![c] = @ \cup {v}]
    /\ UNCHANGED <<table, lock, task, ghosts, bounds>>

(* An exception needs no interrupt flag.                                   *)
Fault(c, v) ==
  /\ raised < MaxRaised
  /\ <<c, v>> \in Faults
  /\ tpc[c] = "idle"
  /\ Enter(c, v)
  /\ raised' = raised + 1
  /\ UNCHANGED <<table, lock, task, apic, ghosts, calls>>

(* Mutant of IrqLock: the dispatcher does not wait for the lock.           *)
IrqLock_Barging(c) ==
  /\ ipc[c] = "lock"
  /\ lock' = <<c, "irq">>
  /\ ipc' = [ipc EXCEPT ![c] = "run"]
  /\ UNCHANGED <<table, ifl, task, ivec, islot, handled, rflags, apic, ghosts, bounds>>

IrqLock(c) ==
  /\ ipc[c] = "lock" /\ lock = Nobody
  /\ lock' = <<c, "irq">>
  /\ ipc' = [ipc EXCEPT ![c] = "run"]
  /\ UNCHANGED <<table, ifl, task, ivec, islot, handled, rflags, apic, ghosts, bounds>>

(* One turn of the loop: call the handler in the next slot, if there is    *)
(* one.  A handler that halts does so with interrupts off, under the lock. *)
RunSlot(c) ==
  LET i == islot[c] + 1
      h == funcs[ivec[c]][i]
  IN  /\ ipc[c] = "run" /\ i \in Slot
      /\ islot' = [islot EXCEPT ![c] = i]
      /\ handled' = [handled EXCEPT ![c] = @ \/ h # NULL]
      /\ ipc' = [ipc EXCEPT ![c] = IF h \in Halting THEN "dead" ELSE @]
      /\ UNCHANGED <<table, lock, ifl, task, ivec, rflags, apic, ghosts, bounds>>

(* Mutant of IrqUnlock: the lock is released only on the way to the PANIC. *)
IrqUnlock_Leaks(c) ==
  /\ ipc[c] = "run" /\ islot[c] = HandlerCnt
  /\ lock' = IF handled[c] THEN lock ELSE Nobody
  /\ ipc' = [ipc EXCEPT ![c] = IF handled[c] THEN "eoi" ELSE "dead"]
  /\ UNCHANGED <<table, ifl, task, ivec, islot, handled, rflags, apic, ghosts, bounds>>

(* An interrupt nobody handles ends in a PANIC, whose hlt with interrupts  *)
(* off is the end of the core.                                             *)
IrqUnlock(c) ==
  /\ ipc[c] = "run" /\ islot[c] = HandlerCnt
  /\ lock' = Nobody
  /\ ipc' = [ipc EXCEPT ![c] = IF handled[c] THEN "eoi" ELSE "dead"]
  /\ UNCHANGED <<table, ifl, task, ivec, islot, handled, rflags, apic, ghosts, bounds>>

(* interrupt_sendeoi for an interrupt, then iretq.  A task that executed   *)
(* hlt goes on.                                                            *)
IrqReturn(c) ==
  /\ ipc[c] = "eoi"
  /\ ipc' = [ipc EXCEPT ![c] = "none"]
  /\ isr' = [isr EXCEPT ![c] = @ \ {v \in {ivec[c]} : v >= FirstIrq}]
  /\ ifl' = [ifl EXCEPT ![c] = rflags[c]]
  /\ tpc' = [tpc EXCEPT ![c] = IF @ = "hlt" THEN "idle" ELSE @]
  /\ UNCHANGED <<table, lock, req, try, state, pick, ivec, islot, handled, rflags,
                 irr, ghosts, bounds>>

IrqStep(c) == Deliver(c) \/ IrqLock(c) \/ RunSlot(c) \/ IrqUnlock(c) \/ IrqReturn(c)

Next ==
  \E c \in Core :
    \/ \E r \in Requests : Call(c, r)
    \/ TaskStep(c)
    \/ \E v \in Vector : Raise(c, v) \/ Fault(c, v)
    \/ IrqStep(c)

(* A core that is not halted keeps executing.  Taking the spinlock needs   *)
(* no more than that here because the calls and interrupts are bounded.    *)
Fairness == \A c \in Core : WF_vars(TaskStep(c)) /\ WF_vars(IrqStep(c))

Spec == Init /\ [][Next]_vars

FairSpec == Spec /\ Fairness

-----------------------------------------------------------------------------
TaskPc == {"idle", "cli", "lock", "scan", "write", "unlock", "sti", "hlt"}
IrqPc  == {"none", "lock", "run", "eoi", "dead"}

TypeOK ==
  /\ funcs \in [Vector -> [Slot -> Handler \cup {NULL}]]
  /\ blocked \in [Vector -> BOOLEAN]
  /\ lock \in {Nobody} \cup (Core \X {"task", "irq"})
  /\ ifl \in [Core -> BOOLEAN]
  /\ tpc \in [Core -> TaskPc]
  /\ req \in [Core -> Requests \cup {NoRequest}]
  /\ try \in [Core -> {"fixed", "search"}]
  /\ state \in [Core -> BOOLEAN]
  /\ pick \in [Core -> Nat]
  /\ ipc \in [Core -> IrqPc]
  /\ ivec \in [Core -> Vector]
  /\ islot \in [Core -> 0 .. HandlerCnt]
  /\ handled \in [Core -> BOOLEAN]
  /\ rflags \in [Core -> BOOLEAN]
  /\ irr \in [Core -> SUBSET Vector] /\ isr \in [Core -> SUBSET Vector]
  /\ installed \in [Vector -> [Handler -> Nat]]
  /\ owners \in [Vector -> Nat]
  /\ calls \in Nat /\ raised \in Nat

(* No interrupt ever spins on a lock that the task beneath it holds:       *)
(* interrupt_registerhandler, _unregisterhandler and _allocate turn        *)
(* interrupts off before they take the lock idt_mainhandler needs, and     *)
(* turn them on only after they have released it.                          *)
NoSelfDeadlock ==
  \A c \in Core : ipc[c] # "none" => lock # <<c, "task">>

(* A vector's slots hold each handler exactly as often as it was           *)
(* registered since it was last unregistered: two cores that scan for a    *)
(* free slot never take the same one, and none is cleared by mistake.      *)
RegistrationsKept ==
  \A v \in Vector, h \in Handler :
    installed[v][h] = Cardinality({i \in Slot : funcs[v][i] = h})

(* No two exclusive reservations share a vector, also when the wished-for  *)
(* block was tried first and lost to another core, and reserved vectors    *)
(* stay reserved.                                                          *)
ExclusiveOnce ==
  \A v \in Vector : owners[v] <= 1 /\ (owners[v] = 1 => blocked[v])

(* While idt_mainhandler goes through a vector's slots no core changes     *)
(* them: each handler registered when the walk begins runs exactly once in *)
(* it, and a handler that has been unregistered never runs again.          *)
StableWalk ==
  [][\A c \in Core : ipc[c] = "run" => funcs'[ivec[c]] = funcs[ivec[c]]]_vars

(* Every call, whichever way it ends, and every interrupt gives the core   *)
(* back its interrupt flag: a task outside a call runs with interrupts on  *)
(* exactly if its core had them on at the start.                           *)
FlagRestored ==
  \A c \in Core :
    ipc[c] = "none" /\ tpc[c] \in {"idle", "hlt"} => (ifl[c] <=> c \in Enabled)

(* A core has stopped in a handler, which runs under the lock.             *)
LockLost == \E d \in Core : ipc[d] = "dead" /\ lock = <<d, "irq">>

(* Every interrupt a core takes is acknowledged to its local APIC, however *)
(* the calls of other cores compete for the lock, unless the core has      *)
(* stopped for want of a handler, or some core has stopped in one.         *)
Acknowledged ==
  \A c \in Core, v \in Vector :
    v \in isr[c] ~> v \notin isr[c] \/ ipc[c] = "dead" \/ LockLost

(* Every call of a task ends: it returns, or executes the hlt of its PANIC,*)
(* or its core has stopped in an interrupt, or some core in a handler.     *)
CallsEnd ==
  \A c \in Core :
    tpc[c] # "idle" ~> tpc[c] \in {"idle", "hlt"} \/ ipc[c] = "dead" \/ LockLost

(* The lock is held exactly by the one who is in its critical section, and *)
(* a task that wants or has it runs with interrupts off, so that nothing   *)
(* runs on top of it.                                                      *)
LockDiscipline ==
  \A c \in Core :
    /\ tpc[c] \in {"scan", "write", "unlock"} <=> lock = <<c, "task">>
    /\ ipc[c] = "run" => lock = <<c, "irq">>
    /\ tpc[c] \in {"lock", "scan", "write", "unlock", "sti"} =>
         ~ifl[c] /\ ipc[c] = "none"

(* From the cli on, state is what the sti must restore; while an interrupt *)
(* runs, rflags is, and the task beneath it is outside the two.            *)
FlagSaved ==
  \A c \in Core :
    /\ ipc[c] = "none" /\ tpc[c] \in {"idle", "cli", "hlt"} => (ifl[c] <=> c \in Enabled)
    /\ tpc[c] \in {"lock", "scan", "write", "unlock", "sti"} => (state[c] <=> c \in Enabled)
    /\ ipc[c] # "none" => (rflags[c] <=> c \in Enabled)

(* What a scan has found is still there when the write uses it.            *)
FreshPick ==
  \A c \in Core :
    tpc[c] = "write" /\ pick[c] # 0 =>
      /\ req[c].op = "register" =>
           pick[c] \in Slot /\ funcs[req[c].v][pick[c]] = NULL
      /\ req[c].op = "allocate" => Free(pick[c], req[c].cnt)

=============================================================================

------------------------- MODULE Interrupts_proofs -------------------------
(***************************************************************************)
(* What holds of the vector table, its lock and the dispatcher for any     *)
(* number of cores, vectors, slots and handlers, and for any calls,        *)
(* interrupts and exceptions.                                              *)
(***************************************************************************)
EXTENDS Interrupts, IntrFrame, Sequences, FiniteSetTheorems, WellFoundedInduction, TLAPS

(* A scan that finds something finds a member of what it looks for.        *)
LEMMA LeastMember ==
  ASSUME NEW S, S \subseteq Nat, S # {}
  PROVE  LeastOr0(S) \in S
<1> DEFINE Below(x) == {y \in S : y <= x}
           Belows   == {U \in SUBSET S : \E x \in S : U = Below(x)}
<1>1. Belows \subseteq FiniteSubsetsOf(S)
  <2> SUFFICES ASSUME NEW x \in S PROVE IsFiniteSet(Below(x))
    BY DEF FiniteSubsetsOf
  <2>1. x \in Nat /\ Below(x) \in SUBSET Nat /\ \A y \in Below(x) : y <= x
    OBVIOUS
  <2> HIDE DEF Below
  <2> QED BY <2>1, FS_BoundedSetOfNaturals
<1>2. Belows # {}
  OBVIOUS
<1>3. IsWellFoundedOn(StrictSubsetOrdering(S), FiniteSubsetsOf(S))
  BY FS_StrictSubsetOrderingWellFounded
<1>4. PICK U \in Belows : \A V \in Belows : ~(<<V, U>> \in StrictSubsetOrdering(S))
  <2> HIDE DEF Belows
  <2> QED BY <1>1, <1>2, <1>3, WFMin
<1>5. PICK x \in S : U = Below(x)
  OBVIOUS
<1>6. \A y \in S : x <= y
  <2> SUFFICES ASSUME NEW y \in S, y < x PROVE FALSE
    OBVIOUS
  <2>1. Below(y) \in Belows /\ Below(y) \subseteq U /\ Below(y) # U
    <3>1. x \in U /\ x \notin Below(y)
      BY <1>5
    <3>2. \A z \in Below(y) : z <= x
      OBVIOUS
    <3> QED BY <1>5, <3>1, <3>2
  <2> QED BY <1>4, <2>1 DEF StrictSubsetOrdering
<1> QED BY <1>6 DEF LeastOr0

(* A scan returns a number; one that is not 0 is a member.                 *)
LEMMA LeastFound ==
  ASSUME NEW S, S \subseteq Nat
  PROVE  LeastOr0(S) \in Nat /\ (LeastOr0(S) # 0 => LeastOr0(S) \in S)
<1>1. CASE S = {}
  BY <1>1 DEF LeastOr0
<1>2. CASE S # {}
  BY <1>2, LeastMember
<1> QED BY <1>1, <1>2

(* What a call holds depends on which of the three it is.                  *)
LEMMA RequestFields ==
  ASSUME NEW r \in Requests \cup {NoRequest}
  PROVE  /\ r.op \in {"register", "unregister", "allocate", "none"}
         /\ r.op \in {"register", "unregister"} => r.v \in Vector /\ r.h \in Handler
         /\ r.op = "allocate" =>
              /\ r.base \in Vector /\ r.cnt \in Nat /\ r.cnt > 0
              /\ r.base + r.cnt <= LastVector + 1
              /\ r.flags \in SUBSET {"exclusive", "fixed"}
BY RequestAssumption DEF Request, NoRequest

(* What the scan of a call finds is a slot that is free, or the first of   *)
(* a run of vectors that are, or nothing.                                  *)
LEMMA ScanFinds ==
  ASSUME TypeOK, NEW c \in Core, Scan(c), req[c].op # "none"
  PROVE  /\ pick' = [pick EXCEPT ![c] = pick'[c]] /\ pick'[c] \in Nat
         /\ pick'[c] # 0 /\ req[c].op = "register" =>
              pick'[c] \in Slot /\ funcs[req[c].v][pick'[c]] = NULL
         /\ pick'[c] # 0 /\ req[c].op = "allocate" =>
              /\ Free(pick'[c], req[c].cnt)
              /\ pick'[c] + req[c].cnt <= LastVector + 1
<1> DEFINE FreeSlots == {i \in Slot : funcs[req[c].v][i] = NULL}
           FreeRuns  == {b \in FirstIrq .. LastVector - req[c].cnt : Free(b, req[c].cnt)}
<1>0. pick \in [Core -> Nat] /\ req[c] \in Requests \cup {NoRequest} /\ try[c] \in {"fixed", "search"}
  BY DEF TypeOK
<1>1. /\ pick' = [pick EXCEPT ![c] = pick'[c]]
      /\ req[c].op = "register"   => pick'[c] = LeastOr0(FreeSlots)
      /\ req[c].op = "unregister" => pick'[c] = 0
      /\ req[c].op = "allocate" /\ try[c] = "fixed" =>
           pick'[c] = IF Free(req[c].base, req[c].cnt) THEN req[c].base ELSE 0
      /\ req[c].op = "allocate" /\ try[c] = "search" => pick'[c] = LeastOr0(FreeRuns)
  BY <1>0 DEF Scan
<1>2. CASE req[c].op = "register"
  <2>1. FreeSlots \subseteq Nat
    BY HandlerAssumption DEF Slot
  <2> HIDE DEF FreeSlots
  <2>2. pick'[c] \in Nat /\ (pick'[c] # 0 => pick'[c] \in FreeSlots)
    BY <1>1, <1>2, <2>1, LeastFound
  <2> QED BY <1>1, <1>2, <2>2 DEF FreeSlots
<1>3. CASE req[c].op = "unregister"
  BY <1>1, <1>3
<1>4. CASE req[c].op = "allocate" /\ try[c] = "fixed"
  BY <1>0, <1>1, <1>4, RequestFields DEF Vector
<1>5. CASE req[c].op = "allocate" /\ try[c] = "search"
  <2>1. req[c].cnt \in Nat /\ FreeRuns \subseteq Nat
    BY <1>0, <1>5, RequestFields, VectorAssumption
  <2> HIDE DEF FreeRuns
  <2>2. pick'[c] \in Nat /\ (pick'[c] # 0 => pick'[c] \in FreeRuns)
    BY <1>1, <1>5, <2>1, LeastFound
  <2> QED BY <1>1, <1>5, <2>1, <2>2, VectorAssumption DEF FreeRuns
<1> QED BY <1>0, <1>2, <1>3, <1>4, <1>5, RequestFields

-----------------------------------------------------------------------------
(* The types hold at the start: an empty table and idle cores.             *)
LEMMA TypeInit == Init => TypeOK
BY VectorAssumption, HandlerAssumption
   DEF Init, TypeOK, Vector, Slot, TaskPc, IrqPc, Nobody, NoRequest

(* The steps of a task's call preserve TypeOK.                             *)
LEMMA TypeTask ==
  ASSUME TypeOK, NEW c \in Core, TaskStep(c)
  PROVE  TypeOK'
<1> USE DEF table, task, irq, apic, ghosts, bounds
<1>1. CASE Cli(c)
  BY <1>1 DEF TypeOK, Cli, At, TaskPc
<1>2. CASE Lock(c)
  BY <1>2 DEF TypeOK, Lock, At, TaskPc
<1>3. CASE Scan(c)
  <2>1. /\ tpc' = [tpc EXCEPT ![c] = "write"]
        /\ UNCHANGED <<table, lock, ifl, req, try, state, irq, apic, ghosts, bounds>>
    BY <1>3 DEF Scan, At
  <2>2. pick' \in [Core -> Nat]
    <3>1. req[c].op # "none"
      BY <1>3 DEF Scan
    <3>2. pick' = [pick EXCEPT ![c] = pick'[c]] /\ pick'[c] \in Nat
      BY <1>3, <3>1, ScanFinds
    <3>3. pick \in [Core -> Nat]
      BY DEF TypeOK
    <3> QED BY <3>2, <3>3
  <2> QED BY <2>1, <2>2 DEF TypeOK, TaskPc
<1>4. CASE WriteRegister(c)
  <2>1. req[c].v \in Vector /\ req[c].h \in Handler
    BY <1>4, RequestFields DEF WriteRegister, TypeOK
  <2> DEFINE v == req[c].v
             h == req[c].h
  <2>2. funcs' \in [Vector -> [Slot -> Handler \cup {NULL}]]
    <3>1. \/ funcs' = [funcs EXCEPT ![v] = [funcs[v] EXCEPT ![pick[c]] = h]]
          \/ funcs' = funcs
      BY <1>4 DEF WriteRegister
    <3>2. [funcs[v] EXCEPT ![pick[c]] = h] \in [Slot -> Handler \cup {NULL}]
      BY <2>1 DEF TypeOK
    <3>3. funcs \in [Vector -> [Slot -> Handler \cup {NULL}]]
      BY DEF TypeOK
    <3> QED BY <2>1, <3>1, <3>2, <3>3, Zenon
  <2>3. installed' \in [Vector -> [Handler -> Nat]]
    <3>1. \/ installed' = [installed EXCEPT ![v] = [installed[v] EXCEPT ![h] = installed[v][h] + 1]]
          \/ installed' = installed
      BY <1>4 DEF WriteRegister
    <3>2. [installed[v] EXCEPT ![h] = installed[v][h] + 1] \in [Handler -> Nat]
      BY <2>1 DEF TypeOK
    <3> HIDE DEF v, h
    <3> QED BY <3>1, <3>2 DEF TypeOK
  <2> QED BY <1>4, <2>2, <2>3 DEF TypeOK, WriteRegister, At, TaskPc
<1>5. CASE WriteUnregister(c)
  <2>1. req[c].v \in Vector /\ req[c].h \in Handler
    BY <1>5, RequestFields DEF WriteUnregister, TypeOK
  <2> QED BY <1>5, <2>1 DEF TypeOK, WriteUnregister, At, TaskPc
<1>6. CASE WriteAllocate(c)
  <2> DEFINE run == pick[c] .. pick[c] + req[c].cnt - 1
  <2>1. blocked' \in [Vector -> BOOLEAN]
    <3>1. \/ blocked' = [v \in Vector |-> v \in run \/ blocked[v]]
          \/ blocked' = blocked
      BY <1>6 DEF WriteAllocate
    <3> HIDE DEF run
    <3> QED BY <3>1, Zenon DEF TypeOK
  <2>2. owners' \in [Vector -> Nat]
    <3>1. \/ owners' = [v \in Vector |-> owners[v] + IF v \in run THEN 1 ELSE 0]
          \/ owners' = owners
      BY <1>6 DEF WriteAllocate
    <3> HIDE DEF run
    <3>2. \A v \in Vector : owners[v] \in Nat /\ (owners[v] + IF v \in run THEN 1 ELSE 0) \in Nat
      BY DEF TypeOK
    <3> QED BY <3>1, <3>2 DEF TypeOK
  <2>3. /\ tpc' = [tpc EXCEPT ![c] = "unlock"]
        /\ UNCHANGED <<funcs, lock, ifl, req, try, state, pick, irq, apic,
                       installed, bounds>>
    BY <1>6 DEF WriteAllocate, At
  <2> QED BY <2>1, <2>2, <2>3 DEF TypeOK, TaskPc
<1>7. CASE Unlock(c)
  BY <1>7 DEF TypeOK, Unlock, At, TaskPc
<1>8. CASE Sti(c)
  BY <1>8 DEF TypeOK, Sti, AfterSti, At, TaskPc
<1> QED BY <1>1, <1>2, <1>3, <1>4, <1>5, <1>6, <1>7, <1>8 DEF TaskStep

(* The interrupt and exception side preserves TypeOK.                      *)
LEMMA TypeIrq ==
  ASSUME TypeOK, NEW c \in Core, IrqStep(c) \/ \E v \in Vector : Raise(c, v) \/ Fault(c, v)
  PROVE  TypeOK'
<1> USE HandlerAssumption DEF table, task, irq, apic, ghosts, bounds
<1>1. ASSUME NEW v \in Vector, Raise(c, v) PROVE TypeOK'
  BY <1>1 DEF TypeOK, Raise
<1>2. ASSUME NEW v \in Vector, Fault(c, v) PROVE TypeOK'
  BY <1>2 DEF TypeOK, Fault, Enter, IrqPc
<1>3. CASE Deliver(c)
  BY <1>3 DEF TypeOK, Deliver, Enter, IrqPc
<1>4. CASE IrqLock(c)
  BY <1>4 DEF TypeOK, IrqLock, IrqPc
<1>5. CASE RunSlot(c)
  BY <1>5 DEF TypeOK, RunSlot, IrqPc, Slot
<1>6. CASE IrqUnlock(c)
  BY <1>6 DEF TypeOK, IrqUnlock, IrqPc
<1>7. CASE IrqReturn(c)
  BY <1>7 DEF TypeOK, IrqReturn, IrqPc, TaskPc
<1> QED BY <1>1, <1>2, <1>3, <1>4, <1>5, <1>6, <1>7 DEF IrqStep

(* Every variable keeps its type, for any table, cores and requests.       *)
THEOREM TypeCorrect == Spec => []TypeOK
<1>1. TypeOK /\ [Next]_vars => TypeOK'
  <2> SUFFICES ASSUME TypeOK, [Next]_vars PROVE TypeOK'
    OBVIOUS
  <2>1. ASSUME NEW c \in Core, NEW r \in Requests, Call(c, r) PROVE TypeOK'
    BY <2>1 DEF TypeOK, Call, At, TaskPc, table, irq, apic, ghosts
  <2>2. CASE UNCHANGED vars
    BY <2>2 DEF TypeOK, vars, table, task, irq, apic, ghosts, bounds
  <2> QED BY <2>1, <2>2, TypeTask, TypeIrq DEF Next
<1> QED BY <1>1, TypeInit, PTL DEF Spec

-----------------------------------------------------------------------------
(* At the start nobody holds the lock.                                     *)
LEMMA LockInit == Init => LockDiscipline
BY DEF Init, LockDiscipline, Nobody

(* A call of a task keeps the lock's discipline.                           *)
LEMMA LockTask ==
  ASSUME TypeOK, LockDiscipline, NEW c \in Core,
         TaskStep(c) \/ \E r \in Requests : Call(c, r)
  PROVE  LockDiscipline'
<1> USE DEF At, Nobody, table, irq, apic, ghosts, bounds
<1>0. tpc \in [Core -> TaskPc] /\ ipc \in [Core -> IrqPc] /\ ifl \in [Core -> BOOLEAN]
  BY DEF TypeOK
<1>1. ASSUME NEW r \in Requests, Call(c, r) PROVE LockDiscipline'
  BY <1>0, <1>1 DEF LockDiscipline, Call
<1>2. CASE Cli(c)
  BY <1>0, <1>2 DEF LockDiscipline, Cli
<1>3. CASE Lock(c)
  BY <1>0, <1>3 DEF LockDiscipline, Lock
<1>4. CASE Scan(c)
  <2>1. tpc[c] = "scan" /\ tpc' = [tpc EXCEPT ![c] = "write"] /\ UNCHANGED <<lock, ifl, ipc>>
    BY <1>4 DEF Scan
  <2> QED BY <1>0, <2>1 DEF LockDiscipline
<1>5. CASE WriteRegister(c) \/ WriteUnregister(c) \/ WriteAllocate(c)
  <2>1. tpc[c] = "write" /\ tpc' = [tpc EXCEPT ![c] = "unlock"] /\ UNCHANGED <<lock, ifl, ipc>>
    BY <1>5 DEF WriteRegister, WriteUnregister, WriteAllocate
  <2> QED BY <1>0, <2>1 DEF LockDiscipline
<1>6. CASE Unlock(c)
  BY <1>0, <1>6 DEF LockDiscipline, Unlock
<1>7. CASE Sti(c)
  <2>1. /\ tpc[c] = "sti" /\ ipc[c] = "none"
        /\ tpc' = [tpc EXCEPT ![c] = AfterSti(c)] /\ AfterSti(c) \in {"idle", "cli", "hlt"}
        /\ ifl' = [ifl EXCEPT ![c] = ifl[c] \/ state[c]] /\ UNCHANGED <<lock, ipc>>
    BY <1>7 DEF Sti, AfterSti
  <2> QED BY <1>0, <2>1 DEF LockDiscipline
<1> QED BY <1>1, <1>2, <1>3, <1>4, <1>5, <1>6, <1>7 DEF TaskStep

(* An interrupt finds its task outside the lock, and keeps the discipline. *)
LEMMA LockIrq ==
  ASSUME TypeOK, LockDiscipline, NEW c \in Core,
         IrqStep(c) \/ \E v \in Vector : Raise(c, v) \/ Fault(c, v)
  PROVE  LockDiscipline'
<1> USE DEF Nobody, table, task, irq, apic, ghosts, bounds
<1>0. tpc \in [Core -> TaskPc] /\ ipc \in [Core -> IrqPc] /\ ifl \in [Core -> BOOLEAN]
  BY DEF TypeOK
<1>1. ASSUME NEW v \in Vector, Raise(c, v) PROVE LockDiscipline'
  BY <1>0, <1>1 DEF LockDiscipline, Raise
<1>2. CASE Deliver(c) \/ \E v \in Vector : Fault(c, v)
  <2>1. /\ tpc[c] = "idle" \/ ifl[c]
        /\ ipc' = [ipc EXCEPT ![c] = "lock"] /\ ifl' = [ifl EXCEPT ![c] = FALSE]
        /\ UNCHANGED <<lock, tpc>>
    BY <1>2 DEF Deliver, Fault, Enter
  <2> QED BY <1>0, <2>1 DEF LockDiscipline
<1>3. CASE IrqLock(c)
  BY <1>0, <1>3 DEF LockDiscipline, IrqLock
<1>4. CASE RunSlot(c)
  <2>1. /\ ipc[c] = "run" /\ UNCHANGED <<lock, tpc, ifl>>
        /\ ipc' = [ipc EXCEPT ![c] = "dead"] \/ ipc' = ipc
    BY <1>0, <1>4 DEF RunSlot
  <2> QED BY <1>0, <2>1 DEF LockDiscipline
<1>5. CASE IrqUnlock(c)
  <2>1. /\ ipc[c] = "run" /\ lock' = Nobody /\ UNCHANGED <<tpc, ifl>>
        /\ ipc' = [ipc EXCEPT ![c] = "dead"] \/ ipc' = [ipc EXCEPT ![c] = "eoi"]
    BY <1>5 DEF IrqUnlock
  <2> QED BY <1>0, <2>1 DEF LockDiscipline
<1>6. CASE IrqReturn(c)
  <2>1. /\ ipc[c] = "eoi" /\ ipc' = [ipc EXCEPT ![c] = "none"]
        /\ ifl' = [ifl EXCEPT ![c] = rflags[c]] /\ UNCHANGED lock
        /\ tpc' = [tpc EXCEPT ![c] = IF @ = "hlt" THEN "idle" ELSE @]
    BY <1>6 DEF IrqReturn
  <2> QED BY <1>0, <2>1 DEF LockDiscipline
<1> QED BY <1>1, <1>2, <1>3, <1>4, <1>5, <1>6 DEF IrqStep

(* The lock's discipline holds throughout.                                 *)
LEMMA LockCorrect == Spec => [](TypeOK /\ LockDiscipline)
<1>1. TypeOK /\ LockDiscipline /\ [Next]_vars => LockDiscipline'
  <2> SUFFICES ASSUME TypeOK, LockDiscipline, [Next]_vars PROVE LockDiscipline'
    OBVIOUS
  <2>1. CASE UNCHANGED vars
    BY <2>1 DEF LockDiscipline, vars, task, irq
  <2> QED BY <2>1, LockTask, LockIrq DEF Next
<1> QED BY <1>1, LockInit, TypeCorrect, PTL DEF Spec

(* No interrupt spins on a lock that the task beneath it holds, for any    *)
(* number of cores: the calls of idt.c turn interrupts off before they     *)
(* take the lock and on after they have released it.                       *)
THEOREM LockNotInverted == Spec => []NoSelfDeadlock
<1>1. LockDiscipline => NoSelfDeadlock
  BY DEF LockDiscipline, NoSelfDeadlock
<1> QED BY <1>1, LockCorrect, PTL

(* While a core's dispatcher goes through a vector's slots none of them    *)
(* changes, for any number of cores, slots and handlers.                   *)
THEOREM WalksStable == Spec => StableWalk
<1> DEFINE Stable == \A c \in Core : ipc[c] = "run" => funcs'[ivec[c]] = funcs[ivec[c]]
<1>1. TypeOK /\ LockDiscipline /\ [Next]_vars => [Stable]_vars
  <2> SUFFICES ASSUME TypeOK, LockDiscipline, Next, NEW d \in Core, ipc[d] = "run"
               PROVE  funcs' = funcs
    BY Zenon
  <2>1. \A c \in Core : tpc[c] # "write"
    BY DEF LockDiscipline
  <2>2. \A c \in Core : ~(WriteRegister(c) \/ WriteUnregister(c) \/ WriteAllocate(c))
    BY <2>1 DEF WriteRegister, WriteUnregister, WriteAllocate, At
  <2>3. ASSUME NEW c \in Core, TaskStep(c) PROVE funcs' = funcs
    BY <2>2, <2>3 DEF TaskStep, Cli, Lock, Scan, Unlock, Sti, table
  <2>4. ASSUME NEW c \in Core, IrqStep(c) PROVE funcs' = funcs
    BY <2>4 DEF IrqStep, Deliver, IrqLock, RunSlot, IrqUnlock, IrqReturn, table
  <2> QED BY <2>3, <2>4 DEF Next, Call, Raise, Fault, table
<1> QED BY <1>1, LockCorrect, PTL DEF StableWalk, Spec

-----------------------------------------------------------------------------
(* At the start the flag of a core is on exactly if it has executed sti(1). *)
LEMMA FlagInit == Init => FlagSaved
<1> SUFFICES ASSUME Init, NEW c \in Core
             PROVE  /\ ifl[c] <=> c \in Enabled
                    /\ tpc[c] = "idle" /\ ipc[c] = "none"
  BY DEF FlagSaved
<1>1. ifl = [d \in Core |-> d \in Enabled]
  BY DEF Init
<1>2. ifl[c] <=> c \in Enabled
  BY <1>1, Zenon
<1> QED BY <1>2 DEF Init

(* A step of one core saves and restores that core's flag only.            *)
LEMMA FlagStep ==
  ASSUME TypeOK, LockDiscipline, FlagSaved, Next
  PROVE  FlagSaved'
<1> USE DEF At, Enter, table, task, irq, apic, ghosts, bounds
<1>0. /\ tpc \in [Core -> TaskPc] /\ ipc \in [Core -> IrqPc] /\ ifl \in [Core -> BOOLEAN]
      /\ state \in [Core -> BOOLEAN] /\ rflags \in [Core -> BOOLEAN]
  BY DEF TypeOK
<1>1. PICK c \in Core : \/ \E r \in Requests : Call(c, r)
                        \/ TaskStep(c) \/ IrqStep(c)
                        \/ \E v \in Vector : Raise(c, v) \/ Fault(c, v)
  BY DEF Next
<1>2. CASE \E r \in Requests : Call(c, r)
  <2>1. /\ tpc[c] = "idle" /\ ipc[c] = "none" /\ tpc' = [tpc EXCEPT ![c] = "cli"]
        /\ UNCHANGED <<ifl, state, ipc, rflags>>
    BY <1>2 DEF Call
  <2> QED BY <1>0, <2>1 DEF FlagSaved
<1>3. CASE Cli(c)
  BY <1>0, <1>3 DEF FlagSaved, Cli
<1>4. CASE \/ Lock(c) \/ Scan(c) \/ WriteRegister(c) \/ WriteUnregister(c)
           \/ WriteAllocate(c) \/ Unlock(c)
  <2>1. /\ tpc[c] \in {"lock", "scan", "write", "unlock"}
        /\ \E to \in {"scan", "write", "unlock", "sti"} : tpc' = [tpc EXCEPT ![c] = to]
        /\ UNCHANGED <<ifl, state, ipc, rflags>>
    BY <1>4 DEF Lock, Scan, WriteRegister, WriteUnregister, WriteAllocate, Unlock
  <2> QED BY <1>0, <2>1 DEF FlagSaved
<1>5. CASE Sti(c)
  <2>1. /\ tpc[c] = "sti" /\ ipc[c] = "none"
        /\ tpc' = [tpc EXCEPT ![c] = AfterSti(c)] /\ AfterSti(c) \in {"idle", "cli", "hlt"}
        /\ ifl' = [ifl EXCEPT ![c] = ifl[c] \/ state[c]] /\ UNCHANGED <<state, ipc, rflags>>
    BY <1>5 DEF Sti, AfterSti
  <2>2. ~ifl[c]
    BY <2>1 DEF LockDiscipline
  <2>3. ifl' = [ifl EXCEPT ![c] = state[c]]
    BY <1>0, <2>1, <2>2
  <2> QED BY <1>0, <2>1, <2>3 DEF FlagSaved
<1>6. CASE \E v \in Vector : Raise(c, v)
  BY <1>0, <1>6 DEF FlagSaved, Raise
<1>7. CASE Deliver(c) \/ \E v \in Vector : Fault(c, v)
  <2>1. /\ ipc[c] = "none" /\ (tpc[c] = "idle" \/ ifl[c])
        /\ ipc' = [ipc EXCEPT ![c] = "lock"]
        /\ rflags' = [rflags EXCEPT ![c] = ifl[c]]
        /\ UNCHANGED <<tpc, state>>
        /\ ifl' = [ifl EXCEPT ![c] = FALSE]
    BY <1>7 DEF Deliver, Fault
  <2>2. tpc[c] \in {"idle", "cli", "hlt"}
    BY <1>0, <2>1 DEF LockDiscipline, TaskPc
  <2>3. ifl[c] <=> c \in Enabled
    BY <2>1, <2>2 DEF FlagSaved
  <2> QED BY <1>0, <2>1, <2>2, <2>3 DEF FlagSaved
<1>8. CASE IrqLock(c) \/ RunSlot(c) \/ IrqUnlock(c)
  <2>1. /\ ipc[c] # "none" /\ UNCHANGED <<tpc, state, ifl, rflags>>
        /\ \E to \in IrqPc \ {"none"} : ipc' = [ipc EXCEPT ![c] = to]
    BY <1>0, <1>8 DEF IrqLock, RunSlot, IrqUnlock, IrqPc
  <2> QED BY <1>0, <2>1 DEF FlagSaved
<1>9. CASE IrqReturn(c)
  <2>1. /\ ipc[c] = "eoi" /\ ipc' = [ipc EXCEPT ![c] = "none"]
        /\ ifl' = [ifl EXCEPT ![c] = rflags[c]] /\ UNCHANGED <<state, rflags>>
        /\ tpc' = [tpc EXCEPT ![c] = IF @ = "hlt" THEN "idle" ELSE @]
    BY <1>9 DEF IrqReturn
  <2>2. ASSUME NEW d \in Core, d # c
        PROVE  tpc'[d] = tpc[d] /\ ipc'[d] = ipc[d] /\ ifl'[d] = ifl[d]
    BY <1>0, <2>1, <2>2
  <2>3. /\ ifl'[c] <=> c \in Enabled
        /\ ipc'[c] = "none"
        /\ tpc'[c] \in {"lock", "scan", "write", "unlock", "sti"} => tpc'[c] = tpc[c]
    BY <1>0, <2>1 DEF FlagSaved
  <2> QED BY <2>1, <2>2, <2>3 DEF FlagSaved
<1> QED BY <1>1, <1>2, <1>3, <1>4, <1>5, <1>6, <1>7, <1>8, <1>9 DEF TaskStep, IrqStep

(* Every call and every interrupt gives the core back its interrupt flag,  *)
(* also a call that ends in a second try or in the oversubscription PANIC. *)
THEOREM FlagGivenBack == Spec => []FlagRestored
<1>1. FlagSaved => FlagRestored
  BY DEF FlagSaved, FlagRestored
<1>2. TypeOK /\ LockDiscipline /\ FlagSaved /\ [Next]_vars => FlagSaved'
  <2> SUFFICES ASSUME TypeOK, LockDiscipline, FlagSaved, [Next]_vars PROVE FlagSaved'
    OBVIOUS
  <2>1. CASE UNCHANGED vars
    BY <2>1 DEF FlagSaved, vars, task, irq
  <2> QED BY <2>1, FlagStep
<1> QED BY <1>1, <1>2, FlagInit, LockCorrect, PTL DEF Spec

-----------------------------------------------------------------------------
(* Only a core in its write step changes the table, and it leaves it.      *)
LEMMA TableStep ==
  ASSUME TypeOK, NEW c \in Core,
         \/ TaskStep(c) \/ IrqStep(c)
         \/ \E r \in Requests : Call(c, r)
         \/ \E v \in Vector : Raise(c, v) \/ Fault(c, v)
  PROVE  /\ \A d \in Core \ {c} : tpc'[d] = tpc[d] /\ req'[d] = req[d] /\ pick'[d] = pick[d]
         /\ \/ Scan(c) /\ UNCHANGED <<table, ghosts, req>>
            \/ WriteRegister(c) /\ tpc'[c] = "unlock"
            \/ WriteUnregister(c) /\ tpc'[c] = "unlock"
            \/ WriteAllocate(c) /\ tpc'[c] = "unlock"
            \/ UNCHANGED <<table, ghosts>> /\ tpc'[c] # "write"
            \/ UNCHANGED <<table, ghosts, req, pick>> /\ tpc'[c] = tpc[c]
<1> USE DEF At, table, task, irq, apic, ghosts, bounds
<1>0. tpc \in [Core -> TaskPc] /\ pick \in [Core -> Nat] /\ req \in [Core -> Requests \cup {NoRequest}]
  BY DEF TypeOK
<1>1. CASE \E r \in Requests : Call(c, r)
  BY <1>0, <1>1 DEF Call
<1>2. CASE Cli(c) \/ Lock(c) \/ Unlock(c)
  BY <1>0, <1>2 DEF Cli, Lock, Unlock
<1>3. CASE Scan(c)
  <2>1. /\ tpc' = [tpc EXCEPT ![c] = "write"] /\ \E p : pick' = [pick EXCEPT ![c] = p]
        /\ UNCHANGED <<table, ghosts, req>>
    BY <1>3 DEF Scan
  <2> QED BY <1>0, <1>3, <2>1
<1>4. CASE WriteRegister(c) \/ WriteUnregister(c) \/ WriteAllocate(c)
  <2>1. tpc' = [tpc EXCEPT ![c] = "unlock"] /\ UNCHANGED <<req, pick>>
    BY <1>4 DEF WriteRegister, WriteUnregister, WriteAllocate
  <2> QED BY <1>0, <1>4, <2>1
<1>5. CASE Sti(c)
  <2>1. /\ tpc' = [tpc EXCEPT ![c] = AfterSti(c)] /\ AfterSti(c) \in {"idle", "cli", "hlt"}
        /\ UNCHANGED <<table, ghosts, req, pick>>
    BY <1>5 DEF Sti, AfterSti
  <2> QED BY <1>0, <2>1
<1>6. CASE \E v \in Vector : Raise(c, v) \/ Fault(c, v)
  BY <1>6 DEF Raise, Fault, Enter
<1>7. CASE Deliver(c) \/ IrqLock(c) \/ RunSlot(c) \/ IrqUnlock(c)
  BY <1>7 DEF Deliver, Enter, IrqLock, RunSlot, IrqUnlock
<1>8. CASE IrqReturn(c)
  <2>1. /\ tpc' = [tpc EXCEPT ![c] = IF @ = "hlt" THEN "idle" ELSE @]
        /\ UNCHANGED <<table, ghosts, req, pick>>
    BY <1>8 DEF IrqReturn
  <2> QED BY <1>0, <2>1
<1> QED BY <1>1, <1>2, <1>3, <1>4, <1>5, <1>6, <1>7, <1>8 DEF TaskStep, IrqStep

(* What a scan found is still so when it is written: the lock is held from *)
(* the one to the other.                                                   *)
LEMMA FreshStep ==
  ASSUME TypeOK, LockDiscipline, FreshPick, Next
  PROVE  FreshPick'
<1>1. PICK c \in Core : \/ TaskStep(c) \/ IrqStep(c)
                        \/ \E r \in Requests : Call(c, r)
                        \/ \E v \in Vector : Raise(c, v) \/ Fault(c, v)
  BY DEF Next
<1> DEFINE Fresh(d) ==
      tpc[d] = "write" /\ pick[d] # 0 =>
        /\ req[d].op = "register" =>
             pick[d] \in Slot /\ funcs[req[d].v][pick[d]] = NULL
        /\ req[d].op = "allocate" => Free(pick[d], req[d].cnt)
<1>2. ASSUME NEW d \in Core \ {c} PROVE Fresh(d)'
  <2> SUFFICES ASSUME tpc'[d] = "write" PROVE Fresh(d)'
    OBVIOUS
  <2>1. tpc[d] = "write" /\ req'[d] = req[d] /\ pick'[d] = pick[d]
    BY <1>1, TableStep
  <2>2. tpc[c] # "write"
    BY <2>1 DEF LockDiscipline
  <2>3. UNCHANGED table
    BY <1>1, <2>2, TableStep DEF WriteRegister, WriteUnregister, WriteAllocate, At
  <2> QED BY <2>1, <2>3 DEF FreshPick, Free, table
<1>3. Fresh(c)'
  <2>1. CASE Scan(c)
    <3>1. UNCHANGED <<table, req>> /\ req[c].op # "none"
      BY <2>1 DEF Scan
    <3> QED BY <2>1, <3>1, ScanFinds DEF Free, table
  <2>2. CASE tpc'[c] # "write"
    BY <2>2
  <2>3. CASE UNCHANGED <<table, req, pick>> /\ tpc'[c] = tpc[c]
    BY <2>3 DEF FreshPick, Free, table
  <2> QED BY <1>1, <2>1, <2>2, <2>3, TableStep
<1> QED BY <1>2, <1>3 DEF FreshPick

(* Each handler is in as many slots as it has registrations.               *)
LEMMA RegistrationsStep ==
  ASSUME TypeOK, FreshPick, RegistrationsKept, Next
  PROVE  RegistrationsKept'
<1> DEFINE In(v, h) == {i \in Slot : funcs[v][i] = h}
<1>0. \A v \in Vector, h \in Handler : IsFiniteSet(In(v, h)) /\ In(v, h) \subseteq Slot
  <2> SUFFICES ASSUME NEW v \in Vector, NEW h \in Handler PROVE IsFiniteSet(In(v, h))
    OBVIOUS
  <2>1. IsFiniteSet(Slot)
    BY FS_Interval, HandlerAssumption DEF Slot
  <2> QED BY <2>1, FS_Subset
<1>1. CASE UNCHANGED <<table, ghosts>>
  BY <1>1 DEF RegistrationsKept, table, ghosts
<1>2. ASSUME NEW c \in Core, WriteRegister(c), pick[c] # 0 PROVE RegistrationsKept'
  <2> DEFINE w == req[c].v
             g == req[c].h
             p == pick[c]
  <2>1. /\ w \in Vector /\ g \in Handler /\ p \in Slot /\ funcs[w][p] = NULL
        /\ funcs' = [funcs EXCEPT ![w] = [funcs[w] EXCEPT ![p] = g]]
        /\ installed' = [installed EXCEPT ![w] = [installed[w] EXCEPT ![g] = @ + 1]]
    BY <1>2, RequestFields DEF WriteRegister, At, FreshPick, TypeOK
  <2>2. funcs \in [Vector -> [Slot -> Handler \cup {NULL}]] /\ installed \in [Vector -> [Handler -> Nat]]
    BY DEF TypeOK
  <2> SUFFICES ASSUME NEW v \in Vector, NEW h \in Handler
               PROVE  installed'[v][h] = Cardinality(In(v, h)')
    BY DEF RegistrationsKept
  <2> HIDE DEF w, g, p
  <2>3. CASE v = w /\ h = g
    <3>1. In(v, h)' = In(v, h) \cup {p} /\ p \notin In(v, h)
      BY <2>1, <2>2, <2>3, HandlerAssumption
    <3>2. installed'[v][h] = installed[v][h] + 1
      BY <2>1, <2>2, <2>3
    <3> HIDE DEF In
    <3>3. Cardinality(In(v, h)') = Cardinality(In(v, h)) + 1
      BY <1>0, <3>1, FS_AddElement
    <3> QED BY <3>2, <3>3 DEF RegistrationsKept, In
  <2>4. CASE ~(v = w /\ h = g)
    <3>1. In(v, h)' = In(v, h)
      BY <2>1, <2>2, <2>4, HandlerAssumption
    <3>2. installed'[v][h] = installed[v][h]
      BY <2>1, <2>2, <2>4
    <3> QED BY <3>1, <3>2 DEF RegistrationsKept
  <2> QED BY <2>3, <2>4
<1>3. ASSUME NEW c \in Core, WriteUnregister(c) PROVE RegistrationsKept'
  <2> DEFINE w == req[c].v
             g == req[c].h
  <2>1. /\ w \in Vector /\ g \in Handler
        /\ funcs' = [funcs EXCEPT ![w] = [i \in Slot |-> IF funcs[w][i] = g THEN NULL ELSE funcs[w][i]]]
        /\ installed' = [installed EXCEPT ![w] = [installed[w] EXCEPT ![g] = 0]]
    BY <1>3, RequestFields DEF WriteUnregister, TypeOK
  <2>2. funcs \in [Vector -> [Slot -> Handler \cup {NULL}]] /\ installed \in [Vector -> [Handler -> Nat]]
    BY DEF TypeOK
  <2> SUFFICES ASSUME NEW v \in Vector, NEW h \in Handler
               PROVE  installed'[v][h] = Cardinality(In(v, h)')
    BY DEF RegistrationsKept
  <2> HIDE DEF w, g
  <2>3. CASE v = w /\ h = g
    <3>1. In(v, h)' = {} /\ installed'[v][h] = 0
      BY <2>1, <2>2, <2>3, HandlerAssumption
    <3> QED BY <3>1, FS_EmptySet
  <2>4. CASE ~(v = w /\ h = g)
    <3>1. In(v, h)' = In(v, h)
      BY <2>1, <2>2, <2>4, HandlerAssumption
    <3>2. installed'[v][h] = installed[v][h]
      BY <2>1, <2>2, <2>4
    <3> QED BY <3>1, <3>2 DEF RegistrationsKept
  <2> QED BY <2>3, <2>4
<1>4. ASSUME NEW c \in Core, WriteAllocate(c) \/ (WriteRegister(c) /\ pick[c] = 0)
      PROVE RegistrationsKept'
  BY <1>4 DEF WriteAllocate, WriteRegister, RegistrationsKept
<1> QED BY <1>1, <1>2, <1>3, <1>4, TableStep DEF Next

(* A reservation is of vectors that nobody has reserved.                   *)
LEMMA ExclusiveStep ==
  ASSUME TypeOK, FreshPick, ExclusiveOnce, Next
  PROVE  ExclusiveOnce'
<1>1. CASE UNCHANGED <<blocked, owners>>
  BY <1>1 DEF ExclusiveOnce
<1>2. ASSUME NEW c \in Core, WriteAllocate(c), ~UNCHANGED <<blocked, owners>>
      PROVE ExclusiveOnce'
  <2> DEFINE run == pick[c] .. pick[c] + req[c].cnt - 1
  <2>1. /\ blocked' = [v \in Vector |-> v \in run \/ blocked[v]]
        /\ owners' = [v \in Vector |-> owners[v] + IF v \in run THEN 1 ELSE 0]
        /\ pick[c] # 0 /\ req[c].op = "allocate" /\ tpc[c] = "write"
    BY <1>2 DEF WriteAllocate, At
  <2>2. \A v \in run : ~blocked[v]
    BY <2>1 DEF FreshPick, Free
  <2> HIDE DEF run
  <2> SUFFICES ASSUME NEW v \in Vector
               PROVE  owners'[v] <= 1 /\ (owners'[v] = 1 => blocked'[v])
    BY DEF ExclusiveOnce
  <2>3. owners[v] \in Nat /\ owners[v] <= 1 /\ (owners[v] = 1 => blocked[v])
    BY DEF ExclusiveOnce, TypeOK
  <2>4. owners'[v] = owners[v] + IF v \in run THEN 1 ELSE 0
    BY <2>1
  <2>5. blocked'[v] <=> v \in run \/ blocked[v]
    BY <2>1, Zenon
  <2>6. v \in run => ~blocked[v]
    BY <2>2
  <2> QED BY <2>3, <2>4, <2>5, <2>6
<1>3. ASSUME NEW c \in Core, WriteRegister(c) \/ WriteUnregister(c)
      PROVE UNCHANGED <<blocked, owners>>
  BY <1>3 DEF WriteRegister, WriteUnregister
<1> QED BY <1>1, <1>2, <1>3, TableStep DEF Next, table, ghosts

(* At the start the table is empty and nothing is reserved.                *)
LEMMA TableInit == Init => FreshPick /\ RegistrationsKept /\ ExclusiveOnce
<1> SUFFICES ASSUME Init PROVE FreshPick /\ RegistrationsKept /\ ExclusiveOnce
  OBVIOUS
<1>1. FreshPick /\ ExclusiveOnce
  BY DEF Init, FreshPick, ExclusiveOnce
<1>2. ASSUME NEW v \in Vector, NEW h \in Handler PROVE {i \in Slot : funcs[v][i] = h} = {}
  BY HandlerAssumption DEF Init
<1>3. RegistrationsKept
  BY <1>2, FS_EmptySet DEF RegistrationsKept, Init
<1> QED BY <1>1, <1>3

(* What a scan has found is still so when it is written, because nobody    *)
(* else writes while the lock is held.                                     *)
LEMMA PicksFresh == Spec => [](TypeOK /\ LockDiscipline /\ FreshPick)
<1>1. TypeOK /\ LockDiscipline /\ FreshPick /\ [Next]_vars => FreshPick'
  <2> SUFFICES ASSUME TypeOK, LockDiscipline, FreshPick, UNCHANGED vars PROVE FreshPick'
    BY FreshStep
  <2> QED BY DEF FreshPick, Free, vars, table, task
<1> QED BY <1>1, TableInit, LockCorrect, PTL DEF Spec

(* A vector's slots hold each handler as often as it is registered, for    *)
(* any number of cores, vectors and slots.                                 *)
THEOREM RegistrationsCorrect == Spec => []RegistrationsKept
<1>1. TypeOK /\ FreshPick /\ RegistrationsKept /\ [Next]_vars => RegistrationsKept'
  <2> SUFFICES ASSUME RegistrationsKept, UNCHANGED vars PROVE RegistrationsKept'
    BY RegistrationsStep
  <2> QED BY DEF RegistrationsKept, vars, table, ghosts
<1> QED BY <1>1, TableInit, PicksFresh, PTL DEF Spec

(* No two exclusive reservations share a vector, for any number of cores   *)
(* that ask for any blocks, first for one they wish and then for any.      *)
THEOREM ReservationsExclusive == Spec => []ExclusiveOnce
<1>1. TypeOK /\ FreshPick /\ ExclusiveOnce /\ [Next]_vars => ExclusiveOnce'
  <2> SUFFICES ASSUME ExclusiveOnce, UNCHANGED vars PROVE ExclusiveOnce'
    BY ExclusiveStep
  <2> QED BY DEF ExclusiveOnce, vars, table, ghosts
<1> QED BY <1>1, TableInit, PicksFresh, PTL DEF Spec

-----------------------------------------------------------------------------
(* The way into and out of an interrupt.                                   *)

(* The 23 words of regs_t, by their places from the top of the stack: 20   *)
(* of them hold registers.                                                 *)
Places == (2 .. 16) \cup (19 .. 23)

LEMMA RegsFact ==
  /\ Len(Entry!Regs) = 23
  /\ \A i, j \in 1 .. 23 : Entry!Regs[i] = Entry!Regs[j] => i = j
  /\ Entry!Regs[17] = "int_no"
  /\ \A i \in 1 .. 23 : Entry!Regs[i] # "skip"
BY SMTT(60) DEF Entry!Regs

LEMMA RegisterFact == \A r : r \in Entry!Register <=> \E i \in Places : Entry!Regs[i] = r
BY SMTT(60) DEF Places, Entry!Register, Entry!General, Entry!Frame, Entry!ToSet, Entry!Regs

(* What is pushed, and what is popped, is at these places.                 *)
LEMMA PushedFact ==
  /\ Len(Entry!Pushed) = 14 /\ Len(Entry!Frame) = 5
  /\ \A i \in 2 .. 15 : Entry!Pushed[16 - i] = Entry!Regs[i]
  /\ \A i \in 19 .. 23 : Entry!Frame[24 - i] = Entry!Regs[i]
  /\ Entry!Regs[16] = "rax"
BY SMTT(60) DEF Entry!Pushed, Entry!Frame, Entry!Regs

Order == Entry!Popped \o <<"skip", "skip">> \o Entry!Reverse(Entry!Frame)

LEMMA OrderFact ==
  /\ Len(Order) = 23
  /\ \A i \in Places : Order[i] = Entry!Regs[i]
  /\ Order[1] = Entry!Regs[10] /\ Order[17] = "skip" /\ Order[18] = "skip"
BY SMTT(60) DEF Order, Places, Entry!Popped, Entry!Frame, Entry!Reverse, Entry!Regs

LEMMA AtFact ==
  ASSUME NEW i \in 1 .. 23, Len(stack) = 23
  PROVE  Entry!At(Entry!Regs[i]) = 24 - i
<1> DEFINE p == CHOOSE j \in 1 .. Len(Entry!Regs) : Entry!Regs[j] = Entry!Regs[i]
<1>1. p \in 1 .. 23 /\ Entry!Regs[p] = Entry!Regs[i]
  BY RegsFact
<1>2. p = i
  BY <1>1, RegsFact
<1> HIDE DEF p
<1>3. Entry!At(Entry!Regs[i]) = Len(stack) + 1 - p
  BY DEF Entry!At, p
<1> QED BY <1>2, <1>3

Last(r) == CHOOSE i \in 1 .. Len(Order) :
             Order[i] = r /\ \A j \in i + 1 .. Len(Order) : Order[j] # r

LEMMA LastFact ==
  ASSUME NEW i \in Places
  PROVE  Last(Entry!Regs[i]) = i
<1>1. i \in 1 .. 23 /\ Order[i] = Entry!Regs[i]
  BY OrderFact DEF Places
<1>2. \A j \in 1 .. 23 : Order[j] = Entry!Regs[i] => j = i \/ (j = 1 /\ i = 10)
  <2> SUFFICES ASSUME NEW j \in 1 .. 23, Order[j] = Entry!Regs[i]
               PROVE  j = i \/ (j = 1 /\ i = 10)
    OBVIOUS
  <2>1. CASE j \in Places
    BY <1>1, <2>1, OrderFact, RegsFact
  <2>2. CASE j = 1
    BY <1>1, <2>2, OrderFact, RegsFact
  <2>3. CASE j = 17 \/ j = 18
    BY <1>1, <2>3, OrderFact, RegsFact
  <2> QED BY <2>1, <2>2, <2>3 DEF Places
<1>3. Order[i] = Entry!Regs[i] /\ \A j \in i + 1 .. 23 : Order[j] # Entry!Regs[i]
  BY <1>1, <1>2
<1>4. \A k \in 1 .. 23 : (\A j \in k + 1 .. 23 : Order[j] # Entry!Regs[i]) => k >= i
  BY <1>1
<1>5. Last(Entry!Regs[i]) \in 1 .. 23 /\ Order[Last(Entry!Regs[i])] = Entry!Regs[i]
      /\ \A j \in Last(Entry!Regs[i]) + 1 .. 23 : Order[j] # Entry!Regs[i]
  BY <1>1, <1>3, OrderFact DEF Last
<1> QED BY <1>1, <1>2, <1>4, <1>5

(* What a thread's registers hold are numbers.                             *)
LEMMA RegistersType ==
  /\ \A t \in Thread : Entry!DefaultState(t) \in [Entry!Register -> Int]
  /\ \A t \in Thread, g \in {0, 1} : Entry!Working(t, g) \in [Entry!Register -> Int]
<1>1. \A t \in Thread : t \in Nat
  BY EntryAssumption DEF Entry!Possible
<1>2. \A t \in Thread : Entry!DefaultState(t) \in [Entry!Register -> Int]
  BY <1>1 DEF Entry!DefaultState
<1>3. ASSUME NEW t \in Thread, NEW g \in {0, 1}
      PROVE  Entry!Working(t, g) \in [Entry!Register -> Int]
  <2> DEFINE names == Entry!General \o Entry!Frame
  <2>1. ASSUME NEW r \in Entry!Register
        PROVE  (CHOOSE i \in 1 .. 20 : names[i] = r) \in Int
    <3>1. PICK i \in 1 .. 20 : names[i] = r
      <4>1. Entry!Register = {names[i] : i \in DOMAIN names}
        BY DEF Entry!Register, Entry!ToSet
      <4>2. DOMAIN names = 1 .. 20
        BY DEF Entry!General, Entry!Frame
      <4> QED BY <4>1, <4>2
    <3> HIDE DEF names
    <3> QED BY <3>1
  <2>2. \A r \in Entry!Register :
          100 * (2 * t + g + 50) + (CHOOSE i \in 1 .. 20 : names[i] = r) \in Int
    <3> HIDE DEF names
    <3> QED BY <1>1, <2>1
  <2> QED BY <2>2 DEF Entry!Working
<1> QED BY <1>2, <1>3

(* Sequence c is a, of n elements, with b, of m elements, behind it.       *)
Joins(c, a, b, n, m) ==
  /\ c \in Seq(Int) /\ Len(c) = n + m
  /\ \A i \in 1 .. n : c[i] = a[i]
  /\ \A i \in n + 1 .. n + m : c[i] = b[i - n]

(* One sequence put behind another, element by element.                    *)
LEMMA Joined ==
  ASSUME NEW a \in Seq(Int), NEW b \in Seq(Int),
         NEW n \in Nat, NEW m \in Nat, Len(a) = n, Len(b) = m
  PROVE  \A c : c = a \o b => Joins(c, a, b, n, m)
<1>1. a \o b \in Seq(Int)
  OBVIOUS
<1>2. Len(a \o b) = n + m
  OBVIOUS
<1>3. ASSUME NEW i \in 1 .. n PROVE (a \o b)[i] = a[i]
  <2>1. i \in 1 .. Len(a) + Len(b) /\ i <= Len(a)
    OBVIOUS
  <2> QED BY <2>1
<1>4. ASSUME NEW i \in n + 1 .. n + m PROVE (a \o b)[i] = b[i - n]
  <2>1. i \in 1 .. Len(a) + Len(b) /\ ~(i <= Len(a)) /\ i - n = i - Len(a)
    OBVIOUS
  <2>2. (a \o b)[i] = b[i - Len(a)]
    BY <2>1
  <2> QED BY <2>1, <2>2
<1>5. SUFFICES ASSUME NEW c, c = a \o b PROVE Joins(c, a, b, n, m)
  OBVIOUS
<1>6. c \in Seq(Int) /\ Len(c) = n + m
  BY <1>1, <1>2, <1>5
<1>7. ASSUME NEW i \in 1 .. n PROVE c[i] = a[i]
  BY <1>3, <1>5
<1>8. ASSUME NEW i \in n + 1 .. n + m PROVE c[i] = b[i - n]
  BY <1>4, <1>5
<1> QED BY <1>6, <1>7, <1>8 DEF Joins

LEMMA Elements ==
  ASSUME NEW s \in Seq(Int), NEW n \in Nat, Len(s) = n
  PROVE  DOMAIN s = 1 .. n /\ \A k \in 1 .. n : s[k] \in Int
<1>1. DOMAIN s = 1 .. n
  OBVIOUS
<1>2. ASSUME NEW k \in 1 .. n PROVE s[k] \in Int
  <2>1. k \in 1 .. Len(s)
    OBVIOUS
  <2> QED BY <2>1
<1> QED BY <1>1, <1>2

(* The words under the saved registers, and the registers a thread has.    *)
Pushes == IF vector \in Entry!WithErrorCode THEN 6 ELSE 5

Saves(regs) == /\ stack \in Seq(Int) /\ Len(stack) = 23
               /\ \A i \in Places : stack[24 - i] = regs[Entry!Regs[i]]

FrameInv ==
  /\ step \in {"run", "stub", "save", "main", "restore"}
  /\ running \in Thread /\ vector \in Raised \cup {0}
  /\ own \in [Thread -> [Entry!Register -> Int]]
  /\ saved \in [Thread -> [Entry!Register -> Int]]
  /\ \A t \in Thread : t # running => saved[t] = own[t]
  /\ step = "run"  => cpu = own[running] /\ stack = << >>
  /\ step = "stub" =>
       /\ cpu = own[running] /\ stack \in Seq(Int) /\ Len(stack) = Pushes
       /\ vector \in Raised
       /\ \A i \in 1 .. 5 : stack[i] = own[running][Entry!Frame[i]]
  /\ step = "save" =>
       /\ cpu \in [Entry!Register -> Int] /\ stack \in Seq(Int) /\ Len(stack) = 8
       /\ \A i \in 1 .. 5 : stack[i] = own[running][Entry!Frame[i]]
       /\ stack[7] = Entry!Extended(vector) /\ stack[8] = own[running]["rax"]
       /\ \A r \in Entry!Register : r # "rax" => cpu[r] = own[running][r]
  /\ step = "main" => Saves(own[running]) /\ stack[7] = Entry!Extended(vector)
  /\ step = "restore" => Saves(own[running]) /\ int_no = vector

LEMMA InitFrame == Entry!Init => FrameInv
<1> SUFFICES ASSUME Entry!Init PROVE FrameInv
  OBVIOUS
<1>1. 0 \in Thread
  BY EntryAssumption DEF Entry!Possible
<1>2. /\ own \in [Thread -> [Entry!Register -> Int]]
      /\ saved \in [Thread -> [Entry!Register -> Int]]
      /\ \A t \in Thread : t # 0 => saved[t] = own[t]
  BY RegistersType DEF Entry!Init
<1> QED BY <1>1, <1>2 DEF Entry!Init, FrameInv

LEMMA RaiseFrame ==
  ASSUME FrameInv, NEW v \in Raised, NEW g \in {0, 1}, Entry!Raise(v, g)
  PROVE  FrameInv'
<1> DEFINE now == Entry!Working(running, g)
           F   == [i \in 1 .. 5 |-> now[Entry!Frame[i]]]
           E   == IF v \in Entry!WithErrorCode THEN <<77>> ELSE << >>
<1>1. running \in Thread /\ now \in [Entry!Register -> Int]
  BY RegistersType DEF FrameInv
<1>2. \A i \in 1 .. 5 : Entry!Frame[i] \in Entry!Register
  <2>1. \A i \in 1 .. 5 : 24 - i \in 19 .. 23 /\ i = 24 - (24 - i)
    OBVIOUS
  <2>2. \A j \in 19 .. 23 : Entry!Frame[24 - j] \in Entry!Register
    BY PushedFact, RegisterFact DEF Places
  <2>3. ASSUME NEW i \in 1 .. 5 PROVE Entry!Frame[i] \in Entry!Register
    <3>1. Entry!Frame[24 - (24 - i)] \in Entry!Register
      BY <2>1, <2>2
    <3> QED BY <2>1, <3>1
  <2> QED BY <2>3
<1>3. step' = "stub" /\ vector' = v /\ cpu' = now /\ own' = [own EXCEPT ![running] = now]
      /\ stack' = F \o E /\ running' = running /\ saved' = saved
  BY PushedFact DEF Entry!Raise
<1> HIDE DEF now
<1>4. F \in Seq(Int) /\ Len(F) = 5 /\ E \in Seq(Int)
      /\ Len(E) = IF v \in Entry!WithErrorCode THEN 1 ELSE 0
  <2>1. \A i \in 1 .. 5 : now[Entry!Frame[i]] \in Int
    BY <1>1, <1>2
  <2> QED BY <2>1
<1>5. stack' \in Seq(Int) /\ Len(stack') = Pushes' /\ \A i \in 1 .. 5 : stack'[i] = F[i]
  <2> HIDE DEF F, E
  <2>1. PICK e \in {0, 1} : e = Len(E) /\ 5 + e = Pushes'
    BY <1>3, <1>4 DEF Pushes
  <2>2. Joins(stack', F, E, 5, e)
    BY <1>3, <1>4, <2>1, Joined
  <2> QED BY <2>1, <2>2 DEF Joins
<1>6. own' \in [Thread -> [Entry!Register -> Int]] /\ own'[running] = now
      /\ \A t \in Thread : t # running => own'[t] = own[t]
  BY <1>1, <1>3 DEF FrameInv
<1>7. \A i \in 1 .. 5 : stack'[i] = own'[running'][Entry!Frame[i]]
  BY <1>3, <1>5, <1>6
<1> HIDE DEF F, E
<1> QED BY <1>1, <1>3, <1>5, <1>6, <1>7 DEF FrameInv

LEMMA StubFrame == FrameInv /\ Entry!Stub => FrameInv'
<1> SUFFICES ASSUME FrameInv, Entry!Stub PROVE FrameInv'
  OBVIOUS
<1> DEFINE E == IF Entry!PushesDummy(vector) THEN <<1>> ELSE << >>
           T == <<Entry!Extended(vector), cpu["rax"]>>
<1>1. /\ cpu = own[running] /\ stack \in Seq(Int) /\ Len(stack) = Pushes
      /\ vector \in Raised /\ \A i \in 1 .. 5 : stack[i] = own[running][Entry!Frame[i]]
      /\ cpu \in [Entry!Register -> Int]
  BY DEF FrameInv, Entry!Stub
<1>2. vector \in 0 .. 255 \ {17, 21, 29, 30}
  BY <1>1, EntryAssumption DEF Entry!Possible
<1>3. "rax" \in Entry!Register
  BY PushedFact, RegisterFact DEF Places
<1>4. T \in Seq(Int) /\ Len(T) = 2 /\ T[1] = Entry!Extended(vector) /\ T[2] = cpu["rax"]
  <2>1. Entry!Extended(vector) \in Int /\ cpu["rax"] \in Int
    BY <1>1, <1>2, <1>3 DEF Entry!Extended
  <2> QED BY <2>1
<1>5. E \in Seq(Int) /\ Len(E) = IF Entry!PushesDummy(vector) THEN 1 ELSE 0
  OBVIOUS
<1>6. Len(stack) \in {5, 6} /\ Len(stack) + Len(E) = 6
  BY <1>1, <1>2, <1>5 DEF Pushes, Entry!WithErrorCode, Entry!PushesDummy
<1>7. step' = "save" /\ stack' = stack \o E \o T /\ cpu' = [cpu EXCEPT !["rax"] = -1000]
      /\ UNCHANGED <<vector, int_no, running, saved, own>>
  BY DEF Entry!Stub
<1> HIDE DEF E, T
<1>8. stack' \in Seq(Int) /\ Len(stack') = 8
      /\ stack'[7] = T[1] /\ stack'[8] = T[2] /\ \A i \in 1 .. 5 : stack'[i] = stack[i]
  <2>1. PICK n \in {5, 6}, e \in {0, 1} : Len(stack) = n /\ Len(E) = e /\ n + e = 6
    <3>1. Len(E) \in {0, 1}
      BY <1>5
    <3> QED BY <1>6, <3>1
  <2>2. PICK m : m = stack \o E
    OBVIOUS
  <2>3. Joins(m, stack, E, n, e)
    <3>1. n \in Nat /\ e \in Nat /\ Len(stack) = n /\ Len(E) = e
      BY <2>1
    <3> QED BY <1>1, <1>5, <2>2, <3>1, Joined
  <2>4. m \in Seq(Int) /\ Len(m) = 6 /\ \A i \in 1 .. 5 : m[i] = stack[i]
    BY <2>1, <2>3 DEF Joins
  <2>5. Joins(stack', m, T, 6, 2)
    BY <1>4, <1>7, <2>2, <2>4, Joined
  <2> QED BY <2>4, <2>5 DEF Joins
<1>9. cpu' \in [Entry!Register -> Int]
      /\ \A r \in Entry!Register : r # "rax" => cpu'[r] = own[running][r]
  <2> DEFINE z == -1000
  <2>1. cpu' = [cpu EXCEPT !["rax"] = z] /\ z \in Int
    BY <1>7
  <2> HIDE DEF z
  <2>2. cpu \in [Entry!Register -> Int] /\ cpu = own[running]
    BY <1>1
  <2>3. cpu' \in [Entry!Register -> Int]
    BY <2>1, <2>2
  <2>4. \A r \in Entry!Register : r # "rax" => cpu'[r] = cpu[r]
    BY <2>1, <2>2
  <2> QED BY <2>2, <2>3, <2>4
<1>10. \A i \in 1 .. 5 : stack'[i] = own[running][Entry!Frame[i]]
  BY <1>1, <1>8
<1>11. stack'[7] = Entry!Extended(vector') /\ stack'[8] = own[running]["rax"]
  BY <1>1, <1>4, <1>7, <1>8
<1>12. step' = "save" /\ UNCHANGED <<vector, running, saved, own>>
  BY <1>7
<1> QED BY <1>8, <1>9, <1>10, <1>11, <1>12 DEF FrameInv

LEMMA SaveFrame == FrameInv /\ Entry!Save => FrameInv'
<1> SUFFICES ASSUME FrameInv, Entry!Save PROVE FrameInv'
  OBVIOUS
<1> DEFINE P == [i \in 1 .. 14 |-> cpu[Entry!Pushed[i]]]
<1>1. /\ cpu \in [Entry!Register -> Int] /\ stack \in Seq(Int) /\ Len(stack) = 8
      /\ \A i \in 1 .. 5 : stack[i] = own[running][Entry!Frame[i]]
      /\ stack[7] = Entry!Extended(vector) /\ stack[8] = own[running]["rax"]
      /\ \A r \in Entry!Register : r # "rax" => cpu[r] = own[running][r]
  BY DEF FrameInv, Entry!Save
<1>2. ASSUME NEW i \in 2 .. 15
      PROVE  /\ 16 - i \in 1 .. 14 /\ Entry!Pushed[16 - i] = Entry!Regs[i]
             /\ Entry!Regs[i] \in Entry!Register /\ Entry!Regs[i] # "rax"
  BY PushedFact, RegisterFact, RegsFact DEF Places
<1>3. \A k \in 1 .. 14 : Entry!Pushed[k] \in Entry!Register
  <2> SUFFICES ASSUME NEW k \in 1 .. 14 PROVE Entry!Pushed[k] \in Entry!Register
    OBVIOUS
  <2>1. PICK i \in 2 .. 15 : i = 16 - k /\ k = 16 - i
    OBVIOUS
  <2> QED BY <1>2, <2>1
<1>4. P \in Seq(Int) /\ Len(P) = 14
  <2>1. \A k \in 1 .. 14 : cpu[Entry!Pushed[k]] \in Int
    BY <1>1, <1>3
  <2> QED BY <2>1
<1>5. step' = "main" /\ stack' = stack \o P \o <<0>>
      /\ UNCHANGED <<cpu, vector, int_no, running, saved, own>>
  BY PushedFact DEF Entry!Save
<1>6. stack' \in Seq(Int) /\ Len(stack') = 23 /\ (\A i \in 1 .. 8 : stack'[i] = stack[i])
      /\ \A i \in 9 .. 22 : stack'[i] = P[i - 8]
  <2> HIDE DEF P
  <2>1. PICK m : m = stack \o P
    OBVIOUS
  <2>2. Joins(m, stack, P, 8, 14)
    BY <1>1, <1>4, <2>1, Joined
  <2>3. /\ m \in Seq(Int) /\ Len(m) = 22
        /\ \A i \in 1 .. 8 : m[i] = stack[i]
        /\ \A i \in 9 .. 22 : m[i] = P[i - 8]
    BY <2>2 DEF Joins
  <2>4. PICK z : z = <<0>>
    OBVIOUS
  <2>5. z \in Seq(Int) /\ Len(z) = 1
    BY <2>4
  <2>6. stack' = m \o z
    BY <1>5, <2>1, <2>4
  <2>7. Joins(stack', m, z, 22, 1)
    BY <2>3, <2>5, <2>6, Joined
  <2>8. stack' \in Seq(Int) /\ Len(stack') = 23 /\ \A i \in 1 .. 22 : stack'[i] = m[i]
    BY <2>7 DEF Joins
  <2> QED BY <2>3, <2>8
<1>7. ASSUME NEW i \in Places PROVE stack'[24 - i] = own[running][Entry!Regs[i]]
  <2>1. CASE i \in 2 .. 15
    <3>1. 24 - i \in 9 .. 22 /\ (24 - i) - 8 = 16 - i
      BY <2>1
    <3>2. stack'[24 - i] = P[(24 - i) - 8]
      <4> HIDE DEF P
      <4> QED BY <1>6, <3>1
    <3>3. P[16 - i] = cpu[Entry!Regs[i]]
      BY <1>2, <2>1
    <3>4. cpu[Entry!Regs[i]] = own[running][Entry!Regs[i]]
      BY <1>1, <1>2, <2>1
    <3> HIDE DEF P
    <3> QED BY <3>1, <3>2, <3>3, <3>4
  <2>2. CASE i = 16
    BY <1>1, <1>6, <2>2, PushedFact
  <2>3. CASE i \in 19 .. 23
    <3>1. 24 - i \in 1 .. 5 /\ 24 - i \in 1 .. 8
      BY <2>3
    <3>2. stack'[24 - i] = own[running][Entry!Frame[24 - i]]
      BY <1>1, <1>6, <3>1
    <3> QED BY <2>3, <3>2, PushedFact
  <2> QED BY <2>1, <2>2, <2>3 DEF Places
<1>8. Saves(own[running])' /\ stack'[7] = Entry!Extended(vector')
  <2>1. own' = own /\ running' = running /\ vector' = vector
    BY <1>5
  <2>2. \A i \in Places : stack'[24 - i] = own'[running'][Entry!Regs[i]]
    BY <1>7, <2>1
  <2>3. stack'[7] = Entry!Extended(vector')
    BY <1>1, <1>6, <2>1
  <2> QED BY <1>6, <2>2, <2>3 DEF Saves
<1> QED BY <1>5, <1>8 DEF FrameInv

(* What the handlers are called for, and the words of regs_t when they     *)
(* have returned.                                                          *)
LEMMA MainFrame ==
  ASSUME FrameInv, NEW next \in Thread, Entry!MainHandler(next)
  PROVE  FrameInv'
<1> DEFINE words == [stack EXCEPT ![7] = int_no']
<1>1. /\ stack \in Seq(Int) /\ Len(stack) = 23 /\ stack[7] = Entry!Extended(vector)
      /\ \A i \in Places : stack[24 - i] = own[running][Entry!Regs[i]]
  BY DEF FrameInv, Entry!MainHandler, Saves
<1>2. Entry!At("int_no") = 7
  <2>1. Entry!At(Entry!Regs[17]) = 24 - 17
    BY <1>1, AtFact
  <2> QED BY <2>1, RegsFact
<1>3. \A i \in Places : Entry!At(Entry!Regs[i]) = 24 - i
  <2> SUFFICES ASSUME NEW i \in Places PROVE Entry!At(Entry!Regs[i]) = 24 - i
    OBVIOUS
  <2>1. i \in 1 .. 23
    BY DEF Places
  <2> QED BY <1>1, <2>1, AtFact
<1>4. vector \in 0 .. 255
  <2>1. 0 \in 0 .. 255 /\ Raised \subseteq 0 .. 255
    BY EntryAssumption DEF Entry!Possible
  <2> QED BY <2>1 DEF FrameInv
<1>5. int_no' = vector
  <2>1. int_no' = stack[7] % 256
    BY <1>2 DEF Entry!MainHandler, Entry!Vector
  <2>2. stack[7] = IF vector > 127 THEN vector - 256 ELSE vector
    BY <1>1 DEF Entry!Extended
  <2> QED BY <1>4, <2>1, <2>2
<1>6. words \in Seq(Int) /\ Len(words) = 23
      /\ \A i \in Places : words[24 - i] = stack[24 - i]
  <2>1. int_no' \in Int
    BY <1>4, <1>5
  <2>2. DOMAIN stack = 1 .. 23 /\ \A k \in 1 .. 23 : stack[k] \in Int
    <3>1. stack \in Seq(Int) /\ Len(stack) = 23
      BY <1>1
    <3> QED BY <3>1, Elements
  <2>3. words = [k \in 1 .. 23 |-> IF k = 7 THEN int_no' ELSE stack[k]]
    BY <2>2
  <2>4. \A k \in 1 .. 23 : (IF k = 7 THEN int_no' ELSE stack[k]) \in Int
    BY <2>1, <2>2
  <2>5. \A i \in Places : 24 - i \in 1 .. 23 /\ 24 - i # 7
    BY DEF Places
  <2> HIDE DEF words
  <2>6. words \in Seq(Int) /\ Len(words) = 23
    BY <2>3, <2>4
  <2>7. \A i \in Places : words[24 - i] = stack[24 - i]
    BY <2>3, <2>5
  <2> QED BY <2>6, <2>7
<1>7. step' = "restore" /\ running' = next /\ vector' = vector /\ own' = own
  BY DEF Entry!MainHandler
<1>8. CASE next = running
  <2>1. stack' = words /\ saved' = saved
    BY <1>2, <1>8 DEF Entry!MainHandler
  <2>2. \A i \in Places : stack'[24 - i] = own'[running'][Entry!Regs[i]]
    BY <1>1, <1>6, <1>7, <1>8, <2>1
  <2>3. Saves(own[running])'
    BY <1>6, <2>1, <2>2 DEF Saves
  <2> QED BY <1>5, <1>7, <1>8, <2>1, <2>3 DEF FrameInv
<1>9. CASE next # running
  <2>1. /\ saved' = [saved EXCEPT ![running] = Entry!GetRegisterState]
        /\ stack' = Entry!SetRegisterState(words, saved[next])
    BY <1>2, <1>9 DEF Entry!MainHandler
  <2> HIDE DEF words
  <2>2. Entry!GetRegisterState = own[running]
    <3>1. ASSUME NEW r \in Entry!Register PROVE stack[Entry!At(r)] = own[running][r]
      <4>1. PICK i \in Places : Entry!Regs[i] = r
        BY RegisterFact
      <4> QED BY <1>1, <1>3, <4>1
    <3>2. own[running] \in [Entry!Register -> Int]
      BY DEF FrameInv
    <3> QED BY <3>1, <3>2 DEF Entry!GetRegisterState
  <2>3. saved' \in [Thread -> [Entry!Register -> Int]]
        /\ \A t \in Thread : t # next => saved'[t] = own[t]
    BY <1>9, <2>1, <2>2 DEF FrameInv
  <2>4. saved[next] = own[next] /\ saved[next] \in [Entry!Register -> Int]
    BY <1>9 DEF FrameInv
  <2> DEFINE set(i) ==
        IF \E r \in Entry!Register : Entry!At(r) = i
          THEN saved[next][CHOOSE r \in Entry!Register : Entry!At(r) = i] ELSE words[i]
  <2>5. stack' = [i \in 1 .. 23 |-> set(i)]
    BY <1>6, <2>1 DEF Entry!SetRegisterState
  <2>6. ASSUME NEW i \in Places PROVE set(24 - i) = saved[next][Entry!Regs[i]]
    <3>1. Entry!Regs[i] \in Entry!Register /\ Entry!At(Entry!Regs[i]) = 24 - i
      BY <1>3, RegisterFact
    <3>2. ASSUME NEW r \in Entry!Register, Entry!At(r) = 24 - i PROVE r = Entry!Regs[i]
      <4>1. PICK j \in Places : Entry!Regs[j] = r
        BY RegisterFact
      <4>2. 24 - j = 24 - i
        BY <1>3, <3>2, <4>1
      <4>3. i = j
        BY <4>2 DEF Places
      <4> QED BY <4>1, <4>3
    <3>3. (CHOOSE r \in Entry!Register : Entry!At(r) = 24 - i) = Entry!Regs[i]
      BY <3>1, <3>2
    <3> QED BY <3>1, <3>3
  <2>7. ASSUME NEW i \in 1 .. 23 PROVE set(i) \in Int
    <3>1. CASE \E r \in Entry!Register : Entry!At(r) = i
      <4>1. PICK r \in Entry!Register : r = CHOOSE q \in Entry!Register : Entry!At(q) = i
        BY <3>1
      <4>2. set(i) = saved[next][r]
        BY <3>1, <4>1
      <4> HIDE DEF set
      <4> QED BY <2>4, <4>2
    <3>2. CASE ~ \E r \in Entry!Register : Entry!At(r) = i
      <4>1. set(i) = words[i]
        BY <3>2
      <4> HIDE DEF set
      <4>2. words[i] \in Int
        <5>1. words \in Seq(Int) /\ Len(words) = 23
          BY <1>6
        <5> QED BY <5>1, Elements
      <4> QED BY <4>1, <4>2
    <3> QED BY <3>1, <3>2
  <2> HIDE DEF set
  <2>8. stack' \in Seq(Int) /\ Len(stack') = 23
    BY <2>5, <2>7
  <2>9. \A i \in Places : stack'[24 - i] = own'[running'][Entry!Regs[i]]
    <3>1. \A i \in Places : 24 - i \in 1 .. 23
      BY DEF Places
    <3> QED BY <1>7, <2>4, <2>5, <2>6, <3>1
  <2>10. Saves(own[running])'
    BY <2>8, <2>9 DEF Saves
  <2> QED BY <1>5, <1>7, <2>3, <2>10 DEF FrameInv
<1> QED BY <1>8, <1>9

(* Each register comes back from the place it was saved at, also rdi,      *)
(* which is popped twice.                                                  *)
LEMMA RestoreFrame == FrameInv /\ Entry!Restore => FrameInv'
<1> SUFFICES ASSUME FrameInv, Entry!Restore PROVE FrameInv'
  OBVIOUS
<1>1. /\ stack \in Seq(Int) /\ Len(stack) = 23 /\ own[running] \in [Entry!Register -> Int]
      /\ \A i \in Places : stack[24 - i] = own[running][Entry!Regs[i]]
  BY DEF FrameInv, Entry!Restore, Saves
<1>2. /\ step' = "run" /\ UNCHANGED <<vector, int_no, running, saved, own>>
      /\ cpu' = [r \in Entry!Register |-> stack[Len(stack) + 1 - Last(r)]]
      /\ stack' = SubSeq(stack, 1, Len(stack) - Len(Order))
  BY DEF Entry!Restore, Order, Last
<1>3. stack' = << >>
  <2>1. Len(stack) - Len(Order) = 0
    BY <1>1, OrderFact
  <2>2. SubSeq(stack, 1, 0) \in Seq(Int) /\ Len(SubSeq(stack, 1, 0)) = 0
    BY <1>1
  <2>3. stack' = SubSeq(stack, 1, 0)
    BY <1>2, <2>1
  <2>4. stack' \in Seq(Int) /\ Len(stack') = 0
    BY <2>2, <2>3
  <2> QED BY <2>4
<1>4. ASSUME NEW r \in Entry!Register PROVE stack[Len(stack) + 1 - Last(r)] = own[running][r]
  <2>1. PICK i \in Places : Entry!Regs[i] = r
    BY RegisterFact
  <2>2. Last(r) = i
    BY <2>1, LastFact
  <2>3. Len(stack) + 1 - Last(r) = 24 - i
    BY <1>1, <2>2 DEF Places
  <2> QED BY <1>1, <2>1, <2>3
<1>5. cpu' = own[running]
  <2>1. own[running] \in [Entry!Register -> Int]
    BY <1>1
  <2>2. cpu' = [r \in Entry!Register |-> own[running][r]]
    BY <1>2, <1>4
  <2> QED BY <2>1, <2>2
<1> QED BY <1>2, <1>3, <1>5 DEF FrameInv

(* Whatever vectors are raised, with or without an error code, and         *)
(* whatever threads the handlers change to: the handlers are called for    *)
(* the vector that was raised, and a thread goes on with every register as *)
(* it was when it was interrupted, on the stack that it had                *)
(* (idt_mainhandler and the stubs and pops around it).                     *)
THEOREM FramesRestored == Entry!Spec => []FrameRestored
<1>1. Entry!Init => FrameInv
  BY InitFrame
<1>2. FrameInv /\ [Entry!Next]_(Entry!evars) => FrameInv'
  <2> SUFFICES ASSUME FrameInv, [Entry!Next]_(Entry!evars) PROVE FrameInv'
    OBVIOUS
  <2>1. ASSUME NEW v \in Raised, NEW g \in {0, 1}, Entry!Raise(v, g) PROVE FrameInv'
    BY <2>1, RaiseFrame
  <2>2. CASE Entry!Stub
    BY <2>2, StubFrame
  <2>3. CASE Entry!Save
    BY <2>3, SaveFrame
  <2>4. ASSUME NEW t \in Thread, Entry!MainHandler(t) PROVE FrameInv'
    BY <2>4, MainFrame
  <2>5. CASE Entry!Restore
    BY <2>5, RestoreFrame
  <2>6. CASE UNCHANGED Entry!evars
    BY <2>6 DEF FrameInv, Saves, Pushes, Entry!evars
  <2> QED BY <2>1, <2>2, <2>3, <2>4, <2>5, <2>6 DEF Entry!Next
<1>3. FrameInv => FrameRestored
  BY DEF FrameInv, FrameRestored, Entry!FrameRestored
<1> QED BY <1>1, <1>2, <1>3, PTL DEF Entry!Spec

=============================================================================

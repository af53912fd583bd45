-------------------------------- MODULE Heap --------------------------------
(***************************************************************************)
(* The boot heap, kernel/src/bootstrap_malloc.c: one position in a static  *)
(* area, behind a spinlock, that malloc moves up and bootstrap_free moves  *)
(* down again if the block is the last one.  malloc and bootstrap_malloc   *)
(* are the same because no handler is ever installed; for the same reason  *)
(* free does nothing.                                                      *)
(***************************************************************************)
EXTENDS Integers

CONSTANTS
  Caller,
  AreaSize,   \* BOOTSTRAP_ALLOC_AREA_SIZE, in bytes
  Sizes       \* the sizes asked for; of 0 bytes there is no block

(* No size is so large that the sum with a position wraps at 2^64.         *)
ASSUME AreaAssumption == AreaSize \in Nat
ASSUME SizesAssumption == Sizes \subseteq Nat \ {0}

VARIABLES
  bootstrap_alloc_pos, bootstrap_alloc_lock,
  held,      \* the blocks each caller holds: [addr, size]
  hpc,       \* the step each caller is about to take
  call,      \* the call it is in: [op, addr, size]
  mem        \* what its test found: an address, or NULL

heap == <<bootstrap_alloc_pos, bootstrap_alloc_lock>>
hvars == <<heap, held, hpc, call, mem>>

NULL == -1

A == INSTANCE Allocator

Align(s) == ((s + 15) \div 16) * 16

NoCall == [op |-> "none", addr |-> 0, size |-> 0]

Init ==
  /\ bootstrap_alloc_pos = 0
  /\ bootstrap_alloc_lock = FALSE
  /\ held = [c \in Caller |-> {}]
  /\ hpc = [c \in Caller |-> "idle"]
  /\ call = [c \in Caller |-> NoCall]
  /\ mem = [c \in Caller |-> NULL]

Goto(c, from, to) == hpc[c] = from /\ hpc' = [hpc EXCEPT ![c] = to]

MallocCall(c, s) ==
  /\ Goto(c, "idle", "lock")
  /\ call' = [call EXCEPT ![c] = [op |-> "malloc", addr |-> 0, size |-> s]]
  /\ UNCHANGED <<heap, held, mem>>

(* A caller frees a block it holds, with the size it asked for.            *)
FreeCall(c, b) ==
  /\ Goto(c, "idle", "lock")
  /\ call' = [call EXCEPT ![c] = [op |-> "free", addr |-> b.addr, size |-> b.size]]
  /\ held' = [held EXCEPT ![c] = @ \ {b}]
  /\ UNCHANGED <<heap, mem>>

(* Mutant of Lock: it does not wait.                                       *)
Lock_Barging(c) ==
  /\ Goto(c, "lock", "test")
  /\ bootstrap_alloc_lock' = TRUE
  /\ UNCHANGED <<bootstrap_alloc_pos, held, call, mem>>

Lock(c) ==
  /\ Goto(c, "lock", "test")
  /\ ~bootstrap_alloc_lock /\ bootstrap_alloc_lock' = TRUE
  /\ UNCHANGED <<bootstrap_alloc_pos, held, call, mem>>

(* bootstrap_malloc leaves at least the last byte of the area; the first   *)
(* block is never given back.                                              *)
Test(c) ==
  LET s     == Align(call[c].size)
      pos   == bootstrap_alloc_pos
      found == IF call[c].op = "malloc"
                 THEN IF pos + s < AreaSize THEN pos ELSE NULL
                 ELSE IF pos > s /\ pos - s = call[c].addr THEN pos - s ELSE NULL
  IN  /\ Goto(c, "test", "move")
      /\ mem' = [mem EXCEPT ![c] = found]
      /\ UNCHANGED <<heap, held, call>>

Move(c) ==
  LET s == Align(call[c].size)
  IN  /\ Goto(c, "move", "unlock")
      /\ bootstrap_alloc_pos' =
           IF mem[c] = NULL THEN bootstrap_alloc_pos
           ELSE IF call[c].op = "malloc" THEN bootstrap_alloc_pos + s
           ELSE bootstrap_alloc_pos - s
      /\ UNCHANGED <<bootstrap_alloc_lock, held, call, mem>>

Unlock(c) ==
  /\ Goto(c, "unlock", "idle")
  /\ bootstrap_alloc_lock' = FALSE
  /\ held' = IF call[c].op = "malloc" /\ mem[c] # NULL
               THEN [held EXCEPT ![c] = @ \cup {[addr |-> mem[c], size |-> call[c].size]}]
               ELSE held
  /\ call' = [call EXCEPT ![c] = NoCall]
  /\ mem' = [mem EXCEPT ![c] = NULL]
  /\ UNCHANGED bootstrap_alloc_pos

Next ==
  \E c \in Caller :
    \/ \E s \in Sizes : MallocCall(c, s)
    \/ \E b \in held[c] : FreeCall(c, b)
    \/ Lock(c) \/ Test(c) \/ Move(c) \/ Unlock(c)

Spec == Init /\ [][Next]_hvars

-----------------------------------------------------------------------------
(* The boot heap is an allocator (Allocator.tla), whoever calls malloc and *)
(* bootstrap_free at the same time and in whatever order the blocks are    *)
(* given back, although it keeps nothing but one position.                 *)
Allocates == A!Spec

(* The block a caller's call is about: on its way out of the heap until    *)
(* the position says so, or on its way in from then on.                    *)
Flight(c) ==
  IF \/ call[c].op = "free" /\ hpc[c] \in {"lock", "test", "move"}
     \/ call[c].op = "malloc" /\ hpc[c] = "unlock" /\ mem[c] # NULL
    THEN {[addr |-> IF call[c].op = "free" THEN call[c].addr ELSE mem[c],
           size |-> call[c].size]}
    ELSE {}

Mine(c) == held[c] \cup Flight(c)

Beside(b, d) == b.addr + Align(b.size) <= d.addr \/ d.addr + Align(d.size) <= b.addr

HeapType ==
  /\ bootstrap_alloc_pos \in 0 .. AreaSize
  /\ bootstrap_alloc_lock \in BOOLEAN
  /\ held \in [Caller -> SUBSET [addr : Nat, size : Sizes]]
  /\ hpc \in [Caller -> {"idle", "lock", "test", "move", "unlock"}]
  /\ call \in [Caller -> {NoCall} \cup [op : {"malloc", "free"}, addr : Nat, size : Sizes]]
  /\ mem \in [Caller -> Nat \cup {NULL}]
  /\ \A c \in Caller : hpc[c] # "idle" => call[c] # NoCall

(* One caller at a time is past the lock, and what it found still holds    *)
(* when it moves the position.                                             *)
HeapLock ==
  /\ \A c \in Caller : hpc[c] \in {"test", "move", "unlock"} =>
       /\ bootstrap_alloc_lock
       /\ \A d \in Caller : hpc[d] \in {"test", "move", "unlock"} => c = d
  /\ \A c \in Caller : hpc[c] = "move" /\ mem[c] # NULL =>
       IF call[c].op = "malloc"
         THEN /\ mem[c] = bootstrap_alloc_pos
              /\ mem[c] + Align(call[c].size) < AreaSize
         ELSE /\ mem[c] = call[c].addr
              /\ bootstrap_alloc_pos = mem[c] + Align(call[c].size)

(* The blocks lie below the position, beside each other.                   *)
HeapBlocks ==
  /\ \A c \in Caller : Flight(c) \cap held[c] = {}
  /\ \A c \in Caller : \A b \in Mine(c) : b.addr + Align(b.size) <= bootstrap_alloc_pos
  /\ \A c, d \in Caller : \A b \in Mine(c), e \in Mine(d) :
       (c = d /\ b = e) \/ Beside(b, e)

HeapInv == HeapType /\ HeapLock /\ HeapBlocks

=============================================================================

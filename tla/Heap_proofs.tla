---------------------------- MODULE Heap_proofs ----------------------------
(***************************************************************************)
(* The boot heap implements Allocator for any callers, any size of the     *)
(* area and any sizes asked for.  The argument is HeapInv of Heap: under   *)
(* the lock nobody else moves the position, and every block that is held,  *)
(* or is on its way in or out, lies below it beside every other.           *)
(***************************************************************************)
EXTENDS Heap, TLAPS

(* Rounding up keeps a size at least what it was.                          *)
LEMMA AlignFact == \A s \in Sizes : Align(s) \in Nat /\ s <= Align(s) /\ 0 < Align(s)
BY SizesAssumption DEF Align

(* The heap starts empty and in order.                                     *)
LEMMA InitHeap == Init => HeapInv
<1> SUFFICES ASSUME Init PROVE HeapInv
  OBVIOUS
<1>1. HeapType
  <2>1. bootstrap_alloc_pos \in 0 .. AreaSize
    BY AreaAssumption DEF Init
  <2>2. held \in [Caller -> SUBSET [addr : Nat, size : Sizes]]
    BY DEF Init
  <2>3. call \in [Caller -> {NoCall} \cup [op : {"malloc", "free"}, addr : Nat, size : Sizes]]
    BY DEF Init
  <2>4. mem \in [Caller -> Nat \cup {NULL}]
    BY DEF Init
  <2> QED
    BY <2>1, <2>2, <2>3, <2>4 DEF Init, HeapType
<1>2. HeapLock
  BY DEF Init, HeapLock
<1>3. \A c \in Caller : Flight(c) = {} /\ Mine(c) = {}
  BY DEF Init, Flight, Mine, NoCall
<1> QED
  BY <1>1, <1>2, <1>3 DEF HeapInv, HeapBlocks

(* A step that leaves the position alone and gives nobody a block keeps    *)
(* the blocks in order.                                                    *)
LEMMA BlocksKept ==
  ASSUME HeapBlocks, UNCHANGED bootstrap_alloc_pos,
         \A c \in Caller : Mine(c)' \subseteq Mine(c) /\ Flight(c)' \cap held'[c] = {}
  PROVE  HeapBlocks'
<1>1. \A c \in Caller : (Flight(c) \cap held[c] = {})'
  OBVIOUS
<1>2. \A c \in Caller : \A b \in Mine(c)' : b.addr + Align(b.size) <= bootstrap_alloc_pos'
  BY DEF HeapBlocks
<1>3. \A c, d \in Caller : \A b \in Mine(c)', e \in Mine(d)' : (c = d /\ b = e) \/ Beside(b, e)
  BY DEF HeapBlocks
<1> QED
  BY <1>1, <1>2, <1>3 DEF HeapBlocks, Beside, Align

(* Every step keeps the heap in order: one step per action, and under it   *)
(* what each of the three parts loses by it.                               *)
LEMMA StepHeap == HeapInv /\ [Next]_hvars => HeapInv'
<1> SUFFICES ASSUME HeapInv, [Next]_hvars PROVE HeapInv'
  OBVIOUS
<1> USE DEF HeapInv
<1>1. ASSUME NEW c \in Caller, NEW s \in Sizes, MallocCall(c, s) PROVE HeapInv'
  <2>1. HeapType'
    BY <1>1 DEF MallocCall, Goto, HeapType, NoCall, heap
  <2>2. HeapLock'
    BY <1>1 DEF MallocCall, Goto, HeapType, HeapLock, heap
  <2>3. \A d \in Caller : Flight(d)' \subseteq Flight(d)
    BY <1>1 DEF MallocCall, Goto, HeapType, Flight, heap
  <2>4. HeapBlocks'
    BY <1>1, <2>3, BlocksKept DEF MallocCall, Mine, HeapBlocks, heap
  <2> QED
    BY <2>1, <2>2, <2>4
<1>2. ASSUME NEW c \in Caller, NEW b \in held[c], FreeCall(c, b) PROVE HeapInv'
  <2>0. b \in [addr : Nat, size : Sizes] /\ b = [addr |-> b.addr, size |-> b.size]
    BY DEF HeapType
  <2>1. HeapType'
    BY <1>2, <2>0 DEF FreeCall, Goto, HeapType, NoCall, heap
  <2>2. HeapLock'
    BY <1>2 DEF FreeCall, Goto, HeapType, HeapLock, heap
  <2>3. Flight(c)' = {b} /\ held'[c] = held[c] \ {b}
    BY <1>2, <2>0 DEF FreeCall, Goto, HeapType, Flight, heap
  <2>4. \A d \in Caller : d # c => Flight(d)' = Flight(d) /\ held'[d] = held[d]
    BY <1>2 DEF FreeCall, Goto, HeapType, Flight, heap
  <2>5. HeapBlocks'
    BY <1>2, <2>3, <2>4, BlocksKept DEF FreeCall, Mine, HeapBlocks, heap
  <2> QED
    BY <2>1, <2>2, <2>5
<1>3. ASSUME NEW c \in Caller, Lock(c) PROVE HeapInv'
  <2>1. HeapType'
    BY <1>3 DEF Lock, Goto, HeapType
  <2>2. HeapLock'
    BY <1>3 DEF Lock, Goto, HeapType, HeapLock
  <2>3. \A d \in Caller : Flight(d)' = Flight(d)
    BY <1>3 DEF Lock, Goto, HeapType, Flight
  <2>4. HeapBlocks'
    BY <1>3, <2>3, BlocksKept DEF Lock, Mine, HeapBlocks
  <2> QED
    BY <2>1, <2>2, <2>4
<1>4. ASSUME NEW c \in Caller, Test(c) PROVE HeapInv'
  <2>0. call[c] # NoCall => call[c].size \in Sizes /\ call[c].op \in {"malloc", "free"}
    BY DEF HeapType
  <2>a. call[c].size \in Sizes /\ Align(call[c].size) \in Nat
    BY <1>4, <2>0, AlignFact DEF Test, Goto, HeapType
  <2>1. HeapType'
    BY <1>4, <2>a DEF Test, Goto, HeapType, NULL, heap
  <2>2. HeapLock'
    BY <1>4, <2>a, AreaAssumption DEF Test, Goto, HeapType, HeapLock, NULL, heap
  <2>3. \A d \in Caller : Flight(d)' = Flight(d)
    BY <1>4, <2>0 DEF Test, Goto, HeapType, Flight, heap
  <2>4. HeapBlocks'
    BY <1>4, <2>3, BlocksKept DEF Test, Mine, HeapBlocks, heap
  <2> QED
    BY <2>1, <2>2, <2>4
<1>5. ASSUME NEW c \in Caller, Move(c) PROVE HeapInv'
  <2> DEFINE s == Align(call[c].size)
             pos == bootstrap_alloc_pos
             new == [addr |-> mem[c], size |-> call[c].size]
  <2>0. call[c] # NoCall /\ call[c].size \in Sizes /\ call[c].op \in {"malloc", "free"}
    BY <1>5 DEF Move, Goto, HeapType
  <2>a. s \in Nat /\ 0 < s
    BY <2>0, AlignFact
  <2>b. hpc[c] = "move" /\ pos \in Nat
    BY <1>5 DEF Move, Goto, HeapType
  <2>c. mem[c] # NULL =>
          IF call[c].op = "malloc" THEN mem[c] = pos /\ mem[c] + s < AreaSize
          ELSE mem[c] = call[c].addr /\ pos = mem[c] + s
    BY <2>b DEF HeapLock
  <2>d. pos' = IF mem[c] = NULL THEN pos ELSE IF call[c].op = "malloc" THEN pos + s ELSE pos - s
    BY <1>5 DEF Move
  <2>e. pos' \in 0 .. AreaSize
    BY <2>0, <2>a, <2>b, <2>c, <2>d, AreaAssumption DEF HeapType
  <2>1. HeapType'
    BY <1>5, <2>e DEF Move, Goto, HeapType
  <2>f. \A d \in Caller : hpc'[d] = "move" => FALSE
    BY <1>5, <2>b DEF Move, Goto, HeapType, HeapLock
  <2>2. HeapLock'
    BY <1>5, <2>f DEF Move, Goto, HeapType, HeapLock
  <2>3. UNCHANGED <<held, call, mem>> /\ hpc' = [hpc EXCEPT ![c] = "unlock"]
    BY <1>5 DEF Move, Goto
  <2>4. \A d \in Caller : d # c => Flight(d)' = Flight(d) /\ Mine(d)' = Mine(d)
    BY <2>3 DEF HeapType, Flight, Mine
  <2>5. CASE mem[c] = NULL
    <3>1. Flight(c)' \subseteq Flight(c)
      BY <2>0, <2>3, <2>b, <2>5 DEF HeapType, Flight
    <3> QED
      BY <2>1, <2>2, <2>3, <2>4, <2>d, <2>5, <3>1, BlocksKept DEF Mine, HeapBlocks
  <2>6. CASE mem[c] # NULL /\ call[c].op = "malloc"
    <3>1. Flight(c) = {} /\ Flight(c)' = {new}
      BY <2>3, <2>b, <2>6 DEF HeapType, Flight
    <3>2. new.addr = pos /\ new.addr + Align(new.size) = pos' /\ pos <= pos'
      BY <2>6, <2>a, <2>b, <2>c, <2>d
    <3>3. \A d \in Caller : \A b \in Mine(d) :
            /\ b.addr \in Nat /\ Align(b.size) \in Nat /\ 0 < Align(b.size)
            /\ b.addr + Align(b.size) <= pos
      <4>1. \A d \in Caller : \A b \in Mine(d) : b.addr \in Nat /\ b.size \in Sizes
        BY DEF HeapType, Mine, Flight, NULL, NoCall
      <4> QED
        BY <4>1, AlignFact DEF HeapBlocks
    <3>4. \A d \in Caller : \A b \in Mine(d) : b # new /\ Beside(b, new) /\ Beside(new, b)
      BY <3>2, <3>3, <2>b DEF Beside
    <3>5. Mine(c)' = Mine(c) \cup {new} /\ held'[c] = held[c]
      BY <3>1, <2>3 DEF Mine
    <3>6. \A d \in Caller : (Flight(d) \cap held[d] = {})'
      BY <2>3, <2>4, <3>1, <3>4 DEF HeapBlocks, Mine
    <3>7. \A d \in Caller : \A b \in Mine(d)' : b.addr + Align(b.size) <= pos'
      <4>1. ASSUME NEW d \in Caller, NEW b \in Mine(d)' PROVE b = new \/ b \in Mine(d)
        BY <4>1, <2>4, <3>5
      <4> HIDE DEF new, pos
      <4>2. pos \in Nat /\ pos' \in Int
        BY <2>b, <2>e, AreaAssumption DEF pos
      <4> QED
        BY <3>2, <3>3, <4>1, <4>2
    <3>8. \A d, f \in Caller : \A b \in Mine(d)', e \in Mine(f)' :
            (d = f /\ b = e) \/ Beside(b, e)
      <4>1. \A d \in Caller : Mine(d)' = Mine(d) \/ (d = c /\ Mine(d)' = Mine(d) \cup {new})
        BY <2>4, <3>5
      <4> HIDE DEF new
      <4> QED
        BY <4>1, <3>4 DEF HeapBlocks
    <3>9. HeapBlocks'
      BY <3>6, <3>7, <3>8 DEF HeapBlocks, Beside, Align
    <3> QED
      BY <2>1, <2>2, <3>9
  <2>7. CASE mem[c] # NULL /\ call[c].op = "free"
    <3> DEFINE old == [addr |-> call[c].addr, size |-> call[c].size]
    <3>1. Flight(c) = {old} /\ Flight(c)' = {}
      BY <2>3, <2>b, <2>7 DEF HeapType, Flight
    <3>2. old \in Mine(c) /\ Mine(c)' = held[c] /\ old \notin held[c]
      BY <3>1, <2>3 DEF Mine, HeapBlocks
    <3>3. old.addr = pos' /\ old.addr + Align(old.size) = pos
      BY <2>7, <2>a, <2>b, <2>c, <2>d DEF HeapType, NULL
    <3>4. ASSUME NEW d \in Caller, NEW b \in Mine(d)'
          PROVE  b \in Mine(d) /\ b.addr \in Nat /\ b.size \in Sizes /\ (d # c \/ b # old)
      <4>1. b \in Mine(d) /\ (d # c \/ b # old)
        BY <2>4, <3>2 DEF Mine
      <4> QED
        BY <4>1 DEF HeapType, Mine, Flight, NULL, NoCall
    <3>5. \A d \in Caller : \A b \in Mine(d)' : b.addr + Align(b.size) <= pos'
      <4> SUFFICES ASSUME NEW d \in Caller, NEW b \in Mine(d)'
                   PROVE  b.addr + Align(b.size) <= pos'
        OBVIOUS
      <4>1. Beside(b, old)
        BY <3>2, <3>4 DEF HeapBlocks
      <4>2. b.addr + Align(b.size) <= pos
        BY <3>4 DEF HeapBlocks
      <4>3. Align(b.size) \in Nat /\ 0 < Align(b.size) /\ b.addr \in Nat
        BY <3>4, AlignFact
      <4> HIDE DEF old, pos
      <4>4. pos \in Nat
        BY <2>b DEF pos
      <4> QED
        BY <4>1, <4>2, <4>3, <4>4, <3>3 DEF Beside
    <3>6. \A d \in Caller : (Flight(d) \cap held[d] = {})'
      BY <2>3, <2>4, <3>1 DEF HeapBlocks
    <3>7. \A d, f \in Caller : \A b \in Mine(d)', e \in Mine(f)' :
            (d = f /\ b = e) \/ Beside(b, e)
      BY <3>4 DEF HeapBlocks
    <3>8. HeapBlocks'
      BY <3>5, <3>6, <3>7 DEF HeapBlocks, Beside, Align
    <3> QED
      BY <2>1, <2>2, <3>8
  <2> QED
    BY <2>0, <2>5, <2>6, <2>7
<1>6. ASSUME NEW c \in Caller, Unlock(c) PROVE HeapInv'
  <2> DEFINE new == [addr |-> mem[c], size |-> call[c].size]
  <2>0. call[c].size \in Sizes /\ call[c].op \in {"malloc", "free"} /\ hpc[c] = "unlock"
    BY <1>6 DEF Unlock, Goto, HeapType
  <2>1. HeapType'
    <3>1. mem[c] # NULL => new \in [addr : Nat, size : Sizes]
      BY <2>0 DEF HeapType
    <3>2. held' \in [Caller -> SUBSET [addr : Nat, size : Sizes]]
      BY <1>6, <3>1 DEF Unlock, HeapType
    <3>3. call' = [call EXCEPT ![c] = NoCall] /\ hpc' = [hpc EXCEPT ![c] = "idle"]
      BY <1>6 DEF Unlock, Goto
    <3>4. call' \in [Caller -> {NoCall} \cup [op : {"malloc", "free"}, addr : Nat, size : Sizes]]
      BY <3>3 DEF HeapType
    <3>5. \A d \in Caller : hpc'[d] # "idle" => call'[d] # NoCall
      BY <3>3 DEF HeapType
    <3> QED
      BY <1>6, <3>2, <3>3, <3>4, <3>5 DEF Unlock, HeapType
  <2>2. HeapLock'
    BY <1>6 DEF Unlock, Goto, HeapType, HeapLock
  <2>3. Flight(c)' = {} /\ held'[c] \subseteq Mine(c)
    BY <1>6, <2>0 DEF Unlock, Goto, HeapType, Flight, Mine, NoCall, NULL
  <2>4. \A d \in Caller : d # c => Flight(d)' = Flight(d) /\ held'[d] = held[d]
    BY <1>6 DEF Unlock, Goto, HeapType, Flight
  <2>5. \A d \in Caller : Mine(d)' \subseteq Mine(d) /\ Flight(d)' \cap held'[d] = {}
    BY <2>3, <2>4 DEF Mine, HeapBlocks
  <2>6. HeapBlocks'
    BY <1>6, <2>5, BlocksKept DEF Unlock
  <2> QED
    BY <2>1, <2>2, <2>6
<1>7. CASE UNCHANGED hvars
  BY <1>7 DEF hvars, heap, HeapType, HeapLock, HeapBlocks, Flight, Mine, Beside, Align
<1> QED
  BY <1>1, <1>2, <1>3, <1>4, <1>5, <1>6, <1>7 DEF Next

(* Every step is a step of Allocator or leaves the blocks alone.           *)
LEMMA StepAllocates == HeapInv /\ HeapInv' /\ [Next]_hvars => [A!Next]_held
<1> SUFFICES ASSUME HeapInv, HeapInv', [Next]_hvars PROVE [A!Next]_held
  OBVIOUS
<1>1. ASSUME NEW c \in Caller, NEW b \in held[c], FreeCall(c, b) PROVE A!Next
  BY <1>1 DEF FreeCall, A!Next, A!Free
<1>2. ASSUME NEW c \in Caller, Unlock(c), ~ UNCHANGED held PROVE A!Next
  <2> DEFINE new == [addr |-> mem[c], size |-> call[c].size]
  <2>1. /\ call[c].op = "malloc" /\ mem[c] # NULL /\ hpc[c] = "unlock"
        /\ held' = [held EXCEPT ![c] = @ \cup {new}]
    BY <1>2 DEF Unlock, Goto
  <2>2. Flight(c) = {new} /\ mem[c] \in Nat /\ call[c].size \in Sizes
    BY <2>1 DEF Flight, HeapInv, HeapType, NULL
  <2>3. new \notin held[c] /\ new \in Mine(c)
    BY <2>2 DEF HeapInv, HeapBlocks, Mine
  <2>4. new.addr + Align(new.size) <= AreaSize
    <3>1. new.addr + Align(new.size) <= bootstrap_alloc_pos
      BY <2>3 DEF HeapInv, HeapBlocks
    <3>2. Align(new.size) \in Nat /\ bootstrap_alloc_pos \in 0 .. AreaSize
      BY <2>2, AlignFact DEF HeapInv, HeapType
    <3> QED
      BY <2>2, <3>1, <3>2, AreaAssumption
  <2>5. new \in A!Block /\ new.addr + new.size <= AreaSize
    <3>1. new.size <= Align(new.size) /\ Align(new.size) \in Nat
      BY <2>2, AlignFact
    <3>2. new.size \in Nat /\ 0 < new.size /\ new.addr \in Nat
      <4>1. \A t \in Sizes : t \in Nat /\ 0 < t
        BY SizesAssumption
      <4> QED
        BY <2>2, <4>1
    <3>3. new.addr + new.size <= AreaSize /\ new.addr \in 0 .. AreaSize - 1
      <4> HIDE DEF new
      <4> QED
        BY <2>4, <3>1, <3>2, AreaAssumption
    <3> QED
      BY <2>2, <3>3 DEF A!Block
  <2>6. \A d \in Caller : \A e \in held[d] : A!Apart(new, e)
    <3> SUFFICES ASSUME NEW d \in Caller, NEW e \in held[d] PROVE A!Apart(new, e)
      OBVIOUS
    <3>1. e \in Mine(d) /\ e.addr \in Nat /\ e.size \in Sizes
      BY DEF Mine, HeapInv, HeapType
    <3>2. Beside(new, e)
      BY <2>3, <3>1 DEF HeapInv, HeapBlocks
    <3>3. /\ new.size \in Nat /\ Align(new.size) \in Nat /\ new.size <= Align(new.size)
          /\ e.size \in Nat /\ Align(e.size) \in Nat /\ e.size <= Align(e.size)
      BY <2>2, <3>1, AlignFact, SizesAssumption
    <3>4. new.addr \in Nat
      BY <2>2
    <3> HIDE DEF new
    <3> QED
      BY <3>1, <3>2, <3>3, <3>4 DEF Beside, A!Apart
  <2> QED
    BY <2>1, <2>5, <2>6 DEF A!Next, A!Malloc
<1>3. ASSUME NEW c \in Caller, NEW s \in Sizes, MallocCall(c, s) PROVE UNCHANGED held
  BY <1>3 DEF MallocCall
<1>4. ASSUME NEW c \in Caller, Lock(c) \/ Test(c) \/ Move(c) PROVE UNCHANGED held
  BY <1>4 DEF Lock, Test, Move
<1>5. UNCHANGED hvars => UNCHANGED held
  BY DEF hvars
<1> QED
  BY <1>1, <1>2, <1>3, <1>4, <1>5 DEF Next

(* At every moment the blocks of the boot heap lie below its position,     *)
(* beside each other, and one caller at a time is past the lock.           *)
THEOREM HeapInOrder == Spec => []HeapInv
<1>1. Init => HeapInv
  BY InitHeap
<1>2. HeapInv /\ [Next]_hvars => HeapInv'
  BY StepHeap
<1> QED
  BY <1>1, <1>2, PTL DEF Spec

(* malloc and bootstrap_free implement Allocator: a block that is handed   *)
(* out lies in the area and overlaps no block that anybody holds.          *)
THEOREM HeapAllocates == Spec => Allocates
<1>1. Init => A!Init
  BY DEF Init, A!Init
<1>2. HeapInv /\ HeapInv' /\ [Next]_hvars => [A!Next]_held
  BY StepAllocates
<1> QED
  BY <1>1, <1>2, HeapInOrder, PTL DEF Spec, Allocates, A!Spec

=============================================================================

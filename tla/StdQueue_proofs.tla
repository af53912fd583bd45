-------------------------- MODULE StdQueue_proofs --------------------------
(***************************************************************************)
(* What holds of the ring queue for every Size, every set of values and    *)
(* every set of actors: first of any callers, then that the queue is a     *)
(* BoundedDeque when one actor enqueues and one dequeues.  The argument    *)
(* for that: the entries are those from head up to tail, so an effect on   *)
(* the deque is one step of head or of tail, and no store to a slot        *)
(* changes an entry.                                                       *)
(***************************************************************************)
EXTENDS StdQueue, SequenceTheorems, FiniteSetTheorems, TLAPS

(* The C expression (i + 1) % size on an index: it wraps at the end only.  *)
LEMMA SuccValue ==
  ASSUME NEW i \in Index
  PROVE  Succ(i) = IF i = Size - 1 THEN 0 ELSE i + 1
<1> USE SizeAssumption DEF Index, Succ
<1>1. CASE i = Size - 1
  <2>1. i + 1 = Size  BY <1>1
  <2>2. Size % Size = 0  BY SMT
  <2> QED BY <1>1, <2>1, <2>2
<1>2. CASE i # Size - 1
  <2>1. i + 1 \in 0 .. Size - 1  BY <1>2
  <2>2. (i + 1) % Size = i + 1  BY <2>1
  <2> QED BY <1>2, <2>2
<1> QED BY <1>1, <1>2

LEMMA SuccType == \A i \in Index : Succ(i) \in Index
BY SuccValue, SizeAssumption DEF Index

(* Distinct indices stay distinct when both move on by one.                *)
LEMMA SuccInjective == \A i, j \in Index : Succ(i) = Succ(j) => i = j
BY SuccValue, SizeAssumption DEF Index

LEMMA PredType == \A i \in Index : Pred(i) \in Index
<1> SUFFICES ASSUME NEW i \in Index PROVE Pred(i) \in Index
  OBVIOUS
<1>1. CASE i = 0
  BY <1>1, SizeAssumption DEF Pred, Index
<1>2. CASE i > 0
  <2>1. i - 1 \in 0 .. Size - 1 BY <1>2, SizeAssumption DEF Index
  <2>2. (i - 1) % Size = i - 1 BY <2>1, SizeAssumption
  <2> QED BY <1>2, <2>1, <2>2 DEF Pred, Index
<1> QED BY <1>1, <1>2, SizeAssumption DEF Index

-----------------------------------------------------------------------------
LEMMA InitType == Init => TypeOK
<1> SUFFICES ASSUME Init PROVE TypeOK
  OBVIOUS
<1>1. 0 \in Index  BY SizeAssumption DEF Index
<1> QED BY <1>1, ValueAssumption DEF Init, TypeOK, PC, OpName

LEMMA StepType == TypeOK /\ [Next]_vars => TypeOK'
<1> SUFFICES ASSUME TypeOK, [Next]_vars PROVE TypeOK'
  OBVIOUS
<1>0. ops' = ops
  BY DEF Next, vars
<1> USE <1>0 DEF TypeOK
<1>1. ASSUME NEW a \in Actor, NEW o \in OpName, NEW v \in Value, Call(a, o, v)
      PROVE  TypeOK'
  BY <1>1 DEF Call, Goto, shared, PC, EnqPc, FrnPc, DeqPc, OpName
<1>2. ASSUME NEW a \in Actor, LoadTail(a) PROVE TypeOK'
  BY <1>2 DEF LoadTail, Goto, shared, PC, EnqPc, FrnPc
<1>3. ASSUME NEW a \in Actor, Enqueue(a) PROVE TypeOK'
  <2>1. CASE EnqTest(a)
    BY <2>1 DEF EnqTest, Goto, shared, locals, PC, EnqPc
  <2>2. CASE EnqWrite(a)
    BY <2>2 DEF EnqWrite, Goto, locals, PC, EnqPc
  <2>3. CASE EnqPublish(a)
    BY <2>3, SuccType DEF EnqPublish, Goto, locals, PC, EnqPc
  <2>4. CASE EnqCount(a)
    BY <2>4 DEF EnqCount, Count, Goto, PC
  <2> QED BY <1>3, <2>1, <2>2, <2>3, <2>4 DEF Enqueue
<1>4. ASSUME NEW a \in Actor, EnqueueFront(a) PROVE TypeOK'
  <2>1. CASE FrontTest(a)
    BY <2>1 DEF FrontTest, Goto, shared, PC, FrnPc
  <2>2. CASE FrontPublish(a)
    BY <2>2, PredType DEF FrontPublish, Goto, locals, PC, FrnPc
  <2>3. CASE FrontReload(a)
    BY <2>3 DEF FrontReload, Goto, shared, PC, FrnPc
  <2>4. CASE FrontWrite(a)
    BY <2>4 DEF FrontWrite, Goto, locals, PC, FrnPc
  <2>5. CASE FrontCount(a)
    BY <2>5 DEF FrontCount, Count, Goto, PC
  <2> QED BY <1>4, <2>1, <2>2, <2>3, <2>4, <2>5 DEF EnqueueFront
<1>5. ASSUME NEW a \in Actor, Dequeue(a) PROVE TypeOK'
  <2>1. CASE DeqLoadHead(a)
    BY <2>1 DEF DeqLoadHead, Goto, shared, PC, DeqPc
  <2>2. CASE DeqTest(a)
    BY <2>2 DEF DeqTest, Goto, shared, locals, PC, DeqPc
  <2>3. CASE DeqRead(a)
    BY <2>3 DEF DeqRead, Goto, shared, PC, DeqPc
  <2>4. CASE DeqZero(a)
    BY <2>4, ValueAssumption DEF DeqZero, Goto, locals, PC, DeqPc
  <2>5. CASE DeqPublish(a)
    BY <2>5, SuccType DEF DeqPublish, Goto, locals, PC, DeqPc
  <2>6. CASE DeqCount(a)
    BY <2>6 DEF DeqCount, Count, Goto, PC
  <2> QED BY <1>5, <2>1, <2>2, <2>3, <2>4, <2>5, <2>6 DEF Dequeue
<1>6. ASSUME NEW a \in Actor, Return(a) PROVE TypeOK'
  BY <1>6 DEF Return, Goto, shared, locals, PC
<1>7. CASE UNCHANGED vars
  BY <1>7 DEF vars, shared, locals
<1> QED BY <1>1, <1>2, <1>3, <1>4, <1>5, <1>6, <1>7 DEF Next

(* Every variable of the queue keeps its type: in particular head, tail    *)
(* and the indices an actor remembers across its steps stay inside the     *)
(* ring of queue_init, whatever functions its callers interleave.          *)
THEOREM TypeCorrect == Spec => []TypeOK
BY InitType, StepType, PTL DEF Spec

-----------------------------------------------------------------------------
(* The role discipline is what keeps the checks fresh: with one enqueuer   *)
(* and one dequeuer, only the enqueuer moves tail (which cannot make a     *)
(* non-empty ring empty) and only the dequeuer moves head (which cannot    *)
(* fill a ring that has room).                                             *)
LEMMA InitFresh == Init => FreshChecks
BY DEF Init, FreshChecks, Roles, ProducerView, ConsumerView, EnqPc, FrnPc, DeqPc

LEMMA StepRoles == TypeOK /\ Roles /\ [Next]_vars => Roles'
<1> SUFFICES ASSUME TypeOK, Roles, [Next]_vars PROVE Roles'
  OBVIOUS
<1>0. ops' = ops
  BY DEF Next, vars
<1> USE <1>0 DEF TypeOK, Roles, Goto, PC, EnqPc, FrnPc, DeqPc
<1>1. ASSUME NEW a \in Actor, NEW o \in OpName, NEW v \in Value, Call(a, o, v)
      PROVE  Roles'
  <2>1. CASE o = "enqueue"        BY <1>1, <2>1 DEF Call
  <2>2. CASE o = "enqueue_front"  BY <1>1, <2>2 DEF Call
  <2>3. CASE o = "dequeue"        BY <1>1, <2>3 DEF Call
  <2> QED BY <2>1, <2>2, <2>3 DEF OpName
<1>2. ASSUME NEW a \in Actor, LoadTail(a) PROVE Roles'
  BY <1>2 DEF LoadTail
<1>3. ASSUME NEW a \in Actor, Enqueue(a) PROVE Roles'
  BY <1>3 DEF Enqueue, EnqTest, EnqWrite, EnqPublish, EnqCount, Count
<1>4. ASSUME NEW a \in Actor, EnqueueFront(a) PROVE Roles'
  BY <1>4 DEF EnqueueFront, FrontTest, FrontPublish, FrontReload, FrontWrite,
              FrontCount, Count
<1>5. ASSUME NEW a \in Actor, Dequeue(a) PROVE Roles'
  BY <1>5 DEF Dequeue, DeqLoadHead, DeqTest, DeqRead, DeqZero, DeqPublish,
              DeqCount, Count
<1>6. ASSUME NEW a \in Actor, Return(a) PROVE Roles'
  BY <1>6 DEF Return
<1>7. CASE UNCHANGED vars
  BY <1>7 DEF vars
<1> QED BY <1>1, <1>2, <1>3, <1>4, <1>5, <1>6, <1>7 DEF Next

LEMMA StepViews ==
  SPSC /\ TypeOK /\ FreshChecks /\ [Next]_vars => ProducerView' /\ ConsumerView'
<1> SUFFICES ASSUME SPSC, TypeOK, FreshChecks, [Next]_vars
             PROVE  ProducerView' /\ ConsumerView'
  OBVIOUS
<1>0. Spsc(ops)
  BY DEF SPSC, TypeOK
<1>1. ASSUME NEW a \in Actor, NEW b \in Actor,
             pc[a] \in EnqPc, pc[b] \in EnqPc
      PROVE  a = b
  BY <1>0, <1>1 DEF Spsc, FreshChecks, Roles, OpName
<1>2. ASSUME NEW a \in Actor, NEW b \in Actor,
             pc[a] \in DeqPc, pc[b] \in DeqPc
      PROVE  a = b
  BY <1>0, <1>2 DEF Spsc, FreshChecks, Roles, OpName
<1>3. \A a \in Actor : pc[a] \notin FrnPc
  BY <1>0 DEF Spsc, FreshChecks, Roles
<1>4. ASSUME NEW a \in Actor, NEW o \in OpName, NEW v \in Value, Call(a, o, v)
      PROVE  ProducerView' /\ ConsumerView'
  <2>1. pc' = [pc EXCEPT ![a] = "e_tail"] \/ pc' = [pc EXCEPT ![a] = "f_tail"]
        \/ pc' = [pc EXCEPT ![a] = "d_head"]
    <3>1. CASE o = "enqueue"        BY <1>4, <3>1 DEF Call, Goto
    <3>2. CASE o = "enqueue_front"  BY <1>4, <3>2 DEF Call, Goto
    <3>3. CASE o = "dequeue"        BY <1>4, <3>3 DEF Call, Goto
    <3> QED BY <3>1, <3>2, <3>3 DEF OpName
  <2> QED BY <1>4, <2>1 DEF Call, shared, TypeOK, FreshChecks, ProducerView,
                            ConsumerView, Succ
<1>5. ASSUME NEW a \in Actor, LoadTail(a) PROVE ProducerView' /\ ConsumerView'
  BY <1>5 DEF LoadTail, Goto, shared, TypeOK, FreshChecks, ProducerView,
              ConsumerView, Succ
<1>6. ASSUME NEW a \in Actor, Enqueue(a) PROVE ProducerView' /\ ConsumerView'
  <2>1. CASE EnqTest(a)
    BY <2>1 DEF EnqTest, Goto, shared, locals, TypeOK, FreshChecks,
                ProducerView, ConsumerView, Succ
  <2>2. CASE EnqWrite(a)
    BY <2>2 DEF EnqWrite, Goto, locals, TypeOK, FreshChecks, ProducerView,
                ConsumerView, Succ
  <2>3. CASE EnqPublish(a)
    <3>1. tail' = Succ(tail) /\ head # Succ(tail)
      BY <2>3 DEF EnqPublish, Goto, FreshChecks, ProducerView
    <3>2. ProducerView'
      BY <2>3, <1>1 DEF EnqPublish, Goto, locals, TypeOK, FreshChecks,
                        ProducerView, EnqPc
    <3>3. ConsumerView'
      BY <2>3, <3>1 DEF EnqPublish, Goto, locals, TypeOK, FreshChecks,
                        ConsumerView
    <3> QED BY <3>2, <3>3
  <2>4. CASE EnqCount(a)
    BY <2>4 DEF EnqCount, Count, Goto, TypeOK, FreshChecks, ProducerView,
                ConsumerView, Succ
  <2> QED BY <1>6, <2>1, <2>2, <2>3, <2>4 DEF Enqueue
<1>7. ASSUME NEW a \in Actor, EnqueueFront(a)
      PROVE  ProducerView' /\ ConsumerView'
  BY <1>3, <1>7 DEF EnqueueFront, FrontTest, FrontPublish, FrontReload,
                    FrontWrite, FrontCount, Count, Goto, FrnPc
<1>8. ASSUME NEW a \in Actor, Dequeue(a) PROVE ProducerView' /\ ConsumerView'
  <2>1. CASE DeqLoadHead(a)
    BY <2>1 DEF DeqLoadHead, Goto, shared, TypeOK, FreshChecks, ProducerView,
                ConsumerView, Succ
  <2>2. CASE DeqTest(a)
    BY <2>2 DEF DeqTest, Goto, shared, locals, TypeOK, FreshChecks,
                ProducerView, ConsumerView, Succ
  <2>3. CASE DeqRead(a)
    BY <2>3 DEF DeqRead, Goto, shared, TypeOK, FreshChecks, ProducerView,
                ConsumerView, Succ
  <2>4. CASE DeqZero(a)
    BY <2>4 DEF DeqZero, Goto, locals, TypeOK, FreshChecks, ProducerView,
                ConsumerView, Succ
  <2>5. CASE DeqPublish(a)
    <3>1. head' = Succ(head) /\ head # tail /\ tail' = tail
      BY <2>5 DEF DeqPublish, Goto, FreshChecks, ConsumerView
    <3>2. head' # Succ(tail)
      BY <3>1, SuccInjective DEF TypeOK
    <3>3. ProducerView'
      BY <2>5, <3>1, <3>2 DEF DeqPublish, Goto, locals, TypeOK, FreshChecks,
                              ProducerView, Succ
    <3>4. ConsumerView'
      BY <2>5, <1>2 DEF DeqPublish, Goto, locals, TypeOK, FreshChecks,
                        ConsumerView, DeqPc
    <3> QED BY <3>3, <3>4
  <2>6. CASE DeqCount(a)
    BY <2>6 DEF DeqCount, Count, Goto, TypeOK, FreshChecks, ProducerView,
                ConsumerView, Succ
  <2> QED BY <1>8, <2>1, <2>2, <2>3, <2>4, <2>5, <2>6 DEF Dequeue
<1>9. ASSUME NEW a \in Actor, Return(a) PROVE ProducerView' /\ ConsumerView'
  BY <1>9 DEF Return, Goto, shared, locals, TypeOK, FreshChecks, ProducerView,
              ConsumerView, Succ
<1>10. CASE UNCHANGED vars
  BY <1>10 DEF vars, shared, locals, FreshChecks, ProducerView, ConsumerView,
               Succ
<1> QED BY <1>4, <1>5, <1>6, <1>7, <1>8, <1>9, <1>10 DEF Next

(* What queue_tryenqueue and queue_trydequeue checked still holds when     *)
(* they act on it, for any ring size, provided one actor enqueues and one  *)
(* dequeues.                                                               *)
THEOREM ChecksStayFresh == SPSC => (Spec => []FreshChecks)
<1> SUFFICES ASSUME SPSC PROVE Spec => []FreshChecks
  OBVIOUS
<1>1. TypeOK /\ FreshChecks /\ [Next]_vars => FreshChecks'
  BY StepRoles, StepViews DEF FreshChecks
<1> QED BY <1>1, InitFresh, TypeCorrect, PTL DEF Spec

LEMMA FreshExclusive == SPSC /\ TypeOK /\ FreshChecks => SlotExclusive
<1> SUFFICES ASSUME Spsc(ops), FreshChecks,
                    NEW a \in Actor, NEW b \in Actor, NEW i \in Index,
                    a # b, Touches(a, i), Touches(b, i)
             PROVE  FALSE
  BY DEF SlotExclusive, SPSC, TypeOK
<1> USE DEF Touches, FreshChecks, Roles, ProducerView, ConsumerView,
            EnqPc, FrnPc, DeqPc, Spsc, OpName
<1>1. CASE pc[a] = "e_slot"
  <2>1. i = tail /\ pc[b] # "e_slot"  BY <1>1
  <2>2. i = head /\ head # tail  BY <2>1
  <2> QED BY <2>1, <2>2
<1>2. CASE pc[a] # "e_slot"
  <2>1. i = head /\ head # tail /\ pc[a] \in DeqPc  BY <1>2
  <2>2. pc[b] = "e_slot"  BY <2>1
  <2> QED BY <2>1, <2>2
<1> QED BY <1>1, <1>2

(* The plain memory of the ring is free of data races between one          *)
(* enqueuer and one dequeuer, for any ring size: queue_tryenqueue's store  *)
(* never meets queue_trydequeue's load and clear of the same slot.         *)
THEOREM NoSlotRace == SPSC => (Spec => []SlotExclusive)
<1> SUFFICES ASSUME SPSC PROVE Spec => []SlotExclusive
  OBVIOUS
<1>1. TypeOK /\ FreshChecks => SlotExclusive
  BY FreshExclusive
<1> QED BY <1>1, TypeCorrect, ChecksStayFresh, PTL

-----------------------------------------------------------------------------
(* The arithmetic of the ring.                                             *)

LEMMA DivMod ==
  ASSUME NEW x \in Int
  PROVE  /\ x \div Size \in Int /\ x % Size \in 0 .. Size - 1
         /\ x = Size * (x \div Size) + (x % Size)
<1>1. x = Size * (x \div Size) + (x % Size)  BY SizeAssumption
<1>2. x % Size \in 0 .. Size - 1  BY SizeAssumption
<1>3. x \div Size \in Int  BY SizeAssumption
<1> QED BY <1>1, <1>2, <1>3

LEMMA QuotientBounds ==
  ASSUME NEW q \in Int, NEW r \in 0 .. Size - 1
  PROVE  /\ q >= 2  => Size * q + r >= 2 * Size
         /\ q = 1   => Size * q + r >= Size /\ Size * q + r = Size + r
         /\ q = 0   => Size * q + r = r
         /\ q = -1  => Size * q + r = r - Size
         /\ q <= -2 => Size * q + r < -Size
<1> USE SizeAssumption
<1>1. ASSUME q >= 2 PROVE Size * q >= Size * 2  BY <1>1
<1>2. ASSUME q <= -2 PROVE Size * q <= Size * (-2)  BY <1>2
<1> QED BY <1>1, <1>2

(* Within one turn of the ring either way, % Size adds or takes one Size.  *)
LEMMA ModValue ==
  ASSUME NEW x \in Int, -Size <= x, x < 2 * Size
  PROVE  x % Size = IF x < 0 THEN x + Size ELSE IF x < Size THEN x ELSE x - Size
<1> DEFINE q == x \div Size
           r == x % Size
<1>1. q \in Int /\ r \in 0 .. Size - 1 /\ x = Size * q + r
  BY DivMod
<1> HIDE DEF q, r
<1>2. q \in {-1, 0, 1}
  BY <1>1, QuotientBounds, SizeAssumption
<1>3. r = IF x < 0 THEN x + Size ELSE IF x < Size THEN x ELSE x - Size
  BY <1>1, <1>2, QuotientBounds, SizeAssumption
<1> QED BY <1>3 DEF r

LEMMA DistValue ==
  ASSUME NEW i \in Index, NEW j \in Index
  PROVE  Dist(i, j) = IF j < i THEN j - i + Size ELSE j - i
BY ModValue, SizeAssumption DEF Index, Dist

LEMMA PlaceValue ==
  ASSUME NEW i \in Index, NEW k \in 1 .. Size
  PROVE  Place(i, k) = IF i + k - 1 < Size THEN i + k - 1 ELSE i + k - 1 - Size
BY ModValue, SizeAssumption DEF Index, Place

(* The distance from head to tail tells empty and full, and moves by one   *)
(* with either of them.                                                    *)
LEMMA DistFacts ==
  ASSUME NEW i \in Index, NEW j \in Index
  PROVE  /\ Dist(i, j) \in 0 .. Size - 1
         /\ Dist(i, j) = 0 <=> i = j
         /\ Dist(i, j) = Size - 1 <=> i = Succ(j)
         /\ i # Succ(j) => Dist(i, Succ(j)) = Dist(i, j) + 1
         /\ i # j => Dist(Succ(i), j) = Dist(i, j) - 1
<1> USE DistValue, SizeAssumption DEF Index
<1>1. Succ(j) \in Index /\ Succ(j) = IF j = Size - 1 THEN 0 ELSE j + 1
  BY SuccType, SuccValue
<1>2. Succ(i) \in Index /\ Succ(i) = IF i = Size - 1 THEN 0 ELSE i + 1
  BY SuccType, SuccValue
<1>3. Dist(i, j) \in 0 .. Size - 1 /\ (Dist(i, j) = 0 <=> i = j)
  OBVIOUS
<1>4. Dist(i, j) = Size - 1 <=> i = Succ(j)
  BY <1>1
<1>5. ASSUME i # Succ(j) PROVE Dist(i, Succ(j)) = Dist(i, j) + 1
  BY <1>1, <1>5
<1>6. ASSUME i # j PROVE Dist(Succ(i), j) = Dist(i, j) - 1
  BY <1>2, <1>6
<1> QED BY <1>3, <1>4, <1>5, <1>6

(* The places from i up to j are all the indices between them, in order.   *)
LEMMA PlaceFacts ==
  ASSUME NEW i \in Index, NEW j \in Index
  PROVE  /\ \A k \in 1 .. Dist(i, j) : Place(i, k) \in Index /\ Place(i, k) # j
         /\ \A k \in 2 .. Dist(i, j) : Place(i, k) # i
         /\ Place(i, 1) = i
         /\ Place(i, Dist(i, j) + 1) = j
         /\ i # j => \A k \in 1 .. Dist(i, j) - 1 :
                       Place(Succ(i), k) = Place(i, k + 1)
<1> USE DistValue, PlaceValue, SizeAssumption DEF Index
<1>1. \A k \in 1 .. Dist(i, j) : Place(i, k) \in Index /\ Place(i, k) # j
  OBVIOUS
<1>2. \A k \in 2 .. Dist(i, j) : Place(i, k) # i
  OBVIOUS
<1>3. Place(i, 1) = i
  OBVIOUS
<1>4. Place(i, Dist(i, j) + 1) = j
  OBVIOUS
<1>5. ASSUME i # j, NEW k \in 1 .. Dist(i, j) - 1
      PROVE  Place(Succ(i), k) = Place(i, k + 1)
  <2>1. Succ(i) \in Index /\ Succ(i) = IF i = Size - 1 THEN 0 ELSE i + 1
    BY SuccType, SuccValue
  <2>2. k \in 1 .. Size /\ k + 1 \in 1 .. Size
    <3>1. Dist(i, j) \in 0 .. Size - 1
      BY DistFacts
    <3> HIDE DistValue, PlaceValue DEF Index
    <3> QED BY <1>5, <3>1
  <2> QED BY <2>1, <2>2
<1> QED BY <1>1, <1>2, <1>3, <1>4, <1>5

-----------------------------------------------------------------------------
(* The inductive invariant: the roles, the checks that stay fresh, and     *)
(* what an actor remembers of the slots.                                   *)
DequeInv == Spsc(ops) /\ TypeOK /\ FreshChecks /\ Remembered

(* One actor at most is inside each function, and none enqueues in front.  *)
LEMMA OnlyOne ==
  DequeInv => \A a, b \in Actor :
    /\ pc[a] \in EnqPc /\ pc[b] \in EnqPc => a = b
    /\ pc[a] \in DeqPc /\ pc[b] \in DeqPc => a = b
    /\ pc[a] \notin FrnPc
BY DEF DequeInv, Spsc, FreshChecks, Roles, OpName

LEMMA InitDeque == SPSC /\ Init => DequeInv
<1> SUFFICES ASSUME SPSC, Init PROVE DequeInv
  OBVIOUS
<1>1. TypeOK /\ FreshChecks
  BY InitType, InitFresh
<1>2. Remembered
  BY DEF Init, Remembered, EnqPc, DeqPc
<1> QED BY <1>1, <1>2 DEF DequeInv, SPSC, TypeOK

(* What is remembered survives: the enqueuer stores into the slot at tail, *)
(* the dequeuer into the one at head, and these differ while an entry is   *)
(* being read.                                                             *)
LEMMA StepRemembered == DequeInv /\ [Next]_vars => Remembered'
<1> SUFFICES ASSUME DequeInv, [Next]_vars PROVE Remembered'
  OBVIOUS
<1>1. \A a, b \in Actor :
        /\ pc[a] \in EnqPc /\ pc[b] \in EnqPc => a = b
        /\ pc[a] \in DeqPc /\ pc[b] \in DeqPc => a = b
        /\ pc[a] \notin FrnPc
  BY OnlyOne
<1>2. TypeOK /\ ProducerView /\ ConsumerView /\ Remembered
  BY DEF DequeInv, FreshChecks
<1> USE <1>2 DEF TypeOK, Remembered, Goto, EnqPc, FrnPc, DeqPc
<1>3. ASSUME NEW a \in Actor, NEW o \in OpName, NEW v \in Value, Call(a, o, v)
      PROVE  Remembered'
  <2>1. CASE o = "enqueue"        BY <1>3, <2>1 DEF Call, shared
  <2>2. CASE o = "enqueue_front"  BY <1>3, <2>2 DEF Call, shared
  <2>3. CASE o = "dequeue"        BY <1>3, <2>3 DEF Call, shared
  <2> QED BY <2>1, <2>2, <2>3 DEF OpName
<1>4. ASSUME NEW a \in Actor, LoadTail(a) PROVE Remembered'
  BY <1>4, <1>1 DEF LoadTail, shared
<1>5. ASSUME NEW a \in Actor, Enqueue(a) PROVE Remembered'
  <2>1. CASE EnqTest(a)
    BY <2>1 DEF EnqTest, shared, locals
  <2>2. CASE EnqWrite(a)
    <3>1. pc[a] = "e_slot" /\ curTail[a] = tail
          /\ \A b \in Actor : pc[b] = "d_zero" => curHead[b] # tail
      BY <2>2 DEF EnqWrite, ProducerView, ConsumerView
    <3> QED BY <2>2, <3>1, <1>1 DEF EnqWrite, locals
  <2>3. CASE EnqPublish(a)
    BY <2>3 DEF EnqPublish, locals
  <2>4. CASE EnqCount(a)
    BY <2>4 DEF EnqCount, Count
  <2> QED BY <1>5, <2>1, <2>2, <2>3, <2>4 DEF Enqueue
<1>6. ASSUME NEW a \in Actor, EnqueueFront(a) PROVE Remembered'
  BY <1>6, <1>1 DEF EnqueueFront, FrontTest, FrontPublish, FrontReload,
                    FrontWrite, FrontCount, Count
<1>7. ASSUME NEW a \in Actor, Dequeue(a) PROVE Remembered'
  <2>1. CASE DeqLoadHead(a)
    BY <2>1 DEF DeqLoadHead, shared
  <2>2. CASE DeqTest(a)
    BY <2>2 DEF DeqTest, shared, locals
  <2>3. CASE DeqRead(a)
    BY <2>3 DEF DeqRead, shared
  <2>4. CASE DeqZero(a)
    <3>1. pc[a] = "d_zero" /\ curHead[a] = head
          /\ \A b \in Actor : pc[b] = "e_publish" => curTail[b] # head
      BY <2>4 DEF DeqZero, ProducerView, ConsumerView
    <3> QED BY <2>4, <3>1, <1>1 DEF DeqZero, locals
  <2>5. CASE DeqPublish(a)
    BY <2>5 DEF DeqPublish, locals
  <2>6. CASE DeqCount(a)
    BY <2>6 DEF DeqCount, Count
  <2> QED BY <1>7, <2>1, <2>2, <2>3, <2>4, <2>5, <2>6 DEF Dequeue
<1>8. ASSUME NEW a \in Actor, Return(a) PROVE Remembered'
  BY <1>8 DEF Return, shared, locals
<1>9. CASE UNCHANGED vars
  BY <1>9 DEF vars, shared, locals
<1> QED BY <1>3, <1>4, <1>5, <1>6, <1>7, <1>8, <1>9 DEF Next

LEMMA StepDequeInv == SPSC /\ DequeInv /\ [Next]_vars => DequeInv'
<1> SUFFICES ASSUME SPSC, DequeInv, [Next]_vars PROVE DequeInv'
  OBVIOUS
<1>1. TypeOK' /\ FreshChecks'
  BY StepType, StepRoles, StepViews DEF DequeInv, FreshChecks
<1>2. Spsc(ops)'
  BY <1>1 DEF SPSC, TypeOK
<1> QED BY <1>1, <1>2, StepRemembered DEF DequeInv

LEMMA DequeInOrder == SPSC => (Spec => []DequeInv)
<1> SUFFICES ASSUME SPSC PROVE Spec => []DequeInv
  OBVIOUS
<1>1. Init => DequeInv
  BY InitDeque
<1>2. DequeInv /\ [Next]_vars => DequeInv'
  BY StepDequeInv
<1> QED BY <1>1, <1>2, PTL DEF Spec

-----------------------------------------------------------------------------
(* What the mapping sees: the entries are the slots from head on, except   *)
(* for the one being dequeued, which the dequeuer has in *val.             *)
LEMMA FirstFact == DequeInv => First = head /\ Length = Dist(head, tail)
<1> SUFFICES ASSUME DequeInv PROVE First = head /\ Length = Dist(head, tail)
  OBVIOUS
<1>1. ~ Opening
  BY OnlyOne DEF Opening, FrnPc
<1> QED BY <1>1 DEF First, Length

LEMMA EntryFact ==
  DequeInv => \A i \in Index :
    /\ (\A a \in Actor : pc[a] # "d_publish") => Entry(i) = slot[i]
    /\ \A a \in Actor :
         pc[a] = "d_publish" => Entry(i) = IF i = head THEN val[a] ELSE slot[i]
<1> SUFFICES ASSUME DequeInv, NEW i \in Index
             PROVE  /\ (\A a \in Actor : pc[a] # "d_publish") => Entry(i) = slot[i]
                    /\ \A a \in Actor : pc[a] = "d_publish"
                         => Entry(i) = IF i = head THEN val[a] ELSE slot[i]
  OBVIOUS
<1>1. ASSUME \A a \in Actor : pc[a] # "d_publish" PROVE Entry(i) = slot[i]
  <2>1. Clearing(i) = {}  BY <1>1 DEF Clearing
  <2> QED BY <2>1 DEF Entry
<1>2. ASSUME NEW a \in Actor, pc[a] = "d_publish"
      PROVE  Entry(i) = IF i = head THEN val[a] ELSE slot[i]
  <2>1. \A b \in Actor : pc[b] = "d_publish" => b = a
    BY <1>2, OnlyOne DEF DeqPc
  <2>2. curHead[a] = head
    BY <1>2 DEF DequeInv, FreshChecks, ConsumerView
  <2>3. CASE i = head
    <3>1. Clearing(i) = {a}
      BY <1>2, <2>1, <2>2, <2>3 DEF Clearing
    <3>2. (CHOOSE b \in Clearing(i) : TRUE) = a
      BY <3>1
    <3> QED BY <2>3, <3>1, <3>2 DEF Entry
  <2>4. CASE i # head
    <3>1. Clearing(i) = {}
      BY <2>1, <2>2, <2>4 DEF Clearing
    <3> QED BY <2>4, <3>1 DEF Entry
  <2> QED BY <2>3, <2>4
<1> QED BY <1>1, <1>2

LEMMA EntryType == DequeInv => \A i \in Index : Entry(i) \in Value
<1> SUFFICES ASSUME DequeInv, NEW i \in Index PROVE Entry(i) \in Value
  OBVIOUS
<1>1. CASE \E a \in Actor : pc[a] = "d_publish"
  BY <1>1, EntryFact DEF DequeInv, TypeOK
<1>2. CASE \A a \in Actor : pc[a] # "d_publish"
  BY <1>2, EntryFact DEF DequeInv, TypeOK
<1> QED BY <1>1, <1>2

LEMMA ItemsFact ==
  DequeInv =>
    /\ Items \in Seq(Value)
    /\ Len(Items) = Dist(head, tail)
    /\ \A k \in 1 .. Dist(head, tail) : Items[k] = Entry(Place(head, k))
<1> SUFFICES ASSUME DequeInv
             PROVE  /\ Items \in Seq(Value)
                    /\ Len(Items) = Dist(head, tail)
                    /\ \A k \in 1 .. Dist(head, tail) :
                         Items[k] = Entry(Place(head, k))
  OBVIOUS
<1>1. head \in Index /\ tail \in Index /\ Dist(head, tail) \in Nat
  BY DistFacts, SizeAssumption DEF DequeInv, TypeOK
<1>2. Items = [k \in 1 .. Dist(head, tail) |-> Entry(Place(head, k))]
  BY FirstFact DEF Items
<1>3. \A k \in 1 .. Dist(head, tail) : Entry(Place(head, k)) \in Value
  BY <1>1, PlaceFacts, EntryType
<1>4. Items \in [1 .. Dist(head, tail) -> Value]
  BY <1>2, <1>3
<1>5. Items \in Seq(Value)
  BY <1>1, <1>4, SeqDef
<1>6. Len(Items) = Dist(head, tail)
  <2>1. Len(Items) \in Nat /\ 1 .. Len(Items) = 1 .. Dist(head, tail)
    BY <1>4, <1>5, LenProperties
  <2> QED BY <1>1, <2>1
<1> QED BY <1>2, <1>5, <1>6

(* The same facts of the next state.                                       *)
LEMMA NextFirst == DequeInv' => (First = head /\ Length = Dist(head, tail))'
BY FirstFact, PTL

LEMMA NextEntry ==
  DequeInv' => (\A i \in Index :
    /\ (\A a \in Actor : pc[a] # "d_publish") => Entry(i) = slot[i]
    /\ \A a \in Actor :
         pc[a] = "d_publish" => Entry(i) = IF i = head THEN val[a] ELSE slot[i])'
BY EntryFact, PTL

LEMMA NextItems ==
  DequeInv' =>
    (/\ Items \in Seq(Value)
     /\ Len(Items) = Dist(head, tail)
     /\ \A k \in 1 .. Dist(head, tail) : Items[k] = Entry(Place(head, k)))'
BY ItemsFact, PTL

(* A step that neither begins nor ends the clearing of a slot leaves every *)
(* entry whose slot it leaves.                                             *)
LEMMA EntryKept ==
  ASSUME DequeInv, DequeInv', NEW a \in Actor, head' = head,
         pc[a] # "d_publish", pc'[a] # "d_publish",
         \A b \in Actor : b # a => pc'[b] = pc[b] /\ val'[b] = val[b],
         NEW i \in Index, slot'[i] = slot[i]
  PROVE  Entry(i)' = Entry(i)
<1>1. CASE \E b \in Actor : pc[b] = "d_publish"
  <2>1. PICK b \in Actor : pc[b] = "d_publish"  BY <1>1
  <2>2. pc'[b] = "d_publish" /\ val'[b] = val[b]  BY <2>1
  <2>3. Entry(i) = IF i = head THEN val[b] ELSE slot[i]  BY <2>1, EntryFact
  <2>4. Entry(i)' = IF i = head' THEN val'[b] ELSE slot'[i]  BY <2>2, NextEntry
  <2> QED BY <2>2, <2>3, <2>4
<1>2. CASE \A b \in Actor : pc[b] # "d_publish"
  <2>1. \A b \in Actor : pc'[b] # "d_publish"  BY <1>2
  <2> QED BY <1>2, <2>1, EntryFact, NextEntry
<1> QED BY <1>1, <1>2

(* If head and tail stay and no entry changes, the deque stays.            *)
LEMMA ItemsKept ==
  ASSUME DequeInv, DequeInv', head' = head, tail' = tail,
         \A i \in Index : i # tail => Entry(i)' = Entry(i)
  PROVE  Items' = Items
<1>1. head \in Index /\ tail \in Index
  BY DEF DequeInv, TypeOK
<1>2. \A k \in 1 .. Dist(head, tail) : Entry(Place(head, k))' = Entry(Place(head, k))
  BY <1>1, PlaceFacts
<1>3. First' = head /\ First = head /\ Length' = Dist(head, tail)
      /\ Length = Dist(head, tail)
  BY FirstFact, NextFirst
<1> QED BY <1>2, <1>3 DEF Items

-----------------------------------------------------------------------------
(* Every step is a step of the deque or leaves it.                         *)

(* The call a is in is the only one whose stage, value and outcome change. *)
LEMMA StageKept ==
  ASSUME DequeInv, NEW a \in Actor, NEW p \in PC, pc' = [pc EXCEPT ![a] = p]
  PROVE  stage' = [stage EXCEPT ![a] = StageOf(p)]
BY DEF stage, DequeInv, TypeOK

LEMMA ValKept ==
  ASSUME DequeInv, NEW a \in Actor, NEW p \in PC, pc' = [pc EXCEPT ![a] = p],
         op' \in [Actor -> OpName], val' \in [Actor -> Value],
         \A b \in Actor : b # a => op'[b] = op[b] /\ val'[b] = val[b],
         NEW w,
         w = IF op'[a] = "dequeue" /\ StageOf(p) = "pending" THEN Zero ELSE val'[a]
  PROVE  abstractVal' = [abstractVal EXCEPT ![a] = w]
BY DEF abstractVal, DequeInv, TypeOK

LEMMA OkKept ==
  ASSUME DequeInv, NEW a \in Actor, NEW p \in PC, pc' = [pc EXCEPT ![a] = p],
         ok' \in [Actor -> BOOLEAN],
         \A b \in Actor : b # a => ok'[b] = ok[b],
         NEW w \in BOOLEAN,
         w <=> ok'[a] \/ p \in {"e_count", "f_count", "d_count"}
  PROVE  abstractOk' = [abstractOk EXCEPT ![a] = w]
BY DEF abstractOk, DequeInv, TypeOK

(* A step inside the pending part of a call: what it does is not seen.     *)
LEMMA Invisible ==
  ASSUME DequeInv, NEW a \in Actor, NEW p \in PC, pc' = [pc EXCEPT ![a] = p],
         StageOf(pc[a]) = "pending", StageOf(p) = "pending",
         ops' = ops, op' = op, ok' = ok,
         \A b \in Actor : b # a \/ op[a] # "dequeue" => val'[b] = val[b],
         Items' = Items
  PROVE  UNCHANGED Deque!vars
<1> USE DEF DequeInv, TypeOK
<1>1. stage' = stage
  BY DEF stage
<1>2. abstractVal' = abstractVal
  BY DEF abstractVal
<1>3. abstractOk' = abstractOk
  <2>1. /\ pc[a] \notin {"e_count", "f_count", "d_count"}
        /\ p \notin {"e_count", "f_count", "d_count"}
    BY DEF StageOf
  <2> QED BY <2>1 DEF abstractOk
<1> QED BY <1>1, <1>2, <1>3 DEF Deque!vars

(* Nor is the counting after the effect.                                   *)
LEMMA CountInvisible ==
  ASSUME DequeInv, NEW a \in Actor, pc' = [pc EXCEPT ![a] = "return"],
         pc[a] \in {"e_count", "d_count"},
         ops' = ops, op' = op, val' = val, ok' = [ok EXCEPT ![a] = TRUE],
         Items' = Items
  PROVE  UNCHANGED Deque!vars
<1> USE DEF DequeInv, TypeOK
<1>1. stage' = stage
  BY DEF stage, StageOf
<1>2. abstractVal' = abstractVal
  BY DEF abstractVal, StageOf
<1>3. abstractOk' = abstractOk
  BY DEF abstractOk
<1> QED BY <1>1, <1>2, <1>3 DEF Deque!vars

(* The steps that move neither head nor tail and clear no slot.            *)
LEMMA QuietKeepsItems ==
  ASSUME DequeInv, DequeInv', NEW a \in Actor, head' = head, tail' = tail,
         pc[a] # "d_publish", pc'[a] # "d_publish",
         \A b \in Actor : b # a => pc'[b] = pc[b] /\ val'[b] = val[b],
         \A i \in Index : i # tail => slot'[i] = slot[i]
  PROVE  Items' = Items
BY EntryKept, ItemsKept

LEMMA CallCalls ==
  ASSUME DequeInv, DequeInv', ops' = ops,
         NEW a \in Actor, NEW o \in OpName, NEW v \in Value, Call(a, o, v)
  PROVE  Deque!Call(a, o, v)
<1> USE DEF DequeInv, TypeOK
<1> DEFINE p == CASE o = "enqueue"       -> "e_tail"
                  [] o = "enqueue_front" -> "f_tail"
                  [] o = "dequeue"       -> "d_head"
<1>1. p \in PC /\ p \in {"e_tail", "f_tail", "d_head"}
  <2>1. CASE o = "enqueue"        BY <2>1 DEF PC, EnqPc
  <2>2. CASE o = "enqueue_front"  BY <2>2 DEF PC, FrnPc
  <2>3. CASE o = "dequeue"        BY <2>3 DEF PC, DeqPc
  <2> QED BY <2>1, <2>2, <2>3 DEF OpName
<1>2. pc[a] = "idle" /\ pc' = [pc EXCEPT ![a] = p] /\ o \in ops[a]
      /\ (o = "dequeue" => v = Zero)
      /\ op' = [op EXCEPT ![a] = o] /\ val' = [val EXCEPT ![a] = v]
      /\ ok' = [ok EXCEPT ![a] = FALSE] /\ UNCHANGED shared
  BY DEF Call, Goto
<1> HIDE DEF p
<1>3. StageOf(p) = "pending"
  BY <1>1 DEF StageOf
<1>4. stage[a] = "idle"
  BY <1>2 DEF stage, StageOf
<1>5. stage' = [stage EXCEPT ![a] = "pending"]
  <2>1. stage' = [stage EXCEPT ![a] = StageOf(p)]
    BY <1>1, <1>2, StageKept
  <2> QED BY <1>3, <2>1
<1>6. abstractVal' = [abstractVal EXCEPT ![a] = v]
  BY <1>1, <1>2, <1>3, ValKept
<1>7. abstractOk' = [abstractOk EXCEPT ![a] = FALSE]
  BY <1>1, <1>2, OkKept
<1>8. Items' = Items
  <2>1. pc'[a] = p  BY <1>2
  <2> QED BY <1>1, <1>2, <2>1, QuietKeepsItems DEF shared
<1> QED BY <1>2, <1>4, <1>5, <1>6, <1>7, <1>8 DEF Deque!Call

(* The publication of the new tail is where an enqueue takes effect.       *)
LEMMA PublishPushes ==
  ASSUME DequeInv, DequeInv', NEW a \in Actor, EnqPublish(a)
  PROVE  Deque!PushBack(a)
<1> USE DEF DequeInv, TypeOK
<1>1. /\ pc[a] = "e_publish" /\ pc' = [pc EXCEPT ![a] = "e_count"]
      /\ tail' = Succ(curTail[a])
      /\ UNCHANGED <<slot, head, entCnt, locals>>
  BY DEF EnqPublish, Goto
<1>2. curTail[a] = tail /\ head # Succ(tail)
  BY <1>1 DEF FreshChecks, ProducerView
<1>3. op[a] = "enqueue" /\ ~ok[a] /\ slot[tail] = val[a]
  BY <1>1, <1>2 DEF Remembered, EnqPc
<1>4. "e_count" \in PC /\ StageOf("e_count") = "done" /\ StageOf("e_publish") = "pending"
  BY DEF PC, EnqPc, StageOf
<1>5. stage[a] = "pending" /\ stage' = [stage EXCEPT ![a] = "done"]
  BY <1>1, <1>4, StageKept DEF stage
<1>6. abstractOk' = [abstractOk EXCEPT ![a] = TRUE]
  BY <1>1, <1>4, OkKept DEF locals
<1>7. abstractVal' = abstractVal /\ abstractVal[a] = val[a]
  BY <1>1, <1>3, <1>4 DEF abstractVal, locals
<1> DEFINE n == Dist(head, tail)
<1>8. /\ n \in 0 .. Size - 1 /\ n # Size - 1 /\ Dist(head, tail)' = n + 1
      /\ Place(head, n + 1) = tail
  BY <1>1, <1>2, DistFacts, PlaceFacts
<1>9. /\ Items \in Seq(Value) /\ Len(Items) = n
      /\ \A k \in 1 .. n : Items[k] = Entry(Place(head, k))
  BY ItemsFact
<1>10. /\ Items' \in Seq(Value) /\ Len(Items') = n + 1
       /\ \A k \in 1 .. n + 1 : Items'[k] = Entry(Place(head, k))'
  BY <1>8, NextItems
<1>11. \A i \in Index : Entry(i)' = Entry(i)
  BY <1>1, EntryKept DEF locals
<1>12. ASSUME NEW k \in 1 .. n + 1 PROVE Place(head, k) \in Index
  <2>1. CASE k = n + 1  BY <1>8, <2>1
  <2>2. CASE k # n + 1
    <3>1. k \in 1 .. Dist(head, tail)  BY <1>8, <2>2
    <3> QED BY <3>1, PlaceFacts
  <2> QED BY <2>1, <2>2
<1>13. \A k \in 1 .. n + 1 : Entry(Place(head, k))' = Entry(Place(head, k))
  BY <1>1, <1>11, <1>12
<1>14. Entry(tail) = val[a]
  <2>1. CASE \A b \in Actor : pc[b] # "d_publish"
    BY <1>3, <2>1, EntryFact
  <2>2. CASE \E b \in Actor : pc[b] = "d_publish"
    <3>1. head # tail  BY <2>2 DEF FreshChecks, ConsumerView
    <3> QED BY <1>3, <2>2, <3>1, EntryFact
  <2> QED BY <2>1, <2>2
<1> HIDE DEF n
<1>15. Items' = Append(Items, val[a])
  <2>1. n \in Nat /\ val[a] \in Value  BY <1>8, SizeAssumption
  <2>2. /\ Append(Items, val[a]) \in Seq(Value)
        /\ Len(Append(Items, val[a])) = n + 1
        /\ \A k \in 1 .. n : Append(Items, val[a])[k] = Items[k]
        /\ Append(Items, val[a])[n + 1] = val[a]
    BY <1>9, <2>1, AppendProperties
  <2>3. ASSUME NEW k \in 1 .. n + 1 PROVE Items'[k] = Append(Items, val[a])[k]
    <3>1. CASE k = n + 1
      BY <1>8, <1>10, <1>13, <1>14, <2>2, <3>1
    <3>2. CASE k # n + 1
      <4>1. k \in 1 .. n  BY <2>1, <3>2
      <4> QED BY <1>9, <1>10, <1>13, <2>2, <4>1
    <3> QED BY <3>1, <3>2
  <2> QED BY <1>10, <2>2, <2>3, SeqEqual
<1>16. Len(Items) < Size - 1
  BY <1>8, <1>9, SizeAssumption
<1> QED BY <1>1, <1>3, <1>5, <1>6, <1>7, <1>15, <1>16
        DEF Deque!PushBack, Deque!Finish, locals

(* The publication of the new head is where a dequeue takes effect.        *)
LEMMA PublishPops ==
  ASSUME DequeInv, DequeInv', NEW a \in Actor, DeqPublish(a)
  PROVE  Deque!PopFront(a)
<1> USE DEF DequeInv, TypeOK
<1>1. /\ pc[a] = "d_publish" /\ pc' = [pc EXCEPT ![a] = "d_count"]
      /\ head' = Succ(curHead[a])
      /\ UNCHANGED <<slot, tail, entCnt, locals>>
  BY DEF DeqPublish, Goto
<1>2. curHead[a] = head /\ head # tail
  BY <1>1 DEF FreshChecks, ConsumerView
<1>3. op[a] = "dequeue" /\ ~ok[a]
  BY <1>1 DEF Remembered, DeqPc
<1>4. "d_count" \in PC /\ StageOf("d_count") = "done" /\ StageOf("d_publish") = "pending"
  BY DEF PC, DeqPc, StageOf
<1>5. stage[a] = "pending" /\ stage' = [stage EXCEPT ![a] = "done"]
  BY <1>1, <1>4, StageKept DEF stage
<1>6. abstractOk' = [abstractOk EXCEPT ![a] = TRUE]
  BY <1>1, <1>4, OkKept DEF locals
<1>7. abstractVal' = [abstractVal EXCEPT ![a] = val[a]]
  BY <1>1, <1>4, ValKept DEF locals
<1> DEFINE n == Dist(head, tail)
<1>8. n \in 1 .. Size - 1 /\ Dist(head, tail)' = n - 1 /\ Place(head, 1) = head
  BY <1>1, <1>2, DistFacts, PlaceFacts, SizeAssumption
<1>9. \A k \in 1 .. n - 1 : /\ Place(head', k) = Place(head, k + 1)
                            /\ Place(head, k + 1) \in Index \ {head}
  <2>1. ASSUME NEW k \in 1 .. n - 1
        PROVE  Place(head, k + 1) \in Index /\ Place(head, k + 1) # head
    <3>1. k + 1 \in 1 .. Dist(head, tail) /\ k + 1 \in 2 .. Dist(head, tail)
      BY <1>8
    <3> QED BY <3>1, PlaceFacts
  <2>2. ASSUME NEW k \in 1 .. n - 1 PROVE Place(head', k) = Place(head, k + 1)
    BY <1>1, <1>2, PlaceFacts
  <2> QED BY <2>1, <2>2
<1>10. /\ Items \in Seq(Value) /\ Len(Items) = n
       /\ \A k \in 1 .. n : Items[k] = Entry(Place(head, k))
  BY ItemsFact
<1>11. /\ Items' \in Seq(Value) /\ Len(Items') = n - 1
       /\ \A k \in 1 .. n - 1 : Items'[k] = Entry(Place(head, k))'
  BY <1>8, NextItems
<1>12. Entry(head) = val[a] /\ \A i \in Index : i # head => Entry(i) = slot[i]
  BY <1>1, EntryFact
<1>13. \A i \in Index : Entry(i)' = slot[i]
  <2>1. \A b \in Actor : pc'[b] # "d_publish"
    BY <1>1, OnlyOne DEF DeqPc
  <2> QED BY <1>1, <2>1, NextEntry
<1>14. \A k \in 1 .. n - 1 : Entry(Place(head, k))' = Entry(Place(head, k + 1))
  BY <1>9, <1>12, <1>13
<1> HIDE DEF n
<1>15. n \in Nat /\ n # 0 /\ Items # << >>
  <2>1. n \in Nat /\ n # 0  BY <1>8, SizeAssumption
  <2> QED BY <1>10, <2>1, EmptySeq
<1>16. Head(Items) = val[a]
  <2>1. 1 \in 1 .. n  BY <1>15
  <2> QED BY <1>8, <1>10, <1>12, <1>15, <2>1
<1>17. Items' = Tail(Items)
  <2>1. /\ Tail(Items) \in Seq(Value) /\ Len(Tail(Items)) = n - 1
        /\ \A k \in 1 .. n - 1 : Tail(Items)[k] = Items[k + 1]
    BY <1>10, <1>15, HeadTailProperties
  <2>2. ASSUME NEW k \in 1 .. n - 1 PROVE Items'[k] = Tail(Items)[k]
    <3>1. k + 1 \in 1 .. n  BY <1>15
    <3> QED BY <1>10, <1>11, <1>14, <2>1, <3>1
  <2> QED BY <1>11, <2>1, <2>2, SeqEqual
<1> QED BY <1>1, <1>3, <1>5, <1>6, <1>7, <1>15, <1>16, <1>17
        DEF Deque!PopFront, Deque!Finish, locals

(* A test that fails refuses the call, because the deque is full or empty  *)
(* at that instant.                                                        *)
LEMMA TestRefuses ==
  ASSUME DequeInv, DequeInv', NEW a \in Actor,
         pc' = [pc EXCEPT ![a] = "return"], UNCHANGED <<shared, locals>>,
         \/ pc[a] = "e_full" /\ head = Succ(curTail[a])
         \/ pc[a] = "d_empty" /\ curHead[a] = tail
  PROVE  Deque!Refuse(a)
<1> USE DEF DequeInv, TypeOK
<1>1. /\ "return" \in PC /\ StageOf("return") = "done"
      /\ StageOf("e_full") = "pending" /\ StageOf("d_empty") = "pending"
  BY DEF PC, StageOf
<1>2. stage[a] = "pending" /\ stage' = [stage EXCEPT ![a] = "done"]
  BY <1>1, StageKept DEF stage
<1>3. ~ok[a] /\ abstractOk' = [abstractOk EXCEPT ![a] = FALSE]
  <2>1. ~ok[a]  BY DEF Remembered, EnqPc, DeqPc
  <2> QED BY <1>1, <2>1, OkKept DEF locals
<1>4. Items' = Items
  BY QuietKeepsItems DEF shared, locals
<1>5. CASE pc[a] = "e_full" /\ head = Succ(curTail[a])
  <2>1. op[a] = "enqueue" /\ curTail[a] = tail
    BY <1>5 DEF Remembered, EnqPc, FreshChecks, ProducerView
  <2>2. abstractVal' = abstractVal
    BY <1>1, <2>1 DEF abstractVal, locals
  <2>3. Len(Items) = Size - 1
    BY <1>5, <2>1, ItemsFact, DistFacts
  <2> QED BY <1>2, <1>3, <1>4, <2>1, <2>2, <2>3
          DEF Deque!Refuse, Deque!Finish, locals
<1>6. CASE pc[a] = "d_empty" /\ curHead[a] = tail
  <2>1. op[a] = "dequeue" /\ curHead[a] = head /\ val[a] = Zero
    BY <1>6 DEF Remembered, DeqPc, FreshChecks, ConsumerView
  <2>2. abstractVal' = abstractVal
    BY <1>1, <1>6, <2>1 DEF abstractVal, locals
  <2>3. Items = << >>
    <3>1. Items \in Seq(Value) /\ Len(Items) = 0
      BY <1>6, <2>1, ItemsFact, DistFacts
    <3> QED BY <3>1, EmptySeq
  <2> QED BY <1>2, <1>3, <1>4, <2>1, <2>2, <2>3
          DEF Deque!Refuse, Deque!Finish, locals
<1> QED BY <1>5, <1>6

LEMMA ReturnReturns ==
  ASSUME DequeInv, DequeInv', NEW a \in Actor, Return(a)
  PROVE  Deque!Return(a)
<1> USE DEF DequeInv, TypeOK
<1>1. /\ pc[a] = "return" /\ pc' = [pc EXCEPT ![a] = "idle"]
      /\ UNCHANGED <<shared, locals>>
  BY DEF Return, Goto
<1>2. "idle" \in PC /\ StageOf("return") = "done" /\ StageOf("idle") = "idle"
  BY DEF PC, StageOf
<1>3. stage[a] = "done" /\ stage' = [stage EXCEPT ![a] = "idle"]
  BY <1>1, <1>2, StageKept DEF stage
<1>4. abstractVal' = abstractVal
  BY <1>1, <1>2 DEF abstractVal, locals
<1>5. abstractOk' = abstractOk
  BY <1>1 DEF abstractOk, locals
<1>6. Items' = Items
  BY <1>1, QuietKeepsItems DEF shared, locals
<1> QED BY <1>1, <1>3, <1>4, <1>5, <1>6 DEF Deque!Return, locals

(* The clearing of a slot takes its entry into the dequeuer's *val.        *)
LEMMA ClearHides ==
  ASSUME DequeInv, DequeInv', NEW a \in Actor, DeqZero(a)
  PROVE  Items' = Items
<1> USE DEF DequeInv, TypeOK
<1>1. /\ pc[a] = "d_zero" /\ pc' = [pc EXCEPT ![a] = "d_publish"]
      /\ slot' = [slot EXCEPT ![curHead[a]] = Zero]
      /\ UNCHANGED <<head, tail, entCnt, locals>>
  BY DEF DeqZero, Goto
<1>2. curHead[a] = head /\ slot[head] = val[a]
  BY <1>1 DEF Remembered, FreshChecks, ConsumerView
<1>3. \A b \in Actor : pc[b] # "d_publish"
  BY <1>1, OnlyOne DEF DeqPc
<1>4. ASSUME NEW i \in Index PROVE Entry(i)' = Entry(i)
  <2>1. Entry(i) = slot[i]  BY <1>3, EntryFact
  <2>2. pc'[a] = "d_publish" /\ val' = val  BY <1>1 DEF locals
  <2>3. Entry(i)' = IF i = head' THEN val'[a] ELSE slot'[i]
    BY <2>2, NextEntry
  <2> QED BY <1>1, <1>2, <2>1, <2>2, <2>3
<1> QED BY <1>1, <1>4, ItemsKept

LEMMA StepImplements ==
  DequeInv /\ DequeInv' /\ [Next]_vars => [Deque!Next]_(Deque!vars)
<1> SUFFICES ASSUME DequeInv, DequeInv', [Next]_vars
             PROVE  Deque!Next \/ UNCHANGED Deque!vars
  OBVIOUS
<1>0. ops' = ops
  BY DEF Next, vars
<1> USE <1>0
<1>00. TypeOK /\ FreshChecks /\ Remembered
  BY DEF DequeInv
<1>1. ASSUME NEW a \in Actor, NEW o \in OpName, NEW v \in Value, Call(a, o, v)
      PROVE  Deque!Next
  BY <1>1, CallCalls DEF Deque!Next, Deque!OpName, OpName
<1>2. ASSUME NEW a \in Actor, LoadTail(a) PROVE UNCHANGED Deque!vars
  <2>1. /\ pc[a] = "e_tail" /\ pc' = [pc EXCEPT ![a] = "e_full"]
        /\ UNCHANGED <<shared, op, val, ok>>
    BY <1>2, OnlyOne DEF LoadTail, Goto, FrnPc
  <2>2. "e_full" \in PC /\ StageOf("e_full") = "pending" /\ StageOf(pc[a]) = "pending"
    BY <2>1 DEF PC, EnqPc, StageOf
  <2>3. Items' = Items
    BY <2>1, <1>00, QuietKeepsItems DEF TypeOK, shared
  <2> QED BY <2>1, <2>2, <2>3, Invisible
<1>3. ASSUME NEW a \in Actor, Enqueue(a) PROVE Deque!Next \/ UNCHANGED Deque!vars
  <2>1. CASE EnqTest(a)
    <3>1. CASE head = Succ(curTail[a])
      <4>1. Deque!Refuse(a)
        BY <2>1, <3>1, TestRefuses DEF EnqTest, Goto
      <4> QED BY <4>1 DEF Deque!Next
    <3>2. CASE head # Succ(curTail[a])
      <4>1. /\ pc[a] = "e_full" /\ pc' = [pc EXCEPT ![a] = "e_slot"]
            /\ UNCHANGED <<shared, locals>>
        BY <2>1, <3>2 DEF EnqTest, Goto
      <4>2. "e_slot" \in PC /\ StageOf("e_slot") = "pending" /\ StageOf(pc[a]) = "pending"
        BY <4>1 DEF PC, EnqPc, StageOf
      <4>3. Items' = Items
        BY <4>1, <1>00, QuietKeepsItems DEF TypeOK, shared, locals
      <4> QED BY <4>1, <4>2, <4>3, Invisible DEF locals
    <3> QED BY <3>1, <3>2
  <2>2. CASE EnqWrite(a)
    <3>1. /\ pc[a] = "e_slot" /\ pc' = [pc EXCEPT ![a] = "e_publish"]
          /\ slot' = [slot EXCEPT ![curTail[a]] = val[a]]
          /\ UNCHANGED <<head, tail, locals>>
      BY <2>2 DEF EnqWrite, Goto
    <3>2. curTail[a] = tail
      BY <3>1, <1>00 DEF FreshChecks, ProducerView
    <3>3. "e_publish" \in PC /\ StageOf("e_publish") = "pending" /\ StageOf(pc[a]) = "pending"
      BY <3>1 DEF PC, EnqPc, StageOf
    <3>4. Items' = Items
      BY <3>1, <3>2, <1>00, QuietKeepsItems DEF TypeOK, locals
    <3> QED BY <3>1, <3>3, <3>4, Invisible DEF locals
  <2>3. CASE EnqPublish(a)
    BY <2>3, PublishPushes DEF Deque!Next
  <2>4. CASE EnqCount(a)
    <3>1. /\ pc[a] = "e_count" /\ pc' = [pc EXCEPT ![a] = "return"]
          /\ ok' = [ok EXCEPT ![a] = TRUE]
          /\ UNCHANGED <<slot, head, tail, op, val>>
      BY <2>4 DEF EnqCount, Count, Goto
    <3>2. Items' = Items
      BY <3>1, <1>00, QuietKeepsItems DEF TypeOK
    <3> QED BY <3>1, <3>2, CountInvisible
  <2> QED BY <1>3, <2>1, <2>2, <2>3, <2>4 DEF Enqueue
<1>4. ASSUME NEW a \in Actor, EnqueueFront(a) PROVE FALSE
  BY <1>4, OnlyOne DEF EnqueueFront, FrontTest, FrontPublish, FrontReload,
                       FrontWrite, FrontCount, Count, Goto, FrnPc
<1>5. ASSUME NEW a \in Actor, Dequeue(a) PROVE Deque!Next \/ UNCHANGED Deque!vars
  <2>1. CASE DeqLoadHead(a)
    <3>1. /\ pc[a] = "d_head" /\ pc' = [pc EXCEPT ![a] = "d_empty"]
          /\ UNCHANGED <<shared, op, val, curTail, ok>>
      BY <2>1 DEF DeqLoadHead, Goto
    <3>2. "d_empty" \in PC /\ StageOf("d_empty") = "pending" /\ StageOf(pc[a]) = "pending"
      BY <3>1 DEF PC, DeqPc, StageOf
    <3>3. Items' = Items
      BY <3>1, <1>00, QuietKeepsItems DEF TypeOK, shared
    <3> QED BY <3>1, <3>2, <3>3, Invisible
  <2>2. CASE DeqTest(a)
    <3>1. CASE curHead[a] = tail
      <4>1. Deque!Refuse(a)
        BY <2>2, <3>1, TestRefuses DEF DeqTest, Goto
      <4> QED BY <4>1 DEF Deque!Next
    <3>2. CASE curHead[a] # tail
      <4>1. /\ pc[a] = "d_empty" /\ pc' = [pc EXCEPT ![a] = "d_read"]
            /\ UNCHANGED <<shared, locals>>
        BY <2>2, <3>2 DEF DeqTest, Goto
      <4>2. "d_read" \in PC /\ StageOf("d_read") = "pending" /\ StageOf(pc[a]) = "pending"
        BY <4>1 DEF PC, DeqPc, StageOf
      <4>3. Items' = Items
        BY <4>1, <1>00, QuietKeepsItems DEF TypeOK, shared, locals
      <4> QED BY <4>1, <4>2, <4>3, Invisible DEF locals
    <3> QED BY <3>1, <3>2
  <2>3. CASE DeqRead(a)
    <3>1. /\ pc[a] = "d_read" /\ pc' = [pc EXCEPT ![a] = "d_zero"]
          /\ val' = [val EXCEPT ![a] = slot[curHead[a]]]
          /\ UNCHANGED <<shared, op, curTail, curHead, ok>>
      BY <2>3 DEF DeqRead, Goto
    <3>2. "d_zero" \in PC /\ StageOf("d_zero") = "pending" /\ StageOf(pc[a]) = "pending"
      BY <3>1 DEF PC, DeqPc, StageOf
    <3>3. op[a] = "dequeue"
      BY <3>1, <1>00 DEF Remembered, DeqPc
    <3>4. Items' = Items
      BY <3>1, <1>00, QuietKeepsItems DEF TypeOK, shared
    <3> QED BY <3>1, <3>2, <3>3, <3>4, <1>00, Invisible DEF TypeOK
  <2>4. CASE DeqZero(a)
    <3>1. /\ pc[a] = "d_zero" /\ pc' = [pc EXCEPT ![a] = "d_publish"]
          /\ UNCHANGED locals
      BY <2>4 DEF DeqZero, Goto
    <3>2. "d_publish" \in PC /\ StageOf("d_publish") = "pending" /\ StageOf(pc[a]) = "pending"
      BY <3>1 DEF PC, DeqPc, StageOf
    <3>3. Items' = Items
      BY <2>4, ClearHides
    <3> QED BY <3>1, <3>2, <3>3, Invisible DEF locals
  <2>5. CASE DeqPublish(a)
    BY <2>5, PublishPops DEF Deque!Next
  <2>6. CASE DeqCount(a)
    <3>1. /\ pc[a] = "d_count" /\ pc' = [pc EXCEPT ![a] = "return"]
          /\ ok' = [ok EXCEPT ![a] = TRUE]
          /\ UNCHANGED <<slot, head, tail, op, val>>
      BY <2>6 DEF DeqCount, Count, Goto
    <3>2. Items' = Items
      BY <3>1, <1>00, QuietKeepsItems DEF TypeOK
    <3> QED BY <3>1, <3>2, CountInvisible
  <2> QED BY <1>5, <2>1, <2>2, <2>3, <2>4, <2>5, <2>6 DEF Dequeue
<1>6. ASSUME NEW a \in Actor, Return(a) PROVE Deque!Next
  BY <1>6, ReturnReturns DEF Deque!Next
<1>7. CASE UNCHANGED vars
  <2>1. UNCHANGED <<ops, slot, head, tail, pc, op, val, curHead, ok>>
    BY <1>7 DEF vars, shared, locals
  <2>2. Items' = Items
    BY <2>1 DEF Items, Length, First, Opening, Entry, Clearing, Dist, Place, Succ
  <2> QED BY <2>1, <2>2 DEF Deque!vars, stage, abstractVal, abstractOk
<1> QED BY <1>1, <1>2, <1>3, <1>4, <1>5, <1>6, <1>7 DEF Next

LEMMA InitImplements == SPSC /\ Init => Deque!Init
<1> SUFFICES ASSUME SPSC, Init PROVE Deque!Init
  OBVIOUS
<1>1. DequeInv
  BY InitDeque
<1>2. Items = << >>
  <2>1. head = tail /\ head \in Index  BY <1>1 DEF Init, DequeInv, TypeOK
  <2>2. Items \in Seq(Value) /\ Len(Items) = 0
    BY <1>1, <2>1, ItemsFact, DistFacts
  <2> QED BY <2>2, EmptySeq
<1>3. stage = [a \in Actor |-> "idle"]
  BY DEF stage, StageOf, Init
<1>4. abstractVal = [a \in Actor |-> Zero]
  BY DEF abstractVal, Init
<1>5. abstractOk = [a \in Actor |-> FALSE]
  BY DEF abstractOk, Init
<1> QED BY <1>2, <1>3, <1>4, <1>5 DEF Deque!Init, Init

(* With one enqueuer and one dequeuer, stdqueue.c keeps the promise of     *)
(* stdqueue.h for any size: every call takes effect at one instant, first  *)
(* in first out, and is refused only when the queue is full or empty.      *)
THEOREM QueueLinearizable == SPSC => (Spec => Linearizable)
<1> SUFFICES ASSUME SPSC PROVE Spec => Linearizable
  OBVIOUS
<1>1. Init => Deque!Init
  BY InitImplements
<1>2. DequeInv /\ DequeInv' /\ [Next]_vars => [Deque!Next]_(Deque!vars)
  BY StepImplements
<1> QED BY <1>1, <1>2, DequeInOrder, PTL DEF Spec, Linearizable, Deque!Spec

-----------------------------------------------------------------------------
(* The count: at most one enqueue and one dequeue are not yet counted.     *)
LEMMA UncountedFact ==
  DequeInv => \A a \in Actor :
    /\ pc[a] \in EnqPc =>
         Cardinality(Uncounted({"e_count", "f_count"}))
           = IF pc[a] = "e_count" THEN 1 ELSE 0
    /\ pc[a] \in DeqPc =>
         Cardinality(Uncounted({"d_count"})) = IF pc[a] = "d_count" THEN 1 ELSE 0
<1> SUFFICES ASSUME DequeInv, NEW a \in Actor
             PROVE  /\ pc[a] \in EnqPc =>
                         Cardinality(Uncounted({"e_count", "f_count"}))
                           = IF pc[a] = "e_count" THEN 1 ELSE 0
                    /\ pc[a] \in DeqPc =>
                         Cardinality(Uncounted({"d_count"}))
                           = IF pc[a] = "d_count" THEN 1 ELSE 0
  OBVIOUS
<1>1. \A x : Cardinality({x}) = 1
  BY FS_Singleton
<1>2. Cardinality({}) = 0
  BY FS_EmptySet
<1>3. ASSUME pc[a] \in EnqPc
      PROVE  Uncounted({"e_count", "f_count"}) = IF pc[a] = "e_count" THEN {a} ELSE {}
  BY <1>3, OnlyOne DEF Uncounted, EnqPc, FrnPc
<1>4. ASSUME pc[a] \in DeqPc
      PROVE  Uncounted({"d_count"}) = IF pc[a] = "d_count" THEN {a} ELSE {}
  BY <1>4, OnlyOne DEF Uncounted, DeqPc
<1> QED BY <1>1, <1>2, <1>3, <1>4

LEMMA NextUncounted ==
  DequeInv' => (\A a \in Actor :
    /\ pc[a] \in EnqPc =>
         Cardinality(Uncounted({"e_count", "f_count"}))
           = IF pc[a] = "e_count" THEN 1 ELSE 0
    /\ pc[a] \in DeqPc =>
         Cardinality(Uncounted({"d_count"})) = IF pc[a] = "d_count" THEN 1 ELSE 0)'
BY UncountedFact, PTL

(* Who has returned or not yet published is in neither set.                *)
LEMMA UncountedKept ==
  ASSUME DequeInv, NEW a \in Actor, NEW p \in PC, pc' = [pc EXCEPT ![a] = p],
         NEW s, pc[a] \notin s, p \notin s
  PROVE  Uncounted(s)' = Uncounted(s)
BY DEF Uncounted, DequeInv, TypeOK

LEMMA StepCount ==
  DequeInv /\ DequeInv' /\ CountAccurate /\ [Next]_vars => CountAccurate'
<1> SUFFICES ASSUME DequeInv, DequeInv', CountAccurate, [Next]_vars
             PROVE  CountAccurate'
  OBVIOUS
<1> DEFINE in  == Cardinality(Uncounted({"e_count", "f_count"}))
           out == Cardinality(Uncounted({"d_count"}))
           n   == Dist(head, tail)
<1>1. entCnt = n - in + out
  BY FirstFact DEF CountAccurate
<1>2. SUFFICES entCnt' = n' - in' + out'
  BY NextFirst DEF CountAccurate
<1>3. /\ TypeOK /\ TypeOK' /\ ProducerView /\ ConsumerView
      /\ head \in Index /\ tail \in Index /\ entCnt \in Int
      /\ \A a \in Actor : pc[a] \in PC /\ pc[a] \notin FrnPc
  BY OnlyOne DEF DequeInv, FreshChecks, TypeOK
<1>4. n \in Int /\ in \in Int /\ out \in Int
  <2>1. n \in Int
    BY <1>3, DistFacts, SizeAssumption
  <2>2. in \in Int
    <3>1. CASE \E a \in Actor : pc[a] = "e_count"
      BY <3>1, UncountedFact DEF EnqPc
    <3>2. CASE \A a \in Actor : pc[a] # "e_count"
      <4>1. Uncounted({"e_count", "f_count"}) = {}
        BY <1>3, <3>2 DEF Uncounted, FrnPc
      <4> QED BY <4>1, FS_EmptySet
    <3> QED BY <3>1, <3>2
  <2>3. out \in Int
    <3>1. CASE \E a \in Actor : pc[a] = "d_count"
      BY <3>1, UncountedFact DEF DeqPc
    <3>2. CASE \A a \in Actor : pc[a] # "d_count"
      <4>1. Uncounted({"d_count"}) = {}
        BY <3>2 DEF Uncounted
      <4> QED BY <4>1, FS_EmptySet
    <3> QED BY <3>1, <3>2
  <2> QED BY <2>1, <2>2, <2>3
<1>5. ASSUME NEW a \in Actor, NEW p \in PC, pc' = [pc EXCEPT ![a] = p],
             pc[a] \notin {"e_count", "f_count", "d_count"},
             p \notin {"e_count", "f_count", "d_count"},
             head' = head, tail' = tail, entCnt' = entCnt
      PROVE  entCnt' = n' - in' + out'
  <2>1. in' = in /\ out' = out
    BY <1>5, UncountedKept
  <2> QED BY <1>1, <1>5, <2>1
<1>6. ASSUME NEW a \in Actor, NEW o \in OpName, NEW v \in Value, Call(a, o, v)
      PROVE  entCnt' = n' - in' + out'
  <2>1. pc[a] = "idle" /\ UNCHANGED shared
    BY <1>6 DEF Call, Goto
  <2>2. \E p \in {"e_tail", "f_tail", "d_head"} : pc' = [pc EXCEPT ![a] = p]
    <3>1. CASE o = "enqueue"        BY <1>6, <3>1 DEF Call, Goto
    <3>2. CASE o = "enqueue_front"  BY <1>6, <3>2 DEF Call, Goto
    <3>3. CASE o = "dequeue"        BY <1>6, <3>3 DEF Call, Goto
    <3> QED BY <3>1, <3>2, <3>3 DEF OpName
  <2> QED BY <1>5, <2>1, <2>2 DEF shared, PC, EnqPc, FrnPc, DeqPc
<1>7. ASSUME NEW a \in Actor, LoadTail(a) PROVE entCnt' = n' - in' + out'
  BY <1>5, <1>7 DEF LoadTail, Goto, shared, PC, EnqPc, FrnPc
<1>8. ASSUME NEW a \in Actor, Enqueue(a) PROVE entCnt' = n' - in' + out'
  <2>1. CASE EnqTest(a)
    BY <1>5, <2>1 DEF EnqTest, Goto, shared, PC, EnqPc
  <2>2. CASE EnqWrite(a)
    BY <1>5, <2>2 DEF EnqWrite, Goto, PC, EnqPc
  <2>3. CASE EnqPublish(a)
    <3>1. /\ pc[a] = "e_publish" /\ pc' = [pc EXCEPT ![a] = "e_count"]
          /\ pc'[a] = "e_count" /\ entCnt' = entCnt /\ head' = head
          /\ tail' = Succ(tail) /\ head # Succ(tail)
      BY <1>3, <2>3 DEF EnqPublish, Goto, ProducerView, TypeOK
    <3>2. in = 0 /\ in' = 1
      BY <3>1, UncountedFact, NextUncounted DEF EnqPc
    <3>3. out' = out
      BY <3>1, UncountedKept DEF PC, EnqPc
    <3>4. n' = n + 1
      BY <1>3, <3>1, DistFacts
    <3> QED BY <1>1, <1>3, <1>4, <3>1, <3>2, <3>3, <3>4
  <2>4. CASE EnqCount(a)
    <3>1. /\ pc[a] = "e_count" /\ pc' = [pc EXCEPT ![a] = "return"]
          /\ entCnt' = entCnt + 1 /\ head' = head /\ tail' = tail
      BY <2>4 DEF EnqCount, Count, Goto
    <3>2. in = 1
      BY <3>1, UncountedFact DEF EnqPc
    <3>3. in' = 0
      <4>1. Uncounted({"e_count", "f_count"})' = {}
        BY <1>3, <3>1, OnlyOne DEF Uncounted, EnqPc, FrnPc, TypeOK
      <4> QED BY <4>1, FS_EmptySet
    <3>4. out' = out
      <4>1. "return" \in PC  BY DEF PC
      <4>2. Uncounted({"d_count"})' = Uncounted({"d_count"})
        BY <3>1, <4>1, UncountedKept
      <4> QED BY <4>2
    <3> QED BY <1>1, <1>3, <1>4, <3>1, <3>2, <3>3, <3>4
  <2> QED BY <1>8, <2>1, <2>2, <2>3, <2>4 DEF Enqueue
<1>9. ASSUME NEW a \in Actor, EnqueueFront(a) PROVE FALSE
  BY <1>3, <1>9 DEF EnqueueFront, FrontTest, FrontPublish, FrontReload,
                    FrontWrite, FrontCount, Count, Goto, FrnPc
<1>10. ASSUME NEW a \in Actor, Dequeue(a) PROVE entCnt' = n' - in' + out'
  <2>1. CASE DeqLoadHead(a)
    BY <1>5, <2>1 DEF DeqLoadHead, Goto, shared, PC, DeqPc
  <2>2. CASE DeqTest(a)
    BY <1>5, <2>2 DEF DeqTest, Goto, shared, PC, DeqPc
  <2>3. CASE DeqRead(a)
    BY <1>5, <2>3 DEF DeqRead, Goto, shared, PC, DeqPc
  <2>4. CASE DeqZero(a)
    BY <1>5, <2>4 DEF DeqZero, Goto, PC, DeqPc
  <2>5. CASE DeqPublish(a)
    <3>1. /\ pc[a] = "d_publish" /\ pc' = [pc EXCEPT ![a] = "d_count"]
          /\ pc'[a] = "d_count" /\ entCnt' = entCnt /\ tail' = tail
          /\ head' = Succ(head) /\ head # tail
      BY <1>3, <2>5 DEF DeqPublish, Goto, ConsumerView, TypeOK
    <3>2. out = 0 /\ out' = 1
      BY <3>1, UncountedFact, NextUncounted DEF DeqPc
    <3>3. in' = in
      BY <3>1, UncountedKept DEF PC, DeqPc
    <3>4. n' = n - 1
      BY <1>3, <3>1, DistFacts
    <3> QED BY <1>1, <1>3, <1>4, <3>1, <3>2, <3>3, <3>4
  <2>6. CASE DeqCount(a)
    <3>1. /\ pc[a] = "d_count" /\ pc' = [pc EXCEPT ![a] = "return"]
          /\ entCnt' = entCnt - 1 /\ head' = head /\ tail' = tail
      BY <1>3, <2>6 DEF DeqCount, Count, Goto
    <3>2. out = 1
      BY <3>1, UncountedFact DEF DeqPc
    <3>3. out' = 0
      <4>1. Uncounted({"d_count"})' = {}
        BY <1>3, <3>1, OnlyOne DEF Uncounted, DeqPc, TypeOK
      <4> QED BY <4>1, FS_EmptySet
    <3>4. in' = in
      <4>1. "return" \in PC  BY DEF PC
      <4>2. Uncounted({"e_count", "f_count"})' = Uncounted({"e_count", "f_count"})
        BY <3>1, <4>1, UncountedKept
      <4> QED BY <4>2
    <3> QED BY <1>1, <1>3, <1>4, <3>1, <3>2, <3>3, <3>4
  <2> QED BY <1>10, <2>1, <2>2, <2>3, <2>4, <2>5, <2>6 DEF Dequeue
<1>11. ASSUME NEW a \in Actor, Return(a) PROVE entCnt' = n' - in' + out'
  BY <1>5, <1>11 DEF Return, Goto, shared, PC
<1>12. CASE UNCHANGED vars
  BY <1>1, <1>12 DEF vars, shared, Uncounted
<1> QED BY <1>6, <1>7, <1>8, <1>9, <1>10, <1>11, <1>12 DEF Next

(* With one enqueuer and one dequeuer, ent_cnt is the number of entries up *)
(* to the calls that are between their effect and their ent_cnt++ or       *)
(* ent_cnt--, for any size of the ring.                                    *)
THEOREM CountRight == SPSC => (Spec => []CountAccurate)
<1> SUFFICES ASSUME SPSC PROVE Spec => []CountAccurate
  OBVIOUS
<1>1. Init => CountAccurate
  <2> SUFFICES ASSUME Init PROVE CountAccurate
    OBVIOUS
  <2>1. DequeInv /\ head \in Index /\ tail \in Index
    BY InitDeque DEF DequeInv, TypeOK
  <2>2. Length = 0
    BY <2>1, FirstFact, DistFacts DEF Init
  <2>3. Uncounted({"e_count", "f_count"}) = {} /\ Uncounted({"d_count"}) = {}
    BY DEF Init, Uncounted
  <2> QED BY <2>2, <2>3, FS_EmptySet DEF Init, CountAccurate
<1>2. DequeInv /\ DequeInv' /\ CountAccurate /\ [Next]_vars => CountAccurate'
  BY StepCount
<1> QED BY <1>1, <1>2, DequeInOrder, PTL DEF Spec

=============================================================================

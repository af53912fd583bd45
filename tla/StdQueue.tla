------------------------------ MODULE StdQueue ------------------------------
(***************************************************************************)
(* The ring queue of common/src/stdqueue.c, one shared access per step.    *)
(*                                                                         *)
(* head, tail and ent_cnt are _Atomic (stdqueue.h), so each load, store    *)
(* and increment of them is one indivisible, sequentially consistent step; *)
(* the slots are plain memory, so two actors touching one slot with no     *)
(* order between them is a data race.  The queue has no lock: which actors *)
(* may call which of its functions is the discipline ops, one of the       *)
(* parameter Disciplines; what is safe depends on it.                      *)
(***************************************************************************)
EXTENDS Integers, FiniteSets

CONSTANTS
  Size,    \* queue_t.size: the ring holds at most Size - 1 entries
  Value,   \* the values callers enqueue
  Zero,    \* the word 0, which a dequeue leaves behind in the slot
  Actor,   \* the cores (or contexts) that call the queue's functions
  Disciplines   \* the ways to share the queue: d[a] is what actor a calls

OpName == {"enqueue", "enqueue_front", "dequeue"}

ASSUME SizeAssumption  == Size \in Nat \ {0}
ASSUME ValueAssumption == Zero \in Value
ASSUME DisciplinesAssumption == Disciplines \subseteq [Actor -> SUBSET OpName]

VARIABLES
  ops,      \* the discipline the actors keep to
  slot,     \* q->queue
  head,     \* q->head: the next slot to dequeue
  tail,     \* q->tail: the next slot to enqueue into
  entCnt,   \* q->ent_cnt
  pc,       \* the step each actor is about to take, "idle" between calls
  op,       \* the function each actor is in
  val,      \* its argument val, or *val for a dequeue
  curTail,  \* its local curTail
  curHead,  \* its local curHead
  ok        \* its return value

shared == <<slot, head, tail, entCnt>>
locals == <<op, val, curTail, curHead, ok>>
vars   == <<ops, shared, pc, locals>>

Index == 0 .. Size - 1
EnqPc == {"e_tail", "e_full", "e_slot", "e_publish", "e_count"}
FrnPc == {"f_tail", "f_head", "f_publish", "f_reload", "f_slot", "f_count"}
DeqPc == {"d_head", "d_empty", "d_read", "d_zero", "d_publish", "d_count"}
PC    == EnqPc \cup FrnPc \cup DeqPc \cup {"idle", "return"}

(* The successor and predecessor of an index, as the C code computes them. *)
Succ(i) == (i + 1) % Size
Pred(i) == IF i > 0 THEN (i - 1) % Size ELSE Size - 1

-----------------------------------------------------------------------------
(* queue_init: malloc does not clear the slots. *)
Init ==
  /\ ops \in Disciplines
  /\ slot \in [Index -> Value]
  /\ head = 0 /\ tail = 0 /\ entCnt = 0
  /\ pc      = [a \in Actor |-> "idle"]
  /\ op      = [a \in Actor |-> "dequeue"]
  /\ val     = [a \in Actor |-> Zero]
  /\ curTail = [a \in Actor |-> 0]
  /\ curHead = [a \in Actor |-> 0]
  /\ ok      = [a \in Actor |-> FALSE]

Goto(a, from, to) == pc[a] = from /\ pc' = [pc EXCEPT ![a] = to]

(* An actor enters one of its functions with argument v.                   *)
Call(a, o, v) ==
  /\ o \in ops[a]
  /\ o = "dequeue" => v = Zero
  /\ Goto(a, "idle", CASE o = "enqueue"       -> "e_tail"
                       [] o = "enqueue_front" -> "f_tail"
                       [] o = "dequeue"       -> "d_head")
  /\ op'  = [op EXCEPT ![a] = o]
  /\ val' = [val EXCEPT ![a] = v]
  /\ ok'  = [ok EXCEPT ![a] = FALSE]
  /\ UNCHANGED <<shared, curTail, curHead>>

Return(a) ==
  /\ Goto(a, "return", "idle")
  /\ UNCHANGED <<shared, locals>>

(* The first load of an enqueue, at either end.                            *)
LoadTail(a) ==
  /\ \/ Goto(a, "e_tail", "e_full")
     \/ Goto(a, "f_tail", "f_head")
  /\ curTail' = [curTail EXCEPT ![a] = tail]
  /\ UNCHANGED <<shared, op, val, curHead, ok>>

(* ent_cnt++ or ent_cnt--, an atomic read-modify-write; then return true.  *)
Count(a, from, delta) ==
  /\ Goto(a, from, "return")
  /\ entCnt' = entCnt + delta
  /\ ok' = [ok EXCEPT ![a] = TRUE]
  /\ UNCHANGED <<slot, head, tail, op, val, curTail, curHead>>

-----------------------------------------------------------------------------
(* queue_tryenqueue                                                        *)

(* Mutant of EnqTest: a full ring is not noticed.                          *)
EnqTest_Unguarded(a) ==
  /\ Goto(a, "e_full", "e_slot")
  /\ UNCHANGED <<shared, locals>>

EnqTest(a) ==
  /\ Goto(a, "e_full", IF head = Succ(curTail[a]) THEN "return" ELSE "e_slot")
  /\ UNCHANGED <<shared, locals>>

EnqWrite(a) ==
  /\ Goto(a, "e_slot", "e_publish")
  /\ slot' = [slot EXCEPT ![curTail[a]] = val[a]]
  /\ UNCHANGED <<head, tail, entCnt, locals>>

EnqPublish(a) ==
  /\ Goto(a, "e_publish", "e_count")
  /\ tail' = Succ(curTail[a])
  /\ UNCHANGED <<slot, head, entCnt, locals>>

EnqCount(a) == Count(a, "e_count", 1)

-----------------------------------------------------------------------------
(* queue_tryenqueue_front: head is published before the slot is written.   *)

FrontTest(a) ==
  /\ Goto(a, "f_head", IF head = Succ(curTail[a]) THEN "return" ELSE "f_publish")
  /\ curHead' = [curHead EXCEPT ![a] = head]
  /\ UNCHANGED <<shared, op, val, curTail, ok>>

FrontPublish(a) ==
  /\ Goto(a, "f_publish", "f_reload")
  /\ head' = Pred(curHead[a])
  /\ UNCHANGED <<slot, tail, entCnt, locals>>

(* q->queue[q->head] = val loads head again before it stores the slot.     *)
FrontReload(a) ==
  /\ Goto(a, "f_reload", "f_slot")
  /\ curHead' = [curHead EXCEPT ![a] = head]
  /\ UNCHANGED <<shared, op, val, curTail, ok>>

FrontWrite(a) ==
  /\ Goto(a, "f_slot", "f_count")
  /\ slot' = [slot EXCEPT ![curHead[a]] = val[a]]
  /\ UNCHANGED <<head, tail, entCnt, locals>>

(* Mutant of FrontCount: ent_cnt goes down, as in the other user of head.  *)
FrontCount_Down(a) == Count(a, "f_count", -1)

FrontCount(a) == Count(a, "f_count", 1)

-----------------------------------------------------------------------------
(* queue_trydequeue                                                        *)

DeqLoadHead(a) ==
  /\ Goto(a, "d_head", "d_empty")
  /\ curHead' = [curHead EXCEPT ![a] = head]
  /\ UNCHANGED <<shared, op, val, curTail, ok>>

DeqTest(a) ==
  /\ Goto(a, "d_empty", IF curHead[a] = tail THEN "return" ELSE "d_read")
  /\ UNCHANGED <<shared, locals>>

DeqRead(a) ==
  /\ Goto(a, "d_read", "d_zero")
  /\ val' = [val EXCEPT ![a] = slot[curHead[a]]]
  /\ UNCHANGED <<shared, op, curTail, curHead, ok>>

(* Mutant of DeqZero: the slot behind head's is cleared.                   *)
DeqZero_Next(a) ==
  /\ Goto(a, "d_zero", "d_publish")
  /\ slot' = [slot EXCEPT ![Succ(curHead[a])] = Zero]
  /\ UNCHANGED <<head, tail, entCnt, locals>>

DeqZero(a) ==
  /\ Goto(a, "d_zero", "d_publish")
  /\ slot' = [slot EXCEPT ![curHead[a]] = Zero]
  /\ UNCHANGED <<head, tail, entCnt, locals>>

DeqPublish(a) ==
  /\ Goto(a, "d_publish", "d_count")
  /\ head' = Succ(curHead[a])
  /\ UNCHANGED <<slot, tail, entCnt, locals>>

DeqCount(a) == Count(a, "d_count", -1)

-----------------------------------------------------------------------------
Enqueue(a)      == EnqTest(a) \/ EnqWrite(a) \/ EnqPublish(a) \/ EnqCount(a)
EnqueueFront(a) == \/ FrontTest(a) \/ FrontPublish(a) \/ FrontReload(a)
                   \/ FrontWrite(a) \/ FrontCount(a)
Dequeue(a)      == \/ DeqLoadHead(a) \/ DeqTest(a) \/ DeqRead(a)
                   \/ DeqZero(a) \/ DeqPublish(a) \/ DeqCount(a)

Next ==
  /\ \E a \in Actor :
       \/ \E o \in OpName, v \in Value : Call(a, o, v)
       \/ LoadTail(a) \/ Enqueue(a) \/ EnqueueFront(a) \/ Dequeue(a)
       \/ Return(a)
  /\ UNCHANGED ops

Spec == Init /\ [][Next]_vars

-----------------------------------------------------------------------------
(* How many steps lead from index i to index j, and the k-th of them.      *)
Dist(i, j)  == (j - i) % Size
Place(i, k) == (i + k - 1) % Size

(* The entries between head and tail.  An actor that has moved head back   *)
(* for a front enqueue but not yet stored its slot has not added it yet.   *)
Opening == \E a \in Actor : pc[a] \in {"f_reload", "f_slot"}
First   == IF Opening THEN Succ(head) ELSE head
Length  == Dist(First, tail)

(* The entry in slot i; a dequeue clears the slot before it moves head.    *)
Clearing(i) == {a \in Actor : pc[a] = "d_publish" /\ curHead[a] = i}

Entry(i) ==
  IF Clearing(i) = {} THEN slot[i] ELSE val[CHOOSE a \in Clearing(i) : TRUE]

Items == [k \in 1 .. Length |-> Entry(Place(First, k))]

(* Calls that have taken effect but not yet counted themselves in ent_cnt. *)
Uncounted(s) == {a \in Actor : pc[a] \in s}

(* The effect of a call has happened once its publication has.             *)
StageOf(p) ==
  CASE p = "idle" -> "idle"
    [] p \in {"e_count", "f_count", "d_count", "return"} -> "done"
    [] OTHER -> "pending"

stage == [a \in Actor |-> StageOf(pc[a])]

(* What the caller sees of *val: nothing until the effect has happened.    *)
abstractVal ==
  [a \in Actor |-> IF op[a] = "dequeue" /\ StageOf(pc[a]) = "pending"
                     THEN Zero ELSE val[a]]

abstractOk ==
  [a \in Actor |-> ok[a] \/ pc[a] \in {"e_count", "f_count", "d_count"}]

Deque == INSTANCE BoundedDeque WITH
           Capacity <- Size - 1, items <- Items, val <- abstractVal,
           ok <- abstractOk

TypeOK ==
  /\ ops \in Disciplines
  /\ slot \in [Index -> Value]
  /\ head \in Index /\ tail \in Index
  /\ entCnt \in Int
  /\ pc \in [Actor -> PC]
  /\ op \in [Actor -> OpName]
  /\ val \in [Actor -> Value]
  /\ curTail \in [Actor -> Index]
  /\ curHead \in [Actor -> Index]
  /\ ok \in [Actor -> BOOLEAN]

(* One actor enqueues and one dequeues (they may be the same), and nobody  *)
(* enqueues at the front, where head has a second writer.                  *)
Spsc(d) ==
  /\ \A a \in Actor : "enqueue_front" \notin d[a]
  /\ \A o \in OpName, a, b \in Actor : o \in d[a] /\ o \in d[b] => a = b

SPSC == \A d \in Disciplines : Spsc(d)

(* The slot the next step of actor a reads or writes, if it does.          *)
Touches(a, i) ==
  \/ pc[a] = "e_slot" /\ i = curTail[a]
  \/ pc[a] \in {"f_slot", "d_read", "d_zero"} /\ i = curHead[a]

(* No two actors are ever about to access the same slot of q->queue        *)
(* (queue_tryenqueue's store, queue_trydequeue's load and clear): the      *)
(* publication order of head and tail alone keeps the plain memory of the  *)
(* ring free of data races.                                                *)
SlotExclusive ==
  \A a, b \in Actor : \A i \in Index :
    a # b /\ Touches(a, i) => ~Touches(b, i)

(* An actor is inside a function only if it is one it calls.               *)
Roles ==
  \A a \in Actor :
    /\ pc[a] \in EnqPc => "enqueue" \in ops[a]
    /\ pc[a] \in FrnPc => "enqueue_front" \in ops[a]
    /\ pc[a] \in DeqPc => "dequeue" \in ops[a]

(* The producer's remembered tail is current, and past its full test the   *)
(* ring has room until it publishes.                                       *)
ProducerView ==
  \A a \in Actor :
    /\ pc[a] \in {"e_full", "e_slot", "e_publish"} => curTail[a] = tail
    /\ pc[a] \in {"e_slot", "e_publish"} => head # Succ(tail)

(* The consumer's remembered head is current, and past its empty test the  *)
(* ring holds an entry until it publishes.                                 *)
ConsumerView ==
  \A a \in Actor :
    /\ pc[a] \in {"d_empty", "d_read", "d_zero", "d_publish"} => curHead[a] = head
    /\ pc[a] \in {"d_read", "d_zero", "d_publish"} => head # tail

(* The checked values queue_tryenqueue and queue_trydequeue act on (the    *)
(* cached tail and head, the outcome of the full and empty tests) are      *)
(* still true when they are used, although the other side keeps moving.    *)
FreshChecks == Roles /\ ProducerView /\ ConsumerView

(* Every call of queue_tryenqueue, queue_tryenqueue_front and              *)
(* queue_trydequeue takes effect at one instant between its call and its   *)
(* return, in first-in first-out order, and fails only when the queue was  *)
(* full or empty at such an instant: no entry is lost, duplicated or       *)
(* reordered under any interleaving of one enqueuer and one dequeuer.      *)
Linearizable == Deque!Spec

(* ent_cnt differs from the number of entries by exactly the calls that    *)
(* have published but not yet counted, so it is right whenever no call is  *)
(* in flight and pagealloc_alloc may use it as its number of iterations.   *)
CountAccurate ==
  entCnt = Length - Cardinality(Uncounted({"e_count", "f_count"}))
                  + Cardinality(Uncounted({"d_count"}))

(* What an actor remembers besides head and tail still matches the ring:   *)
(* the slot it filled holds its value until it publishes, and the value it *)
(* read is the slot's until it clears it.                                  *)
Remembered ==
  \A a \in Actor :
    /\ pc[a] \in EnqPc \ {"e_count"} => op[a] = "enqueue" /\ ~ok[a]
    /\ pc[a] \in DeqPc \ {"d_count"} => op[a] = "dequeue" /\ ~ok[a]
    /\ pc[a] = "e_publish" => slot[curTail[a]] = val[a]
    /\ pc[a] \in {"d_head", "d_empty"} => val[a] = Zero
    /\ pc[a] = "d_zero" => slot[curHead[a]] = val[a]

=============================================================================

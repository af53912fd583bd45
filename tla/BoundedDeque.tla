---------------------------- MODULE BoundedDeque ----------------------------
(***************************************************************************)
(* What common/src/stdqueue.h promises its callers: a double-ended queue   *)
(* of at most Capacity entries whose functions each take effect at one     *)
(* instant between their call and their return, or are refused because at  *)
(* such an instant the queue was full (or empty).                          *)
(***************************************************************************)
EXTENDS Integers, Sequences

CONSTANTS Capacity, Value, Zero, Actor

VARIABLES
  ops,     \* which functions each actor calls
  items,   \* the entries, the next to dequeue first
  stage,   \* "idle", "pending" (called, no effect yet) or "done", per actor
  op,      \* the function called
  val,     \* its argument, or what it dequeued
  ok       \* what it is going to return

vars == <<ops, items, stage, op, val, ok>>

OpName == {"enqueue", "enqueue_front", "dequeue"}

Init ==
  /\ items = << >>
  /\ stage = [a \in Actor |-> "idle"]
  /\ op    = [a \in Actor |-> "dequeue"]
  /\ val   = [a \in Actor |-> Zero]
  /\ ok    = [a \in Actor |-> FALSE]

Call(a, o, v) ==
  /\ stage[a] = "idle"
  /\ o \in ops[a]
  /\ stage' = [stage EXCEPT ![a] = "pending"]
  /\ op'    = [op EXCEPT ![a] = o]
  /\ val'   = [val EXCEPT ![a] = v]
  /\ ok'    = [ok EXCEPT ![a] = FALSE]
  /\ UNCHANGED items

Finish(a, o, success) ==
  /\ stage[a] = "pending" /\ op[a] = o
  /\ stage' = [stage EXCEPT ![a] = "done"]
  /\ ok' = [ok EXCEPT ![a] = success]
  /\ UNCHANGED op

PushBack(a) ==
  /\ Finish(a, "enqueue", TRUE)
  /\ Len(items) < Capacity
  /\ items' = Append(items, val[a])
  /\ UNCHANGED val

PushFront(a) ==
  /\ Finish(a, "enqueue_front", TRUE)
  /\ Len(items) < Capacity
  /\ items' = <<val[a]>> \o items
  /\ UNCHANGED val

PopFront(a) ==
  /\ Finish(a, "dequeue", TRUE)
  /\ items # << >>
  /\ items' = Tail(items)
  /\ val' = [val EXCEPT ![a] = Head(items)]

Refuse(a) ==
  /\ \/ Finish(a, "enqueue", FALSE) /\ Len(items) = Capacity
     \/ Finish(a, "enqueue_front", FALSE) /\ Len(items) = Capacity
     \/ Finish(a, "dequeue", FALSE) /\ items = << >>
  /\ UNCHANGED <<items, val>>

Return(a) ==
  /\ stage[a] = "done"
  /\ stage' = [stage EXCEPT ![a] = "idle"]
  /\ UNCHANGED <<items, op, val, ok>>

Next ==
  /\ \E a \in Actor :
       \/ \E o \in OpName, v \in Value : Call(a, o, v)
       \/ PushBack(a) \/ PushFront(a) \/ PopFront(a) \/ Refuse(a) \/ Return(a)
  /\ UNCHANGED ops

Spec == Init /\ [][Next]_vars

=============================================================================

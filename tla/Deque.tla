------------------------------- MODULE Deque -------------------------------
(***************************************************************************)
(* What a Yqueue promises (include/yosal/queue.h): a sequence of values    *)
(* that grows at both ends and shrinks at the front, the result of each    *)
(* call, and an iteration that is a position in the sequence.              *)
(***************************************************************************)
EXTENDS Naturals, Sequences

CONSTANTS Value, NULL

VARIABLES
  items,  \* the values, the first one at the front
  pos,    \* the position of the iteration, 0 if none is under way
  ret     \* what the last call returned

dequeVars == <<items, pos, ret>>

DequeInit == items = <<>> /\ pos = 0 /\ ret = NULL

PushBack(v) ==
  /\ items' = Append(items, v)
  /\ ret' = Len(items) + 1
  /\ UNCHANGED pos

\* The iteration stays on its value.
PushFront(v) ==
  /\ items' = <<v>> \o items
  /\ ret' = Len(items) + 1
  /\ pos' = IF pos = 0 THEN 0 ELSE pos + 1

\* Removing the value an iteration stands on ends it.
PopFront ==
  /\ items # <<>>
  /\ items' = Tail(items)
  /\ ret' = Head(items)
  /\ pos' = IF pos = 0 THEN 0 ELSE pos - 1

Peek ==
  /\ ret' = IF items = <<>> THEN NULL ELSE Head(items)
  /\ UNCHANGED <<items, pos>>

Nothing == ret' = NULL /\ UNCHANGED <<items, pos>>

Size == ret' = Len(items) /\ UNCHANGED <<items, pos>>

Start ==
  /\ pos' = IF items = <<>> THEN 0 ELSE 1
  /\ ret' = IF items = <<>> THEN NULL ELSE Head(items)
  /\ UNCHANGED items

Step ==
  /\ pos # 0
  /\ pos' = IF pos = Len(items) THEN 0 ELSE pos + 1
  /\ ret' = IF pos = Len(items) THEN NULL ELSE items[pos + 1]
  /\ UNCHANGED items

\* Releasing the sequence ends the iteration, then drops the values one by one.
Abandon == pos' = 0 /\ ret' = NULL /\ UNCHANGED items

Drop ==
  /\ items # <<>>
  /\ items' = Tail(items)
  /\ pos = 0
  /\ UNCHANGED <<pos, ret>>

DequeNext ==
  \/ \E v \in Value : PushBack(v) \/ PushFront(v)
  \/ PopFront \/ Peek \/ Nothing \/ Size \/ Start \/ Step
  \/ Abandon \/ Drop

DequeSpec == DequeInit /\ [][DequeNext]_dequeVars
=============================================================================

------------------------------- MODULE Yqueue -------------------------------
(***************************************************************************)
(* The queue of src/struct/queue.c: a singly linked list of records on the *)
(* heap with pointers to its first and its last record, and a counter.     *)
(*                                                                         *)
(* The caller may iterate over the queue while it changes; it follows one  *)
(* rule, not to call Yqueue_next on a record that Yqueue_pop has freed.    *)
(* Memory is not exhausted: Yqueue_push and Yqueue_insert do not check     *)
(* what Ymem_malloc returns.                                               *)
(*                                                                         *)
(* The variable list is auxiliary: no guard and no assignment to another   *)
(* variable reads it.                                                      *)
(***************************************************************************)
EXTENDS Naturals, Sequences, FiniteSets

CONSTANTS
  Value,   \* the values, which the queue does not look at
  Record,  \* addresses of records (bound on the records at once)
  NULL

ASSUME YqueueAssumption == NULL \notin Record /\ IsFiniteSet(Record)

VARIABLES
  state,        \* the queue: "none", "ready", or in the loop of Yqueue_release
  first, last,  \* l->first and l->last
  count,        \* l->count
  next, value,  \* the fields of the records
  alloc,        \* the records that are allocated
  cursor,       \* the record the caller's iteration is at
  ret,          \* what the last call returned (the value of a record for it)
  list          \* auxiliary: the records, in the order the calls promise

queue   == <<state, first, last, count>>
records == <<next, value, alloc>>
vars    == <<queue, records, cursor, ret, list>>

Init ==
  /\ state = "none"
  /\ first = NULL /\ last = NULL /\ count = 0
  /\ next = [r \in Record |-> NULL]
  /\ value = [r \in Record |-> NULL]
  /\ alloc = {}
  /\ cursor = NULL
  /\ ret = NULL
  /\ list = <<>>

Yqueue_create ==
  /\ state = "none"
  /\ state' = "ready"
  /\ first' = NULL /\ last' = NULL /\ count' = 0
  /\ ret' = NULL
  /\ UNCHANGED <<records, cursor, list>>

\* Yqueue_value: a pointer to no record has no value.
Yqueue_value(r) == IF r = NULL THEN NULL ELSE value[r]

\* Mutant: does not set the first record of an empty queue.
Yqueue_push_KeepsFirst(v) ==
  /\ state = "ready"
  /\ \E r \in Record \ alloc :
       /\ alloc' = alloc \cup {r}
       /\ value' = [value EXCEPT ![r] = v]
       /\ next' = [x \in Record |-> IF x = r THEN NULL ELSE IF x = last THEN r ELSE next[x]]
       /\ first' = first
       /\ last' = r
       /\ list' = Append(list, r)
  /\ count' = count + 1
  /\ ret' = count + 1
  /\ UNCHANGED <<state, cursor>>

Yqueue_push(v) ==
  /\ state = "ready"
  /\ \E r \in Record \ alloc :
       /\ alloc' = alloc \cup {r}
       /\ value' = [value EXCEPT ![r] = v]
       /\ next' = [x \in Record |-> IF x = r THEN NULL ELSE IF x = last THEN r ELSE next[x]]
       /\ first' = IF first = NULL THEN r ELSE first
       /\ last' = r
       /\ list' = Append(list, r)
  /\ count' = count + 1
  /\ ret' = count + 1
  /\ UNCHANGED <<state, cursor>>

\* Mutant: does not set the last record of an empty queue.
Yqueue_insert_KeepsLast(v) ==
  /\ state = "ready"
  /\ \E r \in Record \ alloc :
       /\ alloc' = alloc \cup {r}
       /\ value' = [value EXCEPT ![r] = v]
       /\ next' = [next EXCEPT ![r] = first]
       /\ first' = r
       /\ last' = last
       /\ list' = <<r>> \o list
  /\ count' = count + 1
  /\ ret' = count + 1
  /\ UNCHANGED <<state, cursor>>

Yqueue_insert(v) ==
  /\ state = "ready"
  /\ \E r \in Record \ alloc :
       /\ alloc' = alloc \cup {r}
       /\ value' = [value EXCEPT ![r] = v]
       /\ next' = [next EXCEPT ![r] = first]
       /\ first' = r
       /\ last' = IF last = NULL THEN r ELSE last
       /\ list' = <<r>> \o list
  /\ count' = count + 1
  /\ ret' = count + 1
  /\ UNCHANGED <<state, cursor>>

\* Mutant: the last record is freed and l->last still points to it.
Remove_KeepsLast ==
  /\ first' = next[first]
  /\ last' = last
  /\ count' = count - 1
  /\ alloc' = alloc \ {first}
  /\ value' = [value EXCEPT ![first] = NULL]
  /\ next' = [next EXCEPT ![first] = NULL]
  /\ cursor' = IF cursor = first THEN NULL ELSE cursor
  /\ list' = Tail(list)

\* Mutant: the counter is not decremented for the last record.
Remove_KeepsCount ==
  /\ first' = next[first]
  /\ last' = IF next[first] = NULL THEN NULL ELSE last
  /\ count' = IF next[first] = NULL THEN count ELSE count - 1
  /\ alloc' = alloc \ {first}
  /\ value' = [value EXCEPT ![first] = NULL]
  /\ next' = [next EXCEPT ![first] = NULL]
  /\ cursor' = IF cursor = first THEN NULL ELSE cursor
  /\ list' = Tail(list)

\* Unlinks and frees the first record; an iteration at it ends.
Remove ==
  /\ first' = next[first]
  /\ last' = IF next[first] = NULL THEN NULL ELSE last
  /\ count' = count - 1
  /\ alloc' = alloc \ {first}
  /\ value' = [value EXCEPT ![first] = NULL]
  /\ next' = [next EXCEPT ![first] = NULL]
  /\ cursor' = IF cursor = first THEN NULL ELSE cursor
  /\ list' = Tail(list)

Yqueue_pop ==
  /\ state = "ready"
  /\ first # NULL
  /\ ret' = value[first]
  /\ Remove
  /\ UNCHANGED state

\* Yqueue_pop of an empty queue.
PopNothing ==
  /\ state = "ready"
  /\ first = NULL
  /\ ret' = NULL
  /\ UNCHANGED <<queue, records, cursor, list>>

Yqueue_fetch ==
  /\ state = "ready"
  /\ ret' = Yqueue_value(first)
  /\ UNCHANGED <<queue, records, cursor, list>>

Yqueue_size ==
  /\ state = "ready"
  /\ ret' = count
  /\ UNCHANGED <<queue, records, cursor, list>>

\* Yqueue_first and Yqueue_next, and the value of the record they return.
Yqueue_first ==
  /\ state = "ready"
  /\ cursor' = first
  /\ ret' = Yqueue_value(first)
  /\ UNCHANGED <<queue, records, list>>

Yqueue_next ==
  /\ state = "ready"
  /\ cursor # NULL
  /\ cursor' = next[cursor]
  /\ ret' = Yqueue_value(next[cursor])
  /\ UNCHANGED <<queue, records, list>>

\* Yqueue_release pops as long as there are elements, then frees the queue.
Yqueue_release ==
  /\ state = "ready"
  /\ state' = "releasing"
  /\ cursor' = NULL
  /\ ret' = NULL
  /\ UNCHANGED <<first, last, count, records, list>>

\* Yqueue_pop in the loop.  If the list were empty and the counter were not, it
\* would change nothing and the loop would go on.
ReleasePop ==
  /\ state = "releasing"
  /\ count > 0
  /\ first # NULL
  /\ Remove
  /\ UNCHANGED <<state, ret>>

ReleaseFree ==
  /\ state = "releasing"
  /\ count = 0
  /\ state' = "none"
  /\ UNCHANGED <<first, last, count, records, cursor, ret, list>>

\* The n-th record that a walk from the first one reaches, NULL past the end.
Walk ==
  LET at[n \in 1..(Cardinality(Record) + 1)] ==
        IF n = 1 THEN first ELSE IF at[n - 1] = NULL THEN NULL ELSE next[at[n - 1]]
  IN  at

Reached == {n \in DOMAIN Walk : Walk[n] # NULL}

\* Yqueue_array: the records from first to the end of the list, copied to an
\* array of Yqueue_size elements.
Yqueue_array == [n \in Reached |-> value[Walk[n]]]

Next ==
  \/ Yqueue_create
  \/ \E v \in Value : Yqueue_push(v) \/ Yqueue_insert(v)
  \/ Yqueue_pop \/ PopNothing \/ Yqueue_fetch \/ Yqueue_size
  \/ Yqueue_first \/ Yqueue_next
  \/ Yqueue_release \/ ReleasePop \/ ReleaseFree

Spec == Init /\ [][Next]_vars

\* The thread in Yqueue_release keeps running.
FairSpec == Spec /\ WF_vars(ReleasePop \/ ReleaseFree)

-----------------------------------------------------------------------------
(* What the module checks *)

TypeOK ==
  /\ state \in {"none", "ready", "releasing"}
  /\ first \in Record \cup {NULL}
  /\ last \in Record \cup {NULL}
  /\ count \in Nat
  /\ next \in [Record -> Record \cup {NULL}]
  /\ value \in [Record -> Value \cup {NULL}]
  /\ alloc \subseteq Record
  /\ cursor \in Record \cup {NULL}
  /\ ret \in Value \cup Nat \cup {NULL}
  /\ list \in Seq(Record)

\* The pointers link exactly the records that are allocated, in the order the
\* calls promise: no record is lost or freed while it is linked, and the ends
\* and the counter follow whatever mix of calls came before.
Linked ==
  /\ count = Len(list)
  /\ first = IF list = <<>> THEN NULL ELSE list[1]
  /\ last = IF list = <<>> THEN NULL ELSE list[Len(list)]
  /\ \A i \in 1..Len(list) : next[list[i]] = IF i = Len(list) THEN NULL ELSE list[i + 1]

Owned ==
  /\ alloc = {list[i] : i \in 1..Len(list)}
  /\ \A i, j \in 1..Len(list) : list[i] = list[j] => i = j
  /\ state = "none" => list = <<>>

\* The record an iteration is at has not been freed.
CursorIsSound == cursor # NULL => cursor \in alloc

WellFormed == Linked /\ Owned /\ CursorIsSound

\* Yqueue_release ends: its loop condition reads the counter, its body the list.
ReleaseEnds == state = "releasing" ~> state = "none"

\* Yqueue_array fills its array exactly: the walk meets as many records as the
\* counter says, and never one twice.
ArrayFits == Reached = 1..count /\ DOMAIN Yqueue_array = 1..count

\* The queue implements a double-ended sequence with the results of its calls.
Items == [i \in 1..Len(list) |-> value[list[i]]]
Pos   == IF cursor = NULL THEN 0 ELSE CHOOSE i \in 1..Len(list) : list[i] = cursor

D == INSTANCE Deque WITH items <- Items, pos <- Pos

ImplementsDeque == D!DequeSpec
=============================================================================

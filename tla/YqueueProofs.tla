---------------------------- MODULE YqueueProofs ----------------------------
(***************************************************************************)
(* The linked list of a Yqueue stays well formed, whatever the calls, and  *)
(* the queue implements a double-ended sequence.  The auxiliary sequence   *)
(* list stands for the chain of records, so no induction along the chain   *)
(* is needed: each call changes at most the two ends.                      *)
(***************************************************************************)
EXTENDS Yqueue, SequenceTheorems, FiniteSetTheorems, WellFoundedInduction, TLAPS

\* The inductive invariant: the types and the well-formed list.
IInv == TypeOK /\ Linked /\ Owned /\ CursorIsSound

LEMMA InitIInv == Init => IInv
<1> SUFFICES ASSUME Init PROVE IInv
  OBVIOUS
<1>1. /\ Len(list) = 0 /\ list = <<>> /\ CursorIsSound
      /\ list \in Seq(Record)
  BY DEF Init, CursorIsSound
<1>4. TypeOK
  BY <1>1 DEF Init, TypeOK
<1>2. Linked
  BY <1>1 DEF Init, Linked
<1>3. Owned
  BY <1>1 DEF Init, Owned
<1> QED BY <1>1, <1>2, <1>3, <1>4 DEF IInv

LEMMA PushIInv ==
  ASSUME IInv, NEW v \in Value, Yqueue_push(v)
  PROVE  IInv'
<1> USE YqueueAssumption DEF queue, records
<1>1. PICK r \in Record \ alloc :
        /\ alloc' = alloc \cup {r}
        /\ value' = [value EXCEPT ![r] = v]
        /\ next' = [x \in Record |->
                      IF x = r THEN NULL ELSE IF x = last THEN r ELSE next[x]]
        /\ first' = IF first = NULL THEN r ELSE first
        /\ last' = r
        /\ list' = Append(list, r)
  BY DEF Yqueue_push
<1>2. /\ state = "ready" /\ UNCHANGED <<state, cursor>>
      /\ count' = count + 1 /\ ret' = count + 1
  BY DEF Yqueue_push
<1>3. /\ Len(list') = Len(list) + 1
      /\ \A i \in 1..Len(list) : list'[i] = list[i] /\ list[i] \in Record
      /\ list'[Len(list) + 1] = r
      /\ list' \in Seq(Record)
  BY <1>1 DEF IInv, TypeOK
<1>4. TypeOK'
  BY <1>1, <1>2, <1>3 DEF IInv, TypeOK
<1>5. \A i \in 1..Len(list) : list[i] # r
  BY <1>1 DEF IInv, Owned
<1>6. Linked'
  <2>1. /\ count' = Len(list')
        /\ list' # <<>>
        /\ last' = list'[Len(list')]
    BY <1>1, <1>2, <1>3 DEF IInv, Linked, TypeOK
  <2>2. first' = list'[1]
    <3>1. CASE list = <<>>
      BY <3>1, <1>1, <1>3 DEF IInv, Linked, TypeOK
    <3>2. CASE list # <<>>
      BY <3>2, <1>1, <1>3 DEF IInv, Linked, TypeOK
    <3> QED BY <3>1, <3>2
  <2>3. ASSUME NEW i \in 1..Len(list')
        PROVE  next'[list'[i]] = IF i = Len(list') THEN NULL ELSE list'[i + 1]
    <3>1. CASE i = Len(list')
      BY <3>1, <1>1, <1>3 DEF IInv, TypeOK
    <3>2. CASE i = Len(list) /\ i # Len(list')
      <4>1. list[i] = last /\ list[i] # r /\ list'[i] = list[i]
        BY <3>2, <1>3, <1>5 DEF IInv, Linked, TypeOK
      <4> QED BY <4>1, <3>2, <1>1, <1>3 DEF IInv, TypeOK
    <3>3. CASE i \in 1..(Len(list) - 1)
      <4>1. list[i] # r /\ list'[i] = list[i] /\ list'[i + 1] = list[i + 1]
        BY <3>3, <1>3, <1>5 DEF IInv, TypeOK
      <4>2. list[i] # last
        BY <3>3 DEF IInv, Linked, Owned, TypeOK
      <4>3. next[list[i]] = list[i + 1]
        BY <3>3 DEF IInv, Linked, TypeOK
      <4> QED BY <4>1, <4>2, <4>3, <3>3, <1>1, <1>3 DEF IInv, TypeOK
    <3> QED BY <3>1, <3>2, <3>3, <1>3 DEF IInv, TypeOK
  <2> QED BY <2>1, <2>2, <2>3 DEF Linked
<1>7. Owned'
  <2>1. alloc' = {list'[i] : i \in 1..Len(list')}
    BY <1>1, <1>3 DEF IInv, Owned, TypeOK
  <2>2. \A i, j \in 1..Len(list') : list'[i] = list'[j] => i = j
    BY <1>3, <1>5 DEF IInv, Owned, TypeOK
  <2> QED BY <2>1, <2>2, <1>2 DEF Owned
<1>8. CursorIsSound'
  BY <1>1, <1>2 DEF IInv, CursorIsSound
<1> QED BY <1>4, <1>6, <1>7, <1>8 DEF IInv

LEMMA InsertIInv ==
  ASSUME IInv, NEW v \in Value, Yqueue_insert(v)
  PROVE  IInv'
<1> USE YqueueAssumption DEF queue, records
<1>1. PICK r \in Record \ alloc :
        /\ alloc' = alloc \cup {r}
        /\ value' = [value EXCEPT ![r] = v]
        /\ next' = [next EXCEPT ![r] = first]
        /\ first' = r
        /\ last' = IF last = NULL THEN r ELSE last
        /\ list' = <<r>> \o list
  BY DEF Yqueue_insert
<1>2. /\ state = "ready" /\ UNCHANGED <<state, cursor>>
      /\ count' = count + 1 /\ ret' = count + 1
  BY DEF Yqueue_insert
<1>3. /\ Len(list') = Len(list) + 1
      /\ list'[1] = r
      /\ \A i \in 1..Len(list) : list'[i + 1] = list[i] /\ list[i] \in Record
      /\ \A i \in 2..Len(list') : list'[i] = list[i - 1] /\ i - 1 \in 1..Len(list)
      /\ list' \in Seq(Record)
  BY <1>1 DEF IInv, TypeOK
<1>4. TypeOK'
  BY <1>1, <1>2, <1>3 DEF IInv, TypeOK
<1>5. \A i \in 1..Len(list) : list[i] # r
  BY <1>1 DEF IInv, Owned
<1>6. Linked'
  <2>1. /\ count' = Len(list')
        /\ list' # <<>>
        /\ first' = list'[1]
    BY <1>1, <1>2, <1>3 DEF IInv, Linked, TypeOK
  <2>2. last' = list'[Len(list')]
    <3>1. CASE list = <<>>
      BY <3>1, <1>1, <1>3 DEF IInv, Linked, TypeOK
    <3>2. CASE list # <<>>
      BY <3>2, <1>1, <1>3 DEF IInv, Linked, TypeOK
    <3> QED BY <3>1, <3>2
  <2>3. ASSUME NEW i \in 1..Len(list')
        PROVE  next'[list'[i]] = IF i = Len(list') THEN NULL ELSE list'[i + 1]
    <3>1. CASE i = 1
      BY <3>1, <1>1, <1>3 DEF IInv, Linked, TypeOK
    <3>2. CASE i \in 2..Len(list')
      <4>1. /\ list'[i] = list[i - 1] /\ list[i - 1] # r /\ i - 1 \in 1..Len(list)
            /\ i # Len(list') => list'[i + 1] = list[i]
        BY <3>2, <1>3, <1>5 DEF IInv, TypeOK
      <4>2. next[list[i - 1]] = IF i - 1 = Len(list) THEN NULL ELSE list[i]
        BY <4>1, <3>2 DEF IInv, Linked, TypeOK
      <4> QED BY <4>1, <4>2, <3>2, <1>1, <1>3 DEF IInv, TypeOK
    <3> QED BY <3>1, <3>2, <1>3 DEF IInv, TypeOK
  <2> QED BY <2>1, <2>2, <2>3 DEF Linked
<1>7. Owned'
  <2>1. alloc' = {list'[i] : i \in 1..Len(list')}
    BY <1>1, <1>3 DEF IInv, Owned, TypeOK
  <2>2. \A i, j \in 1..Len(list') : list'[i] = list'[j] => i = j
    BY <1>3, <1>5, SMTT(40) DEF IInv, Owned, TypeOK
  <2> QED BY <2>1, <2>2, <1>2 DEF Owned
<1>8. CursorIsSound'
  BY <1>1, <1>2 DEF IInv, CursorIsSound
<1> QED BY <1>4, <1>6, <1>7, <1>8 DEF IInv

\* What Yqueue_pop and the loop of Yqueue_release do to the list.
LEMMA RemoveIInv ==
  ASSUME IInv, Remove, first # NULL, state # "none", state' = state,
         ret' \in Value \cup Nat \cup {NULL}
  PROVE  IInv'
<1> USE YqueueAssumption DEF queue, records
<1>1. /\ first' = next[first]
      /\ last' = IF next[first] = NULL THEN NULL ELSE last
      /\ count' = count - 1
      /\ alloc' = alloc \ {first}
      /\ value' = [value EXCEPT ![first] = NULL]
      /\ next' = [next EXCEPT ![first] = NULL]
      /\ cursor' = IF cursor = first THEN NULL ELSE cursor
      /\ list' = Tail(list)
  BY DEF Remove
<1>2. /\ list # <<>> /\ first = list[1] /\ Len(list) >= 1 /\ first \in Record
      /\ count = Len(list) /\ Len(list) \in Nat
  BY <1>1 DEF IInv, Linked, TypeOK
<1>3. /\ Len(list') = Len(list) - 1
      /\ \A i \in 1..Len(list') : /\ list'[i] = list[i + 1]
                                  /\ i + 1 \in 1..Len(list)
                                  /\ list[i + 1] \in Record
      /\ list' \in Seq(Record)
  BY <1>1, <1>2 DEF IInv, TypeOK
<1>4. TypeOK'
  BY <1>1, <1>2, <1>3 DEF IInv, TypeOK
<1>5. \A i \in 2..Len(list) : list[i] # first
  BY <1>2 DEF IInv, Owned
<1>6. Linked'
  <2>1. /\ count' = Len(list')
        /\ first' = IF list' = <<>> THEN NULL ELSE list'[1]
        /\ last' = IF list' = <<>> THEN NULL ELSE list'[Len(list')]
    <3>1. CASE Len(list) = 1
      <4>1. list' = <<>> /\ next[first] = NULL
        BY <3>1, <1>2, <1>3 DEF IInv, Linked
      <4> QED BY <4>1, <3>1, <1>1, <1>2, <1>3
    <3>2. CASE Len(list) > 1
      <4>1. list' # <<>> /\ next[first] = list[2] /\ list[2] # NULL
        BY <3>2, <1>2, <1>3 DEF IInv, Linked, TypeOK
      <4> QED BY <4>1, <3>2, <1>1, <1>2, <1>3 DEF IInv, Linked
    <3> QED BY <3>1, <3>2, <1>2
  <2>2. ASSUME NEW i \in 1..Len(list')
        PROVE  next'[list'[i]] = IF i = Len(list') THEN NULL ELSE list'[i + 1]
    <3>1. /\ list'[i] = list[i + 1] /\ i + 1 \in 1..Len(list)
          /\ list[i + 1] # first /\ list[i + 1] \in Record
          /\ i # Len(list') => list'[i + 1] = list[i + 2]
      BY <1>2, <1>3, <1>5
    <3>2. next[list[i + 1]] = IF i + 1 = Len(list) THEN NULL ELSE list[i + 2]
      BY <3>1 DEF IInv, Linked
    <3> QED BY <3>1, <3>2, <1>1, <1>2, <1>3 DEF IInv, TypeOK
  <2> QED BY <2>1, <2>2 DEF Linked
<1>7. Owned'
  <2>1. alloc' = {list'[i] : i \in 1..Len(list')}
    <3>1. \A x : x \in alloc' <=> \E i \in 2..Len(list) : x = list[i]
      BY <1>1, <1>2, <1>5 DEF IInv, Owned
    <3>2. \A i \in 2..Len(list) : i - 1 \in 1..Len(list') /\ list'[i - 1] = list[i]
      BY <1>2, <1>3
    <3> QED BY <3>1, <3>2, <1>2, <1>3
  <2>2. \A i, j \in 1..Len(list') : list'[i] = list'[j] => i = j
    BY <1>2, <1>3 DEF IInv, Owned
  <2> QED BY <2>1, <2>2, <1>1 DEF Owned
<1>8. CursorIsSound'
  BY <1>1 DEF IInv, CursorIsSound
<1> QED BY <1>4, <1>6, <1>7, <1>8 DEF IInv

\* The calls that leave the list alone.
LEMMA OtherIInv ==
  ASSUME IInv,
         \/ Yqueue_create \/ PopNothing \/ Yqueue_fetch \/ Yqueue_size
         \/ Yqueue_first \/ Yqueue_next \/ Yqueue_release \/ ReleaseFree
         \/ UNCHANGED vars
  PROVE  IInv'
<1> USE YqueueAssumption DEF queue, records, vars
<1>1. ASSUME NEW r \in Record \cup {NULL}
      PROVE  Yqueue_value(r) \in Value \cup {NULL}
  BY DEF Yqueue_value, IInv, TypeOK
<1>2. UNCHANGED <<first, last, count, next, value, alloc, list>>
  <2>1. CASE Yqueue_create
    <3>1. list = <<>>
      BY <2>1 DEF Yqueue_create, IInv, Owned
    <3>2. Len(list) = 0
      BY <3>1
    <3>3. first = NULL /\ last = NULL /\ count = 0
      BY <3>1, <3>2 DEF IInv, Linked
    <3> QED BY <2>1, <3>3 DEF Yqueue_create
  <2>2. CASE ~ Yqueue_create
    BY <2>2 DEF PopNothing, Yqueue_fetch, Yqueue_size, Yqueue_first, Yqueue_next,
         Yqueue_release, ReleaseFree
  <2> QED BY <2>1, <2>2
<1>3. ret' \in Value \cup Nat \cup {NULL}
  BY <1>1 DEF Yqueue_create, PopNothing, Yqueue_fetch, Yqueue_size, Yqueue_first,
       Yqueue_next, Yqueue_release, ReleaseFree, IInv, TypeOK
<1>4. cursor' \in {cursor, first, NULL} \/ (cursor # NULL /\ cursor' = next[cursor])
  BY DEF Yqueue_create, PopNothing, Yqueue_fetch, Yqueue_size, Yqueue_first,
       Yqueue_next, Yqueue_release, ReleaseFree
<1>5. cursor' \in alloc \cup {NULL}
  <2>1. first \in alloc \cup {NULL}
    <3>1. CASE list = <<>>
      BY <3>1 DEF IInv, Linked
    <3>2. CASE list # <<>>
      <4>1. 1 \in 1..Len(list)
        BY <3>2 DEF IInv, TypeOK
      <4> QED BY <4>1, <3>2 DEF IInv, Linked, Owned
    <3> QED BY <3>1, <3>2
  <2>2. ASSUME cursor # NULL
        PROVE  next[cursor] \in alloc \cup {NULL}
    <3>1. PICK i \in 1..Len(list) : cursor = list[i]
      BY <2>2 DEF IInv, CursorIsSound, Owned
    <3>2. next[cursor] = IF i = Len(list) THEN NULL ELSE list[i + 1]
      BY <3>1 DEF IInv, Linked
    <3>3. i # Len(list) => i + 1 \in 1..Len(list)
      BY <3>1 DEF IInv, TypeOK
    <3> QED BY <3>2, <3>3 DEF IInv, Owned
  <2> QED BY <1>4, <2>1, <2>2 DEF IInv, CursorIsSound
<1>6. /\ state' \in {"none", "ready", "releasing"}
      /\ state' = "none" => list = <<>>
  <2>1. CASE ReleaseFree
    <3>1. Len(list) = 0 /\ list \in Seq(Record)
      BY <2>1 DEF ReleaseFree, IInv, Linked, TypeOK
    <3>2. list = <<>>
      BY <3>1
    <3> QED BY <2>1, <3>2 DEF ReleaseFree
  <2>2. CASE ~ ReleaseFree
    BY <2>2 DEF Yqueue_create, PopNothing, Yqueue_fetch, Yqueue_size, Yqueue_first,
         Yqueue_next, Yqueue_release, IInv, TypeOK, Owned
  <2> QED BY <2>1, <2>2
<1>7. TypeOK'
  BY <1>2, <1>3, <1>5, <1>6 DEF IInv, TypeOK
<1>8. Linked'
  BY <1>2 DEF IInv, Linked
<1>9. Owned'
  BY <1>2, <1>6 DEF IInv, Owned
<1> QED BY <1>2, <1>5, <1>7, <1>8, <1>9 DEF IInv, CursorIsSound

\* Every reachable state has a well-formed list.
THEOREM Inductive == Spec => []IInv
<1>1. Init => IInv
  BY InitIInv
<1>2. IInv /\ [Next]_vars => IInv'
  <2> SUFFICES ASSUME IInv, [Next]_vars PROVE IInv'
    OBVIOUS
  <2>1. ASSUME NEW v \in Value, Yqueue_push(v) PROVE IInv'
    BY <2>1, PushIInv
  <2>2. ASSUME NEW v \in Value, Yqueue_insert(v) PROVE IInv'
    BY <2>2, InsertIInv
  <2>3. CASE Yqueue_pop
    <3>1. value[first] \in Value \cup {NULL}
      BY <2>3 DEF Yqueue_pop, IInv, TypeOK
    <3> QED BY <2>3, <3>1, RemoveIInv DEF Yqueue_pop
  <2>4. CASE ReleasePop
    BY <2>4, RemoveIInv DEF ReleasePop, IInv, TypeOK
  <2> QED BY <2>1, <2>2, <2>3, <2>4, OtherIInv DEF Next
<1> QED BY <1>1, <1>2, PTL DEF Spec

\* The variables have their types in every reachable state.
THEOREM TypeCorrect == Spec => []TypeOK
<1>1. IInv => TypeOK
  BY DEF IInv
<1> QED BY <1>1, Inductive, PTL

\* The pointers of the queue link exactly the records that are allocated, in
\* the order the calls promise, and an iteration is never at a freed record.
THEOREM ListWellFormed == Spec => []WellFormed
<1>1. IInv => WellFormed
  BY DEF IInv, WellFormed
<1> QED BY <1>1, Inductive, PTL

-----------------------------------------------------------------------------
(* The walk along the chain *)

\* A set of numbers that is not empty has a smallest one.
LEMMA Smallest ==
  ASSUME NEW S \in SUBSET Nat, S # {}
  PROVE  \E x \in S : \A y \in S : x <= y
<1> DEFINE Below == {0..x : x \in S}
           Less == StrictSubsetOrdering(Nat)
<1>1. IsWellFoundedOn(Less, FiniteSubsetsOf(Nat))
  BY FS_StrictSubsetOrderingWellFounded
<1>2. Below \subseteq FiniteSubsetsOf(Nat) /\ Below # {}
  <2>1. \A x \in S : IsFiniteSet(0..x) /\ 0..x \in SUBSET Nat
    BY FS_Interval
  <2> QED
    BY <2>1 DEF FiniteSubsetsOf
<1> HIDE DEF Less, Below
<1>3. PICK B \in Below : \A C \in Below : ~ (<<C, B>> \in Less)
  BY <1>1, <1>2, WFMin
<1>4. PICK x \in S : B = 0..x
  BY DEF Below
<1>5. ASSUME NEW y \in S, y < x PROVE FALSE
  <2>1. 0..y \in SUBSET Nat /\ 0..x \in SUBSET Nat /\ 0..y \subseteq 0..x
    BY <1>5
  <2>2. x \in 0..x /\ x \notin 0..y
    BY <1>5
  <2>3. <<0..y, B>> \in Less
    BY <1>4, <2>1, <2>2 DEF Less, StrictSubsetOrdering
  <2> QED
    BY <1>3, <2>3 DEF Below
<1>6. \A y \in S : x <= y
  BY <1>5
<1> QED
  BY <1>6

\* The steps of a walk: one more than there are records.
Steps == 1..(Cardinality(Record) + 1)

\* A walk starts at the first record and follows the links.
Follows(at) ==
  at = [n \in Steps |->
          IF n = 1 THEN first ELSE IF at[n - 1] = NULL THEN NULL ELSE next[at[n - 1]]]

\* The n-th record of the list, NULL past its end.
Nth == [n \in Steps |-> IF n <= Len(list) THEN list[n] ELSE NULL]

LEMMA ListFits == IInv => Len(list) \in Nat /\ Len(list) <= Cardinality(Record)
                             /\ Cardinality(Record) \in Nat
<1> SUFFICES ASSUME IInv
             PROVE  Len(list) \in Nat /\ Len(list) <= Cardinality(Record)
                      /\ Cardinality(Record) \in Nat
  OBVIOUS
<1>1. list \in [1..Len(list) -> Record] /\ Len(list) \in Nat
  BY LenProperties DEF IInv, TypeOK
<1>2. list \in Injection(1..Len(list), Record)
  BY <1>1 DEF IInv, Owned, Injection, IsInjective
<1>3. Cardinality(1..Len(list)) <= Cardinality(Record)
  BY <1>2, FS_Injection, YqueueAssumption
<1>4. Cardinality(1..Len(list)) = Len(list)
  <2>1. \A n \in Nat : Cardinality(1..n) = IF 1 > n THEN 0 ELSE n - 1 + 1
    BY FS_Interval
  <2> QED
    BY <1>1, <2>1
<1>5. Cardinality(Record) \in Nat
  BY YqueueAssumption, FS_CardinalityType
<1> QED
  BY <1>1, <1>3, <1>4, <1>5

\* The records of the list, in their order, are a walk.
LEMMA NthFollows == IInv => Follows(Nth)
<1> SUFFICES ASSUME IInv PROVE Follows(Nth)
  OBVIOUS
<1>1. Len(list) \in Nat /\ Cardinality(Record) \in Nat /\ \A i \in 1..Len(list) : list[i] \in Record
  BY ListFits, ElementOfSeq DEF IInv, TypeOK
<1>2. ASSUME NEW n \in Steps
      PROVE  Nth[n] = IF n = 1 THEN first
                      ELSE IF Nth[n - 1] = NULL THEN NULL ELSE next[Nth[n - 1]]
  <2>1. n \in Nat \ {0} /\ (n # 1 => n - 1 \in Steps)
    BY <1>1 DEF Steps
  <2>2. CASE n = 1
    <3>1. list = <<>> <=> Len(list) = 0
      BY EmptySeq DEF IInv, TypeOK
    <3>2. Nth[n] = IF 1 <= Len(list) THEN list[1] ELSE NULL
      BY <2>2 DEF Nth
    <3>3. first = IF list = <<>> THEN NULL ELSE list[1]
      BY DEF IInv, Linked
    <3> QED
      BY <1>1, <2>2, <3>1, <3>2, <3>3
  <2>3. CASE n # 1 /\ n - 1 <= Len(list)
    <3>1. n - 1 \in 1..Len(list) /\ n - 1 \in Steps /\ (n - 1) + 1 = n
      BY <1>1, <2>1, <2>3
    <3>2. Nth[n - 1] = list[n - 1] /\ list[n - 1] # NULL
      BY <1>1, <3>1, <2>3, YqueueAssumption DEF Nth
    <3>3. next[list[n - 1]] = IF n - 1 = Len(list) THEN NULL ELSE list[n]
      BY <3>1 DEF IInv, Linked
    <3>4. Nth[n] = IF n - 1 = Len(list) THEN NULL ELSE list[n]
      BY <1>1, <2>1, <2>3 DEF Nth
    <3> QED
      BY <2>3, <3>2, <3>3, <3>4
  <2>4. CASE n # 1 /\ ~ (n - 1 <= Len(list))
    BY <1>1, <2>1, <2>4 DEF Nth
  <2> QED
    BY <2>2, <2>3, <2>4
<1> QED
  BY <1>2 DEF Follows, Nth

\* There is one walk.
LEMMA OneWalk ==
  ASSUME IInv, NEW f, NEW g, Follows(f), Follows(g)
  PROVE  f = g
<1>1. DOMAIN f = Steps /\ DOMAIN g = Steps
  BY DEF Follows
<1>2. Steps \subseteq Nat \ {0}
  BY DEF Steps
<1>3. PICK Differ \in SUBSET Nat : Differ = {n \in Steps : f[n] # g[n]}
  BY <1>2
<1>4. ASSUME Differ # {} PROVE FALSE
  <2>1. PICK n \in Differ : \A m \in Differ : n <= m
    BY <1>4, Smallest
  <2>2. n \in Steps /\ f[n] # g[n] /\ n \in Nat \ {0}
    BY <1>2, <1>3
  <2>3. /\ f[n] = IF n = 1 THEN first ELSE IF f[n - 1] = NULL THEN NULL ELSE next[f[n - 1]]
        /\ g[n] = IF n = 1 THEN first ELSE IF g[n - 1] = NULL THEN NULL ELSE next[g[n - 1]]
    BY <2>2 DEF Follows
  <2>4. n # 1
    BY <2>2, <2>3
  <2>5. n - 1 \in Steps /\ n - 1 < n
    BY <2>2, <2>4, ListFits DEF Steps
  <2>6. f[n - 1] = g[n - 1]
    BY <1>2, <1>3, <2>1, <2>5
  <2> QED
    BY <2>2, <2>3, <2>6
<1>5. \A n \in Steps : f[n] = g[n]
  BY <1>3, <1>4
<1>6. f = [n \in Steps |-> f[n]] /\ g = [n \in Steps |-> g[n]]
  BY DEF Follows
<1> QED
  BY <1>5, <1>6

LEMMA WalkIsList == IInv => Walk = Nth
<1> SUFFICES ASSUME IInv PROVE Walk = Nth
  OBVIOUS
<1>1. Walk = CHOOSE at : Follows(at)
  BY DEF Walk, Follows, Steps
<1>2. Follows(Nth)
  BY NthFollows
<1>3. Follows(CHOOSE at : Follows(at))
  BY <1>2
<1> QED
  BY <1>1, <1>2, <1>3, OneWalk

LEMMA IInvArray == IInv => ArrayFits
<1> SUFFICES ASSUME IInv PROVE ArrayFits
  OBVIOUS
<1>1. /\ Len(list) \in Nat /\ Len(list) <= Cardinality(Record) /\ Cardinality(Record) \in Nat
      /\ \A i \in 1..Len(list) : list[i] \in Record
      /\ count = Len(list)
  BY ListFits, ElementOfSeq DEF IInv, TypeOK, Linked
<1>2. Reached = {n \in Steps : Nth[n] # NULL}
  BY WalkIsList DEF Reached, Nth
<1>3. \A n \in Steps : Nth[n] # NULL <=> n <= Len(list)
  BY <1>1, YqueueAssumption DEF Nth, Steps
<1>4. {n \in Steps : n <= Len(list)} = 1..Len(list)
  BY <1>1 DEF Steps
<1>5. Reached = 1..count
  BY <1>1, <1>2, <1>3, <1>4
<1> QED
  BY <1>5 DEF ArrayFits, Yqueue_array

\* The walk of Yqueue_array meets as many records as the counter says, which is the
\* size of the array that it fills, and meets none twice.
THEOREM ArrayIsFilled == Spec => []ArrayFits
BY Inductive, IInvArray, PTL

-----------------------------------------------------------------------------
(* The refinement: what the mapping yields in a state, then one lemma for  *)
(* each kind of step.                                                      *)

Elt == Value \cup {NULL}

\* The values of a sequence of records.
LEMMA MappedValues ==
  ASSUME NEW l \in Seq(Record), NEW f \in [Record -> Elt]
  PROVE  /\ [i \in 1..Len(l) |-> f[l[i]]] \in Seq(Elt)
         /\ Len([i \in 1..Len(l) |-> f[l[i]]]) = Len(l)
<1>1. /\ Len(l) \in Nat
      /\ \A i \in 1..Len(l) : f[l[i]] \in Elt
  OBVIOUS
<1>2. [i \in 1..Len(l) |-> f[l[i]]] \in [1..Len(l) -> Elt]
  BY <1>1
<1> QED BY <1>1, <1>2, SeqDef

\* The position of a record in a sequence without repetition.
LEMMA PositionOf ==
  ASSUME NEW l \in Seq(Record), NEW i \in 1..Len(l),
         \A j, k \in 1..Len(l) : l[j] = l[k] => j = k
  PROVE  (CHOOSE j \in 1..Len(l) : l[j] = l[i]) = i
  OBVIOUS

\* What the mapping yields in a state and in the next one.
Mapping ==
  /\ Items \in Seq(Elt)
  /\ Len(Items) = Len(list)
  /\ Len(list) \in Nat
  /\ \A i \in 1..Len(list) : Items[i] = value[list[i]] /\ list[i] \in Record
  /\ cursor = NULL => Pos = 0
  /\ cursor # NULL => Pos \in 1..Len(list) /\ list[Pos] = cursor
  /\ \A i \in 1..Len(list) : list[i] = cursor => Pos = i

LEMMA MappingHolds == IInv => Mapping
<1> SUFFICES ASSUME IInv PROVE Mapping
  OBVIOUS
<1>1. list \in Seq(Record) /\ value \in [Record -> Elt]
  BY DEF IInv, TypeOK, Elt
<1>2. /\ Items \in Seq(Elt) /\ Len(Items) = Len(list) /\ Len(list) \in Nat
      /\ \A i \in 1..Len(list) : Items[i] = value[list[i]] /\ list[i] \in Record
  BY <1>1, MappedValues DEF Items
<1>3. cursor = NULL => Pos = 0
  BY DEF Pos
<1>4. ASSUME NEW i \in 1..Len(list), list[i] = cursor
      PROVE  Pos = i
  <2>1. cursor # NULL
    BY <1>1, <1>4, YqueueAssumption
  <2>2. (CHOOSE j \in 1..Len(list) : list[j] = list[i]) = i
    BY <1>1, PositionOf DEF IInv, Owned
  <2> QED BY <1>4, <2>1, <2>2 DEF Pos
<1>5. ASSUME cursor # NULL
      PROVE  Pos \in 1..Len(list) /\ list[Pos] = cursor
  <2>1. PICK i \in 1..Len(list) : list[i] = cursor
    BY <1>5 DEF IInv, CursorIsSound, Owned
  <2> QED BY <2>1, <1>4
<1> QED BY <1>2, <1>3, <1>4, <1>5 DEF Mapping

LEMMA MappingHoldsNext == IInv' => Mapping'
  BY MappingHolds, PTL

LEMMA PushRefines ==
  ASSUME IInv, IInv', NEW v \in Value, Yqueue_push(v)
  PROVE  D!PushBack(v)
<1> USE YqueueAssumption
<1>0. Mapping /\ Mapping'
  BY MappingHolds, MappingHoldsNext
<1>1. PICK r \in Record \ alloc :
        /\ value' = [value EXCEPT ![r] = v]
        /\ list' = Append(list, r)
  BY DEF Yqueue_push
<1>2. cursor' = cursor /\ ret' = count + 1 /\ count = Len(list)
  BY DEF Yqueue_push, IInv, Linked
<1>3. /\ Len(list') = Len(list) + 1
      /\ \A i \in 1..Len(list) : list'[i] = list[i] /\ list[i] # r
      /\ list'[Len(list) + 1] = r
  BY <1>1 DEF IInv, TypeOK, Owned
<1>4. Items' = Append(Items, v)
  <2>1. /\ Append(Items, v) \in Seq(Elt)
        /\ Len(Append(Items, v)) = Len(list) + 1
        /\ \A i \in 1..Len(list) : Append(Items, v)[i] = Items[i]
        /\ Append(Items, v)[Len(list) + 1] = v
    <3>1. Items \in Seq(Elt) /\ Len(Items) = Len(list) /\ v \in Elt
      BY <1>0 DEF Mapping, Elt
    <3>2. /\ Append(Items, v) \in Seq(Elt)
          /\ Len(Append(Items, v)) = Len(Items) + 1
          /\ \A i \in 1..Len(Items) : Append(Items, v)[i] = Items[i]
          /\ Append(Items, v)[Len(Items) + 1] = v
      BY <3>1, AppendProperties
    <3> QED BY <3>1, <3>2
  <2>2. ASSUME NEW i \in 1..(Len(list) + 1)
        PROVE  Items'[i] = Append(Items, v)[i]
    <3>1. CASE i = Len(list) + 1
      BY <3>1, <1>0, <1>1, <1>3, <2>1 DEF Mapping, IInv, TypeOK
    <3>2. CASE i \in 1..Len(list)
      BY <3>2, <1>0, <1>1, <1>3, <2>1 DEF Mapping, IInv, TypeOK
    <3> QED BY <3>1, <3>2, <1>0 DEF Mapping
  <2>3. Items' \in Seq(Elt) /\ Len(Items') = Len(list) + 1
    BY <1>0, <1>3 DEF Mapping, Elt
  <2> QED BY <2>1, <2>2, <2>3, SeqEqual
<1>5. Pos' = Pos
  BY <1>0, <1>2, <1>3 DEF Mapping
<1> QED BY <1>0, <1>2, <1>4, <1>5 DEF D!PushBack, Mapping

LEMMA InsertRefines ==
  ASSUME IInv, IInv', NEW v \in Value, Yqueue_insert(v)
  PROVE  D!PushFront(v)
<1> USE YqueueAssumption
<1>0. Mapping /\ Mapping'
  BY MappingHolds, MappingHoldsNext
<1>1. PICK r \in Record \ alloc :
        /\ value' = [value EXCEPT ![r] = v]
        /\ list' = <<r>> \o list
  BY DEF Yqueue_insert
<1>2. cursor' = cursor /\ ret' = count + 1 /\ count = Len(list)
  BY DEF Yqueue_insert, IInv, Linked
<1>3. /\ Len(list') = Len(list) + 1
      /\ \A i \in 1..Len(list) : list'[i + 1] = list[i] /\ list[i] # r
      /\ list'[1] = r
  BY <1>1 DEF IInv, TypeOK, Owned
<1>4. Items' = <<v>> \o Items
  <2>1. /\ <<v>> \o Items \in Seq(Elt)
        /\ Len(<<v>> \o Items) = Len(list) + 1
        /\ (<<v>> \o Items)[1] = v
        /\ \A i \in 1..Len(list) : (<<v>> \o Items)[i + 1] = Items[i]
    <3>1. Items \in Seq(Elt) /\ Len(Items) = Len(list) /\ v \in Elt
      BY <1>0 DEF Mapping, Elt
    <3>2. <<v>> \in Seq(Elt) /\ Len(<<v>>) = 1 /\ <<v>>[1] = v
      BY <3>1
    <3>3. ASSUME NEW s \in Seq(Elt), NEW t \in Seq(Elt), Len(s) = 1
          PROVE  /\ s \o t \in Seq(Elt)
                 /\ Len(s \o t) = 1 + Len(t)
                 /\ \A i \in 1..(1 + Len(t)) :
                      (s \o t)[i] = IF i <= 1 THEN s[i] ELSE t[i - 1]
      BY <3>3, ConcatProperties
    <3>4. Len(list) \in Nat
      BY <1>0 DEF Mapping
    <3>5. \A i \in 1..(1 + Len(list)) :
            (<<v>> \o Items)[i] = IF i <= 1 THEN <<v>>[i] ELSE Items[i - 1]
      BY <3>1, <3>2, <3>3
    <3>6. (<<v>> \o Items)[1] = v
      BY <3>2, <3>4, <3>5
    <3>8. <<v>> \o Items \in Seq(Elt) /\ Len(<<v>> \o Items) = 1 + Len(list)
      BY <3>1, <3>2, <3>3
    <3>7. ASSUME NEW i \in 1..Len(list) PROVE (<<v>> \o Items)[i + 1] = Items[i]
      <4>1. i + 1 \in 1..(1 + Len(list)) /\ ~ (i + 1 <= 1) /\ (i + 1) - 1 = i
        BY <3>4
      <4> QED BY <4>1, <3>5
    <3> QED BY <3>4, <3>6, <3>7, <3>8
  <2>2. ASSUME NEW i \in 1..(Len(list) + 1)
        PROVE  Items'[i] = (<<v>> \o Items)[i]
    <3>1. CASE i = 1
      BY <3>1, <1>0, <1>1, <1>3, <2>1 DEF Mapping, IInv, TypeOK
    <3>2. CASE i \in 2..(Len(list) + 1)
      <4>1. /\ i - 1 \in 1..Len(list) /\ (i - 1) + 1 = i
        BY <3>2, <1>0 DEF Mapping
      <4>2. Items'[i] = value'[list[i - 1]]
        BY <4>1, <1>0, <1>3 DEF Mapping
      <4>3. (<<v>> \o Items)[i] = Items[i - 1]
        <5> DEFINE k == i - 1
        <5>1. k \in 1..Len(list) /\ k + 1 = i
          BY <4>1
        <5>2. (<<v>> \o Items)[k + 1] = Items[k]
          BY <5>1, <2>1
        <5> QED BY <5>1, <5>2
      <4>4. Items[i - 1] = value[list[i - 1]] /\ list[i - 1] # r /\ list[i - 1] \in Record
        BY <4>1, <1>0, <1>3 DEF Mapping
      <4> QED BY <4>2, <4>3, <4>4, <1>1, ZenonT(40) DEF IInv, TypeOK
    <3> QED BY <3>1, <3>2, <1>0 DEF Mapping
  <2>3. Items' \in Seq(Elt) /\ Len(Items') = Len(list) + 1
    BY <1>0, <1>3 DEF Mapping
  <2> QED BY <2>1, <2>2, <2>3, SeqEqual
<1>5. Pos' = IF Pos = 0 THEN 0 ELSE Pos + 1
  <2>1. CASE cursor = NULL
    BY <2>1, <1>0, <1>2 DEF Mapping
  <2>2. CASE cursor # NULL
    <3>1. Pos \in 1..Len(list) /\ list[Pos] = cursor
      BY <2>2, <1>0 DEF Mapping
    <3>2. Pos + 1 \in 1..Len(list') /\ list'[Pos + 1] = cursor'
      BY <3>1, <1>0, <1>2, <1>3 DEF Mapping
    <3> QED BY <3>1, <3>2, <1>0 DEF Mapping
  <2> QED BY <2>1, <2>2
<1> QED BY <1>0, <1>2, <1>4, <1>5 DEF D!PushFront, Mapping

\* The part that Yqueue_pop and the loop of Yqueue_release have in common.
LEMMA RemoveMaps ==
  ASSUME IInv, IInv', first # NULL, Remove
  PROVE  /\ Items # <<>>
         /\ Items' = Tail(Items)
         /\ Head(Items) = value[first]
         /\ Pos' = IF Pos = 0 THEN 0 ELSE Pos - 1
<1> USE YqueueAssumption
<1>0. Mapping /\ Mapping'
  BY MappingHolds, MappingHoldsNext
<1>1. /\ value' = [value EXCEPT ![first] = NULL]
      /\ cursor' = IF cursor = first THEN NULL ELSE cursor
      /\ list' = Tail(list)
  BY DEF Remove
<1>2. first = list[1] /\ list # <<>> /\ Len(list) >= 1 /\ Len(list) \in Nat
  BY DEF IInv, Linked, TypeOK
<1>3. /\ Len(list') = Len(list) - 1
      /\ \A i \in 1..Len(list') : list'[i] = list[i + 1] /\ i + 1 \in 1..Len(list)
  BY <1>1, <1>2 DEF IInv, TypeOK
<1>4. \A i \in 2..Len(list) : list[i] # first
  BY <1>2 DEF IInv, Owned
<1>5. Items # <<>> /\ Head(Items) = value[first]
  BY <1>0, <1>2 DEF Mapping
<1>6. Items' = Tail(Items)
  <2>1. /\ Tail(Items) \in Seq(Elt)
        /\ Len(Tail(Items)) = Len(list) - 1
        /\ \A i \in 1..(Len(list) - 1) : Tail(Items)[i] = Items[i + 1]
    <3>1. Items \in Seq(Elt) /\ Len(Items) = Len(list)
      BY <1>0 DEF Mapping
    <3> QED BY <3>1, <1>5, HeadTailProperties
  <2>2. ASSUME NEW i \in 1..(Len(list) - 1)
        PROVE  Items'[i] = Tail(Items)[i]
    <3>1. Items'[i] = value'[list[i + 1]] /\ list[i + 1] \in Record /\ list[i + 1] # first
      <4>1. i \in 1..Len(list') /\ i + 1 \in 2..Len(list) /\ i + 1 \in 1..Len(list)
        BY <1>2, <1>3
      <4>2. Items'[i] = value'[list'[i]]
        BY <1>0, <4>1 DEF Mapping
      <4>3. list'[i] = list[i + 1]
        BY <1>3, <4>1
      <4>4. list[i + 1] \in Record
        BY <1>0, <4>1 DEF Mapping
      <4> QED BY <1>4, <4>1, <4>2, <4>3, <4>4
    <3>2. Tail(Items)[i] = value[list[i + 1]]
      BY <2>1, <1>0, <1>2 DEF Mapping
    <3> QED BY <3>1, <3>2, <1>1 DEF IInv, TypeOK
  <2>3. Items' \in Seq(Elt) /\ Len(Items') = Len(list) - 1
    BY <1>0, <1>3 DEF Mapping
  <2> QED BY <2>1, <2>2, <2>3, SeqEqual
<1>7. Pos' = IF Pos = 0 THEN 0 ELSE Pos - 1
  <2>1. CASE cursor = NULL
    BY <2>1, <1>0, <1>1 DEF Mapping
  <2>2. CASE cursor = first
    BY <2>2, <1>0, <1>1, <1>2 DEF Mapping
  <2>3. CASE cursor # NULL /\ cursor # first
    <3>1. Pos \in 2..Len(list) /\ list[Pos] = cursor
      BY <2>3, <1>0, <1>2 DEF Mapping
    <3>2. Pos - 1 \in 1..Len(list') /\ list'[Pos - 1] = cursor'
      BY <2>3, <3>1, <1>1, <1>2, <1>3 DEF Mapping
    <3> QED BY <3>1, <3>2, <1>0 DEF Mapping
  <2> QED BY <2>1, <2>2, <2>3
<1> QED BY <1>5, <1>6, <1>7

LEMMA OtherRefines ==
  ASSUME IInv, IInv',
         \/ Yqueue_create \/ PopNothing \/ Yqueue_fetch \/ Yqueue_size
         \/ Yqueue_first \/ Yqueue_next \/ Yqueue_release \/ ReleaseFree
         \/ UNCHANGED vars
  PROVE  [D!DequeNext]_(D!dequeVars)
<1> USE YqueueAssumption DEF queue, records, vars
<1>0. Mapping /\ Mapping'
  BY MappingHolds, MappingHoldsNext
<1>1. /\ list = <<>> <=> Items = <<>>
      /\ list = <<>> <=> first = NULL
      /\ list # <<>> => /\ Head(Items) = value[first] /\ first = list[1]
                        /\ 1 \in 1..Len(list)
      /\ Len(Items) = count
  BY <1>0 DEF Mapping, IInv, Linked, TypeOK
<1>2. (list' = list /\ value' = value => Items' = Items)
      /\ (list' = list /\ cursor' = cursor => Pos' = Pos)
  <2>1. ASSUME list' = list, value' = value PROVE Items' = Items
    BY <2>1 DEF Items
  <2>2. ASSUME list' = list, cursor' = cursor PROVE Pos' = Pos
    BY <1>0, <2>2 DEF Mapping
  <2> QED BY <2>1, <2>2
<1>3. CASE Yqueue_create
  <2>1. D!Nothing
    BY <1>2, <1>3 DEF Yqueue_create, D!Nothing
  <2> QED BY <2>1 DEF D!DequeNext
<1>4. CASE PopNothing
  <2>1. D!Nothing
    BY <1>2, <1>4 DEF PopNothing, D!Nothing
  <2> QED BY <2>1 DEF D!DequeNext
<1>5. CASE Yqueue_fetch
  <2>1. D!Peek
    BY <1>1, <1>2, <1>5 DEF Yqueue_fetch, Yqueue_value, D!Peek
  <2> QED BY <2>1 DEF D!DequeNext
<1>6. CASE Yqueue_size
  <2>1. D!Size
    BY <1>1, <1>2, <1>6 DEF Yqueue_size, D!Size
  <2> QED BY <2>1 DEF D!DequeNext
<1>7. CASE Yqueue_first
  <2>1. Items' = Items /\ list' = list
    BY <1>2, <1>7 DEF Yqueue_first
  <2>2. Pos' = IF Items = <<>> THEN 0 ELSE 1
    BY <1>0, <1>1, <1>7, <2>1 DEF Yqueue_first, Mapping
  <2>3. D!Start
    BY <1>1, <1>7, <2>1, <2>2 DEF Yqueue_first, Yqueue_value, D!Start
  <2> QED BY <2>3 DEF D!DequeNext
<1>8. CASE Yqueue_next
  <2>1. Items' = Items /\ list' = list
    BY <1>2, <1>8 DEF Yqueue_next
  <2>2. Pos \in 1..Len(list) /\ list[Pos] = cursor /\ Pos # 0
    BY <1>0, <1>8 DEF Yqueue_next, Mapping
  <2>3. cursor' = IF Pos = Len(list) THEN NULL ELSE list[Pos + 1]
    BY <2>2, <1>8 DEF Yqueue_next, IInv, Linked
  <2>4. Pos # Len(list) => Pos + 1 \in 1..Len(list)
    BY <2>2, <1>0 DEF Mapping
  <2>5. Pos' = IF Pos = Len(Items) THEN 0 ELSE Pos + 1
    BY <1>0, <2>1, <2>2, <2>3, <2>4 DEF Mapping
  <2>6. ret' = IF Pos = Len(Items) THEN NULL ELSE Items[Pos + 1]
    BY <1>0, <1>8, <2>2, <2>3, <2>4 DEF Yqueue_next, Yqueue_value, Mapping
  <2>7. D!Step
    BY <2>1, <2>2, <2>5, <2>6 DEF D!Step
  <2> QED BY <2>7 DEF D!DequeNext
<1>9. CASE Yqueue_release
  <2>1. D!Abandon
    BY <1>2, <1>9 DEF Yqueue_release, D!Abandon, Pos
  <2> QED BY <2>1 DEF D!DequeNext
<1>10. CASE ReleaseFree \/ UNCHANGED vars
  BY <1>2, <1>10 DEF ReleaseFree, D!dequeVars
<1> QED BY <1>3, <1>4, <1>5, <1>6, <1>7, <1>8, <1>9, <1>10

LEMMA ReleasingHasNoCursor == Spec => [](state = "releasing" => cursor = NULL)
<1>1. Init => (state = "releasing" => cursor = NULL)
  BY DEF Init
<1>2. (state = "releasing" => cursor = NULL) /\ [Next]_vars
        => (state = "releasing" => cursor = NULL)'
  BY DEF Next, vars, queue, records, Yqueue_create, Yqueue_push, Yqueue_insert,
     Yqueue_pop, PopNothing, Yqueue_fetch, Yqueue_size, Yqueue_first, Yqueue_next,
     Yqueue_release, ReleasePop, ReleaseFree, Remove
<1> QED BY <1>1, <1>2, PTL DEF Spec

\* The queue implements the double-ended sequence of Deque, with the results of
\* every call and an iteration that moves with the records.
THEOREM Refinement == Spec => ImplementsDeque
<1>1. IInv /\ Init => D!DequeInit
  <2> SUFFICES ASSUME IInv, Init PROVE D!DequeInit
    OBVIOUS
  <2>1. Items \in Seq(Elt) /\ Len(Items) = 0
    BY MappingHolds DEF Mapping, Init
  <2>2. Items = <<>>
    BY <2>1
  <2> QED BY <2>2 DEF Init, Pos, D!DequeInit
<1>2. /\ IInv /\ IInv' /\ (state = "releasing" => cursor = NULL)
      /\ [Next]_vars
      => [D!DequeNext]_(D!dequeVars)
  <2> SUFFICES ASSUME IInv, IInv', state = "releasing" => cursor = NULL, [Next]_vars
               PROVE  [D!DequeNext]_(D!dequeVars)
    OBVIOUS
  <2>1. ASSUME NEW v \in Value, Yqueue_push(v) PROVE [D!DequeNext]_(D!dequeVars)
    BY <2>1, PushRefines DEF D!DequeNext
  <2>2. ASSUME NEW v \in Value, Yqueue_insert(v) PROVE [D!DequeNext]_(D!dequeVars)
    BY <2>2, InsertRefines DEF D!DequeNext
  <2>3. CASE Yqueue_pop
    <3>1. D!PopFront
      BY <2>3, RemoveMaps DEF Yqueue_pop, D!PopFront
    <3> QED BY <3>1 DEF D!DequeNext
  <2>4. CASE ReleasePop
    <3>1. Pos = 0
      BY <2>4 DEF ReleasePop, Pos
    <3>2. D!Drop
      BY <2>4, <3>1, RemoveMaps DEF ReleasePop, D!Drop
    <3> QED BY <3>2 DEF D!DequeNext
  <2> QED BY <2>1, <2>2, <2>3, <2>4, OtherRefines DEF Next
<1> QED BY <1>1, <1>2, Inductive, ReleasingHasNoCursor, PTL
         DEF Spec, ImplementsDeque, D!DequeSpec
=============================================================================

--------------------------- MODULE YhashmapProofs ---------------------------
(***************************************************************************)
(* The hash of a key does not depend on where its bytes lie; the chains of *)
(* a Yhashmap stay well formed and the heap holds exactly what its entries *)
(* refer to; and the map implements a dictionary with searches: for any    *)
(* keys, any mixing function, any number of buckets and any order of       *)
(* calls.                                                                  *)
(***************************************************************************)
EXTENDS Yhashmap, SequenceTheorems, FiniteSetTheorems, WellFoundedInduction, TLAPS

-----------------------------------------------------------------------------
(* The hash *)

\* The three ways add the same number to a lane, for each number m of bytes
\* that are left: the switch of each way has the same meaning.
LEMMA SameLane ==
  ASSUME NEW k \in Seq(Nat), NEW o \in Nat, NEW m \in Int, o + m = Len(k)
  PROVE  /\ WordLane(k, o, m) = ByteLane(k, o, m)
         /\ HalfLane(k, o, m) = ByteLane(k, o, m)
<1>1. /\ m >= 1 => Byte(k, o) \in Nat
      /\ m >= 2 => Byte(k, o + 1) \in Nat
      /\ m >= 3 => Byte(k, o + 2) \in Nat
      /\ m >= 4 => Byte(k, o + 3) \in Nat
  BY DEF Byte
<1>2. CASE m <= 0
  BY <1>2 DEF WordLane, HalfLane, ByteLane, FirstBytes
<1>3. CASE m = 1
  BY <1>3, <1>1 DEF WordLane, HalfLane, ByteLane, FirstBytes
<1>4. CASE m = 2
  <2>1. Byte(k, o) \in Nat /\ Byte(k, o + 1) \in Nat
    BY <1>4, <1>1
  <2> QED
    BY <1>4, <2>1 DEF WordLane, HalfLane, ByteLane, FirstBytes, Half
<1>5. CASE m = 3
  <2>1. Byte(k, o) \in Nat /\ Byte(k, o + 1) \in Nat /\ Byte(k, o + 2) \in Nat
    BY <1>5, <1>1
  <2>2. FirstBytes(k, o, m) = Byte(k, o) + Byte(k, o + 1) * 256 + Byte(k, o + 2) * 65536
    BY <1>5, <2>1 DEF FirstBytes
  <2>3. ByteLane(k, o, m) = FirstBytes(k, o, m) /\ WordLane(k, o, m) = FirstBytes(k, o, m)
    BY <1>5, <2>1, <2>2 DEF ByteLane, WordLane
  <2>4. HalfLane(k, o, m) = Byte(k, o + 2) * 65536 + (Byte(k, o) + Byte(k, o + 1) * 256)
    BY <1>5 DEF HalfLane, Half
  <2> QED
    BY <2>1, <2>2, <2>3, <2>4
<1>6. CASE m >= 4
  <2>1. /\ Byte(k, o) \in Nat
        /\ Byte(k, o + 1) \in Nat
        /\ Byte(k, o + 2) \in Nat
        /\ Byte(k, o + 3) \in Nat
    BY <1>6, <1>1
  <2>2. (o + 2) + 1 = o + 3
    OBVIOUS
  <2>3. Word(k, o) = ByteLane(k, o, m)
    BY <1>6, <2>1, <2>2, SMTT(40) DEF ByteLane, FirstBytes, Word, Half
  <2> QED
    BY <1>6, <2>3 DEF WordLane, HalfLane, Word
<1> QED
  BY <1>2, <1>3, <1>4, <1>5, <1>6

\* Yhashmap_get looks a key up by the caller's pointer, which may point
\* anywhere, and compares with the hash that Yhashmap_put computed from the
\* pointer of another caller: equal keys have equal hashes at any two addresses.
THEOREM AddressIndependent ==
  ASSUME NEW k \in Seq(Nat), NEW p \in Nat, NEW q \in Nat
  PROVE  hash_lookup3(p, k) = hash_lookup3(q, k)
<1>1. ASSUME NEW o \in Nat, NEW m \in Int, o + m = Len(k)
      PROVE  Lane(p, k, o, m) = Lane(q, k, o, m)
  <2>1. Lane(p, k, o, m) = ByteLane(k, o, m)
    BY <1>1, SameLane DEF Lane
  <2>2. Lane(q, k, o, m) = ByteLane(k, o, m)
    BY <1>1, SameLane DEF Lane
  <2> QED
    BY <2>1, <2>2
<1>2. ASSUME NEW n \in 1..BlockCount(k)
      PROVE  AddedBlock(p, k, n) = AddedBlock(q, k, n)
  <2> DEFINE o == (n - 1) * BlockBytes
             left == Len(k) - o
  <2>1. o \in Nat /\ left \in Int /\ o + left = Len(k)
    BY DEF BlockBytes
  <2>2. (o + 4) + (left - 4) = Len(k) /\ (o + 8) + (left - 8) = Len(k)
    BY <2>1
  <2> HIDE DEF o, left
  <2>3. /\ Lane(p, k, o, left) = Lane(q, k, o, left)
        /\ Lane(p, k, o + 4, left - 4) = Lane(q, k, o + 4, left - 4)
        /\ Lane(p, k, o + 8, left - 8) = Lane(q, k, o + 8, left - 8)
    BY <1>1, <2>1, <2>2
  <2> QED
    BY <2>3 DEF AddedBlock, o, left
<1>3. hashlittle2(p, k) = hashlittle2(q, k)
  BY <1>2 DEF hashlittle2
<1> QED
  BY <1>3 DEF hash_lookup3

-----------------------------------------------------------------------------
(* The inductive invariant *)

\* A map has buckets from 0 on, and no map has none.
Shape ==
  /\ exists => \E n \in Nat \ {0} : chain \in [0..(n - 1) -> Seq(Entry)]
  /\ ~ exists => chain = <<>>

\* Without a copy there is no pointer.
NoStaleValue == \A e \in Entry : valuelen[e] = 0 => value[e] = NULL

\* The inductive invariant.
HInv == Shape /\ NoStaleValue /\ ChainsWellFormed /\ HeapIsExact

-----------------------------------------------------------------------------
(* Sequences *)

\* A set of numbers that is not empty has a smallest one.
LEMMA MinIsSmallest ==
  ASSUME NEW S \in SUBSET Nat, S # {}
  PROVE  Min(S) \in S /\ \A x \in S : Min(S) <= x
<1> DEFINE Below == {0..x : x \in S}
           Less == StrictSubsetOrdering(Nat)
<1>1. IsWellFoundedOn(Less, FiniteSubsetsOf(Nat))
  BY FS_StrictSubsetOrderingWellFounded
<1>2. Below \subseteq FiniteSubsetsOf(Nat) /\ Below # {}
  <2>1. \A x \in S : IsFiniteSet(0..x) /\ 0..x \in SUBSET Nat
    BY FS_Interval
  <2> QED
    BY <2>1 DEF FiniteSubsetsOf
<1> HIDE DEF Less, Below
<1>3. PICK B \in Below : \A C \in Below : ~ (<<C, B>> \in Less)
  BY <1>1, <1>2, WFMin
<1>4. PICK x \in S : B = 0..x
  BY DEF Below
<1>5. ASSUME NEW y \in S, y < x PROVE FALSE
  <2>1. 0..y \in SUBSET Nat /\ 0..x \in SUBSET Nat /\ 0..y \subseteq 0..x
    BY <1>5
  <2>2. x \in 0..x /\ x \notin 0..y
    BY <1>5
  <2>3. <<0..y, B>> \in Less
    BY <1>4, <2>1, <2>2 DEF Less, StrictSubsetOrdering
  <2> QED
    BY <1>3, <2>3 DEF Below
<1>6. \A y \in S : x <= y
  BY <1>5
<1> QED
  BY <1>6 DEF Min

\* What is appended to a sequence without repetition and not in it.
LEMMA AppendNew ==
  ASSUME NEW S, NEW s \in Seq(S), NEW e \in S, IsInjective(s), e \notin ToSet(s)
  PROVE  /\ Append(s, e) \in Seq(S)
         /\ IsInjective(Append(s, e))
         /\ ToSet(Append(s, e)) = ToSet(s) \cup {e}
<1> DEFINE t == Append(s, e)
<1>1. /\ t \in Seq(S) /\ Len(t) = Len(s) + 1 /\ Len(s) \in Nat
      /\ \A i \in 1..Len(s) : t[i] = s[i]
      /\ t[Len(s) + 1] = e
      /\ DOMAIN s = 1..Len(s) /\ DOMAIN t = 1..Len(t)
  BY AppendProperties, LenProperties
<1> HIDE DEF t
<1>2. IsInjective(t)
  BY <1>1 DEF IsInjective, ToSet
<1>3. ToSet(t) = ToSet(s) \cup {e}
  BY <1>1 DEF ToSet
<1> QED
  BY <1>1, <1>2, <1>3 DEF t

\* RemoveFirst moves what follows the first e to the front by one.
LEMMA RemoveShifts ==
  ASSUME NEW S, NEW s \in Seq(S), NEW e \in ToSet(s)
  PROVE  \E k \in 1..Len(s) :
           /\ s[k] = e
           /\ RemoveFirst(s, e) \in Seq(S)
           /\ Len(RemoveFirst(s, e)) = Len(s) - 1
           /\ \A i \in 1..(Len(s) - 1) :
                RemoveFirst(s, e)[i] = IF i < k THEN s[i] ELSE s[i + 1]
<1> DEFINE I == {i \in 1..Len(s) : s[i] = e}
           k == Min(I)
           front == SubSeq(s, 1, k - 1)
           back == SubSeq(s, k + 1, Len(s))
           t == front \o back
<1>1. DOMAIN s = 1..Len(s) /\ Len(s) \in Nat /\ \A i \in 1..Len(s) : s[i] \in S
  BY LenProperties, ElementOfSeq
<1>2. I # {} /\ I \in SUBSET Nat
  BY <1>1 DEF ToSet
<1>3. k \in 1..Len(s) /\ s[k] = e
  BY <1>2, MinIsSmallest
<1>4. RemoveFirst(s, e) = t
  <2>1. \E i \in 1..Len(s) : s[i] = e
    BY <1>2
  <2>2. SelectInSeq(s, LAMBDA v : v = e) = k
    BY <1>2 DEF SelectInSeq
  <2> QED
    BY <2>1, <2>2 DEF RemoveFirst, RemoveAt
<1> HIDE DEF k
<1>5. /\ front \in Seq(S) /\ Len(front) = k - 1
      /\ \A i \in 1..(k - 1) : front[i] = s[i]
  <2>1. k - 1 \in Int /\ \A i \in 1..(k - 1) : s[i] \in S
    BY <1>1, <1>3
  <2>2. /\ front \in Seq(S)
        /\ Len(front) = IF 1 <= k - 1 THEN k - 1 - 1 + 1 ELSE 0
        /\ \A i \in 1..(k - 1 - 1 + 1) : front[i] = s[1 + i - 1]
    BY <2>1, SubSeqProperties
  <2> QED
    BY <1>3, <2>2
<1>6. /\ back \in Seq(S) /\ Len(back) = Len(s) - k
      /\ \A i \in 1..(Len(s) - k) : back[i] = s[k + i]
  <2>1. k + 1 \in Int /\ Len(s) \in Int /\ \A i \in (k + 1)..Len(s) : s[i] \in S
    BY <1>1, <1>3
  <2>2. /\ back \in Seq(S)
        /\ Len(back) = IF k + 1 <= Len(s) THEN Len(s) - (k + 1) + 1 ELSE 0
        /\ \A i \in 1..(Len(s) - (k + 1) + 1) : back[i] = s[(k + 1) + i - 1]
    BY <2>1, SubSeqProperties
  <2>3. Len(s) - (k + 1) + 1 = Len(s) - k
    BY <1>1, <1>3
  <2>4. \A i \in 1..(Len(s) - k) : (k + 1) + i - 1 = k + i
    BY <1>1, <1>3
  <2> QED
    <3>0. Len(back) = IF k + 1 <= Len(s) THEN Len(s) - (k + 1) + 1 ELSE 0
      BY <2>2
    <3> HIDE DEF back
    <3>1. Len(back) = Len(s) - k
      <4>1. \A n \in Nat : \A m \in 1..n :
              (IF m + 1 <= n THEN n - (m + 1) + 1 ELSE 0) = n - m
        OBVIOUS
      <4>2. Len(s) \in Nat /\ k \in 1..Len(s)
        BY <1>1, <1>3
      <4> QED
        BY <3>0, <4>1, <4>2
    <3>2. \A i \in 1..(Len(s) - k) : back[i] = s[k + i]
      BY <2>2, <2>3, <2>4
    <3> QED
      BY <2>2, <3>1, <3>2
<1> HIDE DEF front, back
<1>7. /\ t \in Seq(S) /\ Len(t) = Len(s) - 1
      /\ \A i \in 1..(Len(s) - 1) : t[i] = IF i < k THEN s[i] ELSE s[i + 1]
  <2>1. /\ t \in Seq(S) /\ Len(t) = Len(front) + Len(back)
        /\ \A i \in 1..(Len(front) + Len(back)) :
             t[i] = IF i <= Len(front) THEN front[i] ELSE back[i - Len(front)]
    BY <1>5, <1>6, ConcatProperties
  <2>2. Len(t) = Len(s) - 1
    BY <1>1, <1>3, <1>5, <1>6, <2>1
  <2>3. ASSUME NEW i \in 1..(Len(s) - 1)
        PROVE  t[i] = IF i < k THEN s[i] ELSE s[i + 1]
    <3>1. CASE i < k
      BY <1>1, <1>3, <1>5, <1>6, <2>1, <3>1
    <3>2. CASE i >= k
      <4>1. t[i] = back[i - (k - 1)] /\ i - (k - 1) \in 1..(Len(s) - k)
        BY <1>1, <1>3, <1>5, <1>6, <2>1, <3>2
      <4>2. back[i - (k - 1)] = s[k + (i - (k - 1))] /\ k + (i - (k - 1)) = i + 1
        BY <1>1, <1>3, <1>6, <4>1
      <4> QED
        BY <1>1, <1>3, <3>2, <4>1, <4>2
    <3>3. i < k \/ i >= k
      BY <1>3
    <3> QED
      BY <3>1, <3>2, <3>3
  <2> QED
    BY <2>1, <2>2, <2>3
<1> QED
  BY <1>3, <1>4, <1>7

\* It takes a member out of a sequence without repetition.
LEMMA RemoveMember ==
  ASSUME NEW S, NEW s \in Seq(S), NEW e \in ToSet(s), IsInjective(s)
  PROVE  /\ RemoveFirst(s, e) \in Seq(S)
         /\ IsInjective(RemoveFirst(s, e))
         /\ ToSet(RemoveFirst(s, e)) = ToSet(s) \ {e}
<1> DEFINE t == RemoveFirst(s, e)
<1>1. DOMAIN s = 1..Len(s) /\ Len(s) \in Nat /\ \A i \in 1..Len(s) : s[i] \in S
  BY LenProperties, ElementOfSeq
<1>2. PICK k \in 1..Len(s) :
        /\ s[k] = e
        /\ t \in Seq(S) /\ Len(t) = Len(s) - 1
        /\ \A i \in 1..(Len(s) - 1) : t[i] = IF i < k THEN s[i] ELSE s[i + 1]
  BY RemoveShifts
<1> HIDE DEF t
<1>3. DOMAIN t = 1..(Len(s) - 1)
  BY <1>2, LenProperties
<1>4. \A i, j \in 1..Len(s) : s[i] = s[j] => i = j
  BY <1>1 DEF IsInjective
<1>5. IsInjective(t)
  <2> SUFFICES ASSUME NEW i \in 1..(Len(s) - 1), NEW j \in 1..(Len(s) - 1), t[i] = t[j]
               PROVE  i = j
    BY <1>3 DEF IsInjective
  <2>1. i \in 1..Len(s) /\ i + 1 \in 1..Len(s) /\ j \in 1..Len(s) /\ j + 1 \in 1..Len(s)
    BY <1>1
  <2> QED
    BY <1>1, <1>2, <1>4, <2>1
<1>6. ToSet(t) = ToSet(s) \ {e}
  <2>1. ASSUME NEW x \in ToSet(t) PROVE x \in ToSet(s) /\ x # e
    <3>1. PICK i \in 1..(Len(s) - 1) : x = t[i]
      BY <1>3 DEF ToSet
    <3>2. i \in 1..Len(s) /\ i + 1 \in 1..Len(s)
      BY <1>1
    <3>3. PICK j \in 1..Len(s) : x = s[j] /\ j # k
      BY <1>1, <1>2, <3>1, <3>2
    <3> QED
      BY <1>1, <1>2, <1>4, <3>3 DEF ToSet
  <2>2. ASSUME NEW x \in ToSet(s), x # e PROVE x \in ToSet(t)
    <3>1. PICK i \in 1..Len(s) : x = s[i] /\ i # k
      BY <1>1, <1>2, <2>2 DEF ToSet
    <3>2. CASE i < k
      <4>1. i \in 1..(Len(s) - 1) /\ t[i] = x
        BY <1>1, <1>2, <3>1, <3>2
      <4> QED
        BY <1>3, <4>1 DEF ToSet
    <3>3. CASE i > k
      <4>1. i - 1 \in 1..(Len(s) - 1) /\ ~ (i - 1 < k) /\ (i - 1) + 1 = i
        BY <1>1, <1>2, <3>1, <3>3
      <4>2. t[i - 1] = x
        BY <1>2, <3>1, <4>1
      <4> QED
        BY <1>3, <4>1, <4>2 DEF ToSet
    <3> QED
      BY <1>2, <3>1, <3>2, <3>3
  <2> QED
    BY <2>1, <2>2
<1> QED
  BY <1>2, <1>5, <1>6 DEF t

\* e lies before f in s.
Precedes(s, e, f) == \E i, j \in 1..Len(s) : i < j /\ s[i] = e /\ s[j] = f

\* Neither an appended member nor one taken out changes the order of the others.
LEMMA AppendKeepsOrder ==
  ASSUME NEW S, NEW s \in Seq(S), NEW e \in S, NEW x, NEW y, y # e
  PROVE  Precedes(Append(s, e), x, y) <=> Precedes(s, x, y)
<1> DEFINE t == Append(s, e)
<1>1. /\ Len(t) = Len(s) + 1 /\ Len(s) \in Nat
      /\ \A i \in 1..Len(s) : t[i] = s[i]
      /\ t[Len(s) + 1] = e
      /\ DOMAIN s = 1..Len(s)
  BY AppendProperties, LenProperties
<1> HIDE DEF t
<1>3. ASSUME NEW i \in 1..Len(t), NEW j \in 1..Len(t), i < j, t[i] = x, t[j] = y
      PROVE  Precedes(s, x, y)
  <2>1. j # Len(s) + 1
    BY <1>1, <1>3
  <2>2. i \in 1..Len(s) /\ j \in 1..Len(s)
    BY <1>1, <1>3, <2>1
  <2> QED
    BY <1>1, <1>3, <2>2 DEF Precedes
<1>4. ASSUME NEW i \in 1..Len(s), NEW j \in 1..Len(s), i < j, s[i] = x, s[j] = y
      PROVE  Precedes(t, x, y)
  <2>1. i \in 1..Len(t) /\ j \in 1..Len(t)
    BY <1>1
  <2> QED
    BY <1>1, <1>4, <2>1 DEF Precedes
<1>5. Precedes(t, x, y) <=> Precedes(s, x, y)
  BY <1>3, <1>4 DEF Precedes
<1> QED
  BY <1>5 DEF t

LEMMA RemoveKeepsOrder ==
  ASSUME NEW S, NEW s \in Seq(S), NEW e \in ToSet(s), NEW x, NEW y, x # e, y # e
  PROVE  Precedes(RemoveFirst(s, e), x, y) <=> Precedes(s, x, y)
<1> DEFINE t == RemoveFirst(s, e)
<1>1. Len(s) \in Nat
  BY LenProperties
<1>2. PICK k \in 1..Len(s) :
        /\ s[k] = e
        /\ Len(t) = Len(s) - 1
        /\ \A i \in 1..(Len(s) - 1) : t[i] = IF i < k THEN s[i] ELSE s[i + 1]
  BY RemoveShifts
<1> HIDE DEF t
<1>3. ASSUME NEW i \in 1..Len(t), NEW j \in 1..Len(t), i < j, t[i] = x, t[j] = y
      PROVE  Precedes(s, x, y)
  <2> DEFINE m(n) == IF n < k THEN n ELSE n + 1
  <2>1. m(i) \in 1..Len(s) /\ m(j) \in 1..Len(s) /\ m(i) < m(j)
    BY <1>1, <1>2, <1>3
  <2>2. s[m(i)] = x /\ s[m(j)] = y
    BY <1>2, <1>3
  <2> QED
    BY <2>1, <2>2 DEF Precedes
<1>4. ASSUME NEW i \in 1..Len(s), NEW j \in 1..Len(s), i < j, s[i] = x, s[j] = y
      PROVE  Precedes(t, x, y)
  <2> DEFINE m(n) == IF n < k THEN n ELSE n - 1
  <2>1. i # k /\ j # k
    BY <1>2, <1>4
  <2>2. m(i) \in 1..Len(t) /\ m(j) \in 1..Len(t) /\ m(i) < m(j)
    BY <1>1, <1>2, <1>4, <2>1
  <2>3. /\ t[m(i)] = IF m(i) < k THEN s[m(i)] ELSE s[m(i) + 1]
        /\ t[m(j)] = IF m(j) < k THEN s[m(j)] ELSE s[m(j) + 1]
    BY <1>2, <2>2
  <2>4. t[m(i)] = x /\ t[m(j)] = y
    BY <1>1, <1>2, <1>4, <2>1, <2>3
  <2> QED
    BY <2>2, <2>4 DEF Precedes
<1>5. Precedes(t, x, y) <=> Precedes(s, x, y)
  BY <1>3, <1>4 DEF Precedes
<1> QED
  BY <1>5 DEF t

-----------------------------------------------------------------------------
(* Buckets and hashes *)

\* Any two pointers to a key give the same hash.
LEMMA HashOfKey ==
  ASSUME NEW k \in Key, NEW p \in Address
  PROVE  /\ hashKey[p][k] \in Nat
         /\ \A q \in Address : hashKey[q][k] = hashKey[p][k]
<1>1. Bytes[k] \in Seq(Nat) /\ Address \subseteq Nat
  <2>1. Bytes[k] \in Seq(0..255) /\ 0..255 \subseteq Nat
    BY YhashmapAssumption
  <2>2. Bytes[k] \in Seq(Nat)
    BY <2>1, SeqMonotonic
  <2> QED
    BY <2>2, YhashmapAssumption
<1>2. \A q \in Address : hashKey[q][k] = hash_lookup3(q, Bytes[k])
  BY DEF hashKey
<1>3. \A q \in Address : hash_lookup3(q, Bytes[k]) = hash_lookup3(p, Bytes[k])
  BY <1>1, AddressIndependent
<1> QED
  BY <1>2, <1>3, YhashmapAssumption

\* The buckets of a map are numbered, and a hash selects one of them.
LEMMA BucketFacts ==
  ASSUME Shape, exists
  PROVE  /\ chain \in [Buckets -> Seq(Entry)]
         /\ Buckets \subseteq Nat
         /\ \A h \in Nat : calculateIndex(bucketCount, h) \in Buckets
<1>1. PICK n \in Nat \ {0} : chain \in [0..(n - 1) -> Seq(Entry)]
  BY DEF Shape
<1>2. Buckets = 0..(n - 1)
  BY <1>1 DEF Buckets
<1>3. bucketCount = n
  BY <1>2, FS_Interval DEF bucketCount
<1>4. \A h \in Nat : h % n \in 0..(n - 1)
  OBVIOUS
<1> QED
  BY <1>1, <1>2, <1>3, <1>4 DEF calculateIndex

LEMMA NoBuckets ==
  ASSUME chain = <<>>
  PROVE  Buckets = {} /\ Linked = {}
BY DEF Buckets, Linked

LEMMA LinkedIn ==
  ASSUME NEW e
  PROVE  e \in Linked <=> \E b \in Buckets : e \in ToSet(chain[b])
BY DEF Linked

LEMMA LinkedEntries ==
  ASSUME TypeOK
  PROVE  Linked \subseteq Entry /\ IsFiniteSet(Linked)
<1>1. \A b \in Buckets : ToSet(chain[b]) \subseteq Entry
  BY ElementOfSeq, LenProperties DEF TypeOK, ToSet
<1>2. Linked \subseteq Entry
  BY <1>1 DEF Linked
<1> QED
  BY <1>2, FS_Subset, YhashmapAssumption

\* An entry is in the chain that its hash selects, and in no other.
LEMMA InItsBucket ==
  ASSUME ChainsWellFormed, NEW e \in Linked
  PROVE  /\ calculateIndex(bucketCount, hash[e]) \in Buckets
         /\ e \in ToSet(chain[calculateIndex(bucketCount, hash[e])])
         /\ \A b \in Buckets :
              e \in ToSet(chain[b]) => b = calculateIndex(bucketCount, hash[e])
         /\ key[e] \in Key
         /\ \A p \in Address : hash[e] = hashKey[p][key[e]]
BY LinkedIn DEF ChainsWellFormed

\* Yhashmap_get finds the entry of a key, if there is one.
LEMMA GetFinds ==
  ASSUME HInv, exists, NEW p \in Address, NEW k \in Key, Get(p, k) = NULL
  PROVE  \A f \in Linked : key[f] # k
<1> SUFFICES ASSUME NEW f \in Linked, key[f] = k PROVE FALSE
  OBVIOUS
<1> DEFINE h == hashKey[p][k]
           b == calculateIndex(bucketCount, h)
           c == chain[b]
           I == {i \in 1..Len(c) : equalKeys(c[i], k, h)}
<1>1. hash[f] = h /\ b \in Buckets /\ f \in ToSet(c)
  BY InItsBucket DEF HInv
<1>2. c \in Seq(Entry)
  BY <1>1 DEF HInv, ChainsWellFormed, TypeOK
<1>3. equalKeys(f, k, h)
  BY <1>1 DEF equalKeys
<1>4. I \in SUBSET Nat /\ (I # {} => Min(I) \in I)
  <2>1. I \in SUBSET Nat
    OBVIOUS
  <2> QED
    BY <2>1, MinIsSmallest
<1>5. Get(p, k) = LET i == IF I # {} THEN Min(I) ELSE 0
                  IN  IF i = 0 THEN NULL ELSE c[i]
  BY DEF Get, SelectInSeq
<1>6. I # {}
  <2>1. PICK i \in 1..Len(c) : c[i] = f
    BY <1>1, <1>2, LenProperties DEF ToSet
  <2> QED
    BY <1>3, <2>1
<1>7. Min(I) \in 1..Len(c)
  BY <1>4, <1>6
<1> HIDE DEF I, c
<1>8. c[Min(I)] \in Entry
  BY <1>2, <1>7, ElementOfSeq
<1> QED
  BY <1>5, <1>6, <1>7, <1>8, YhashmapAssumption

-----------------------------------------------------------------------------
(* The steps *)

LEMMA InitHInv == Init => HInv
<1> SUFFICES ASSUME Init PROVE HInv
  OBVIOUS
<1>1. chain = <<>> /\ Buckets = {} /\ Linked = {}
  BY NoBuckets DEF Init
<1>2. Shape /\ NoStaleValue
  BY DEF Init, Shape, NoStaleValue
<1>3. TypeOK
  BY <1>1, YhashmapAssumption DEF Init, TypeOK
<1>4. ChainsWellFormed
  BY <1>1, <1>3, FS_EmptySet DEF Init, ChainsWellFormed
<1>5. HeapIsExact
  BY <1>1 DEF Init, HeapIsExact
<1> QED
  BY <1>2, <1>4, <1>5 DEF HInv

\* The calls that change neither the map nor the memory.
LEMMA QuietStep ==
  ASSUME HInv, UNCHANGED <<exists, chain, size, entryVars>>, TypeOK'
  PROVE  HInv'
<1>1. UNCHANGED <<exists, chain, size, entryMem, keyMem, key, hash, value, valuelen, mem>>
  BY DEF entryVars
<1>2. Buckets' = Buckets /\ bucketCount' = bucketCount /\ Linked' = Linked
  BY <1>1 DEF Buckets, bucketCount, Linked
<1>3. Shape' /\ NoStaleValue'
  BY <1>1 DEF HInv, Shape, NoStaleValue
<1>4. ChainsWellFormed'
  BY <1>1, <1>2 DEF HInv, ChainsWellFormed, calculateIndex, hashKey
<1>5. HeapIsExact'
  BY <1>1, <1>2 DEF HInv, HeapIsExact
<1> QED
  BY <1>3, <1>4, <1>5 DEF HInv

LEMMA CreateStep ==
  ASSUME HInv, NEW c \in Capacities, Create(c)
  PROVE  HInv'
<1>1. /\ ~ exists /\ exists' = TRUE /\ size' = 0
      /\ UNCHANGED <<owner, entryMem, keyMem, key, hash, value, valuelen, mem,
                     search, active, seen, must>>
  BY DEF Create, entryVars, searchVars
<1>2. PICK n \in PowerOfTwo : chain' = [b \in 0..(n - 1) |-> <<>>]
  BY DEF Create, BucketsFor, FirstAbove
<1>3. n \in Nat \ {0} /\ <<>> \in Seq(Entry)
  BY YhashmapAssumption, EmptySeq
<1>4. Shape'
  BY <1>1, <1>2, <1>3 DEF Shape
<1>5. Buckets' = 0..(n - 1) /\ \A b \in Buckets' : chain'[b] = <<>>
  BY <1>2 DEF Buckets
<1>6. DOMAIN (<<>>) = {}
  OBVIOUS
<1>7. Linked' = {}
  BY <1>5, <1>6 DEF Linked, ToSet
<1>8. TypeOK'
  <2>1. TypeOK
    BY DEF HInv, ChainsWellFormed
  <2>2. Buckets' \subseteq Nat
    BY <1>3, <1>5
  <2>3. \A b \in Buckets' : chain'[b] \in Seq(Entry)
    BY <1>3, <1>5
  <2> QED
    BY <1>1, <2>1, <2>2, <2>3 DEF TypeOK
<1>9. ChainsWellFormed'
  BY <1>1, <1>5, <1>6, <1>7, <1>8, FS_EmptySet
     DEF ChainsWellFormed, ToSet, IsInjective
<1>10. Linked = {}
  BY <1>1 DEF HInv, HeapIsExact
<1>11. HeapIsExact' /\ NoStaleValue'
  BY <1>1, <1>7, <1>10 DEF HInv, HeapIsExact, NoStaleValue
<1> QED
  BY <1>4, <1>9, <1>11 DEF HInv

\* What freeing the entries in S leaves of the heap.
LEMMA FreeLeaves ==
  ASSUME HInv, NEW S \in SUBSET Linked, FreeEntries(S), Linked' = Linked \ S,
         ~ exists' => Linked' = {}
  PROVE  /\ \A e \in Linked' : /\ key'[e] = key[e] /\ hash'[e] = hash[e]
                               /\ value'[e] = value[e] /\ valuelen'[e] = valuelen[e]
         /\ NoStaleValue'
         /\ HeapIsExact'
         /\ entryMem' \subseteq Entry /\ keyMem' \subseteq Entry
         /\ key' \in [Entry -> Key \cup {NoKey}]
         /\ hash' \in [Entry -> Nat]
         /\ value' \in [Entry -> Block \cup {NULL}]
         /\ valuelen' \in [Entry -> {0, 1}]
         /\ mem' \in [Block -> Value \cup {Free}]
<1>1. TypeOK /\ Linked \subseteq Entry
  BY LinkedEntries DEF HInv, ChainsWellFormed
<1>2. \A e \in Linked' : /\ e \in Linked /\ e \in Entry /\ e \notin S
                         /\ key'[e] = key[e] /\ hash'[e] = hash[e]
                         /\ value'[e] = value[e] /\ valuelen'[e] = valuelen[e]
  BY <1>1 DEF FreeEntries
<1>3. NoStaleValue'
  BY <1>1 DEF FreeEntries, HInv, NoStaleValue
<1>4. /\ entryMem' \subseteq Entry /\ keyMem' \subseteq Entry
      /\ key' \in [Entry -> Key \cup {NoKey}]
      /\ hash' \in [Entry -> Nat]
  BY <1>1 DEF FreeEntries, TypeOK
<1>5. /\ value' \in [Entry -> Block \cup {NULL}]
      /\ valuelen' \in [Entry -> {0, 1}]
      /\ mem' \in [Block -> Value \cup {Free}]
  BY <1>1 DEF FreeEntries, TypeOK
<1>6. entryMem' = Linked' /\ keyMem' = {e \in Linked' : key'[e] # EmptyKey}
  BY <1>2 DEF FreeEntries, HInv, HeapIsExact
<1>7. \A e, f \in Linked : valuelen[e] > 0 /\ value[e] = value[f] => e = f
  BY DEF HInv, HeapIsExact
<1>8. ASSUME NEW b \in Block
      PROVE  mem'[b] # Free <=> \E e \in Linked' : valuelen'[e] > 0 /\ value'[e] = b
  <2>1. mem[b] # Free <=> \E e \in Linked : valuelen[e] > 0 /\ value[e] = b
    BY DEF HInv, HeapIsExact
  <2>2. mem'[b] = IF \E e \in S : valuelen[e] > 0 /\ value[e] = b THEN Free ELSE mem[b]
    BY DEF FreeEntries
  <2>3. CASE \E e \in S : valuelen[e] > 0 /\ value[e] = b
    BY <1>2, <1>7, <2>2, <2>3
  <2>4. CASE ~ \E e \in S : valuelen[e] > 0 /\ value[e] = b
    BY <1>2, <2>1, <2>2, <2>4
  <2> QED
    BY <2>3, <2>4
<1>9. \A e \in Linked' : valuelen'[e] > 0 => value'[e] \in Block
  BY <1>2 DEF HInv, HeapIsExact
<1>10. {b \in Block : mem'[b] # Free} = {value'[e] : e \in {f \in Linked' : valuelen'[f] > 0}}
  BY <1>8, <1>9
<1>11. HeapIsExact'
  BY <1>2, <1>6, <1>7, <1>10 DEF HeapIsExact
<1> QED
  BY <1>2, <1>3, <1>4, <1>5, <1>11

LEMMA ReleaseStep ==
  ASSUME HInv, Release
  PROVE  HInv'
<1>1. /\ FreeEntries(Linked) /\ exists' = FALSE /\ chain' = <<>> /\ size' = 0
      /\ UNCHANGED <<owner, search, active, seen, must>>
  BY DEF Release, searchVars
<1>2. Buckets' = {} /\ Linked' = {}
  BY <1>1 DEF Buckets, Linked
<1>3. NoStaleValue' /\ HeapIsExact'
  BY <1>1, <1>2, FreeLeaves
<1>4. TypeOK'
  <2>1. TypeOK
    BY DEF HInv, ChainsWellFormed
  <2> QED
    BY <1>1, <1>2, <2>1, FreeLeaves DEF TypeOK
<1>5. ChainsWellFormed'
  BY <1>1, <1>2, <1>4, FS_EmptySet DEF ChainsWellFormed
<1> QED
  BY <1>1, <1>3, <1>5 DEF HInv, Shape

\* What Yhashmap_put makes of the chains: the new entry e, with the key k and its
\* hash h, ends the chain of the bucket b.
PutEffect(k, h, e, b) ==
  /\ exists /\ UNCHANGED <<exists, owner, mem, search, active, seen, must>>
  /\ entryMem' = entryMem \cup {e}
  /\ keyMem' = IF k = EmptyKey THEN keyMem ELSE keyMem \cup {e}
  /\ key' = [key EXCEPT ![e] = k]
  /\ hash' = [hash EXCEPT ![e] = h]
  /\ value' = [value EXCEPT ![e] = NULL]
  /\ valuelen' = [valuelen EXCEPT ![e] = 0]
  /\ size' = size + 1
  /\ chain' = [chain EXCEPT ![b] = Append(@, e)]
  /\ chain \in [Buckets -> Seq(Entry)] /\ Buckets \subseteq Nat
  /\ b = calculateIndex(bucketCount, h)
  /\ e \notin Linked /\ \A f \in Linked : key[f] # k /\ f # e
  /\ e \notin ToSet(chain[b]) /\ IsInjective(chain[b])
  /\ Append(chain[b], e) \in Seq(Entry)
  /\ IsInjective(Append(chain[b], e))
  /\ ToSet(Append(chain[b], e)) = ToSet(chain[b]) \cup {e}
  /\ Buckets' = Buckets /\ bucketCount' = bucketCount
  /\ \A c \in Buckets : chain'[c] = IF c = b THEN Append(chain[b], e) ELSE chain[c]
  /\ Linked' = Linked \cup {e}
  /\ \A f \in Linked : /\ key'[f] = key[f] /\ hash'[f] = hash[f]
                       /\ value'[f] = value[f] /\ valuelen'[f] = valuelen[f]
  /\ key'[e] = k /\ hash'[e] = h /\ value'[e] = NULL /\ valuelen'[e] = 0

LEMMA PutLinks ==
  ASSUME HInv, NEW t \in Thread, NEW k \in Key, NEW p \in Address, Put(t, p, k)
  PROVE  \E e \in Entry, b \in Buckets : PutEffect(k, hashKey[p][k], e, b)
<1> DEFINE h == hashKey[p][k]
           b == calculateIndex(bucketCount, h)
<1>1. PICK e \in Entry \ entryMem :
        /\ entryMem' = entryMem \cup {e}
        /\ keyMem' = IF k = EmptyKey THEN keyMem ELSE keyMem \cup {e}
        /\ key' = [key EXCEPT ![e] = k]
        /\ hash' = [hash EXCEPT ![e] = h]
        /\ value' = [value EXCEPT ![e] = NULL]
        /\ valuelen' = [valuelen EXCEPT ![e] = 0]
        /\ size' = size + 1
        /\ chain' = [chain EXCEPT ![b] = Append(@, e)]
  BY DEF Put
<1>2. /\ exists /\ UNCHANGED <<exists, owner, mem, search, active, seen, must>>
      /\ Get(p, k) = NULL
  BY DEF Put, Locked, searchVars
<1>3. TypeOK /\ ChainsWellFormed /\ HeapIsExact /\ Shape /\ NoStaleValue
  BY DEF HInv, ChainsWellFormed
<1>4. /\ h \in Nat /\ \A q \in Address : hashKey[q][k] = h
      /\ b \in Buckets
      /\ chain \in [Buckets -> Seq(Entry)] /\ Buckets \subseteq Nat
  BY <1>2, <1>3, HashOfKey, BucketFacts
<1> HIDE DEF b, h
<1>5. e \notin Linked /\ \A f \in Linked : key[f] # k /\ f # e
  BY <1>1, <1>2, <1>3, GetFinds DEF HeapIsExact
<1>6. chain[b] \in Seq(Entry) /\ IsInjective(chain[b]) /\ e \notin ToSet(chain[b])
  BY <1>3, <1>4, <1>5, LinkedIn DEF ChainsWellFormed
<1>7. /\ Append(chain[b], e) \in Seq(Entry)
      /\ IsInjective(Append(chain[b], e))
      /\ ToSet(Append(chain[b], e)) = ToSet(chain[b]) \cup {e}
  BY <1>6, AppendNew
<1>8. /\ Buckets' = Buckets /\ bucketCount' = bucketCount
      /\ \A c \in Buckets : chain'[c] = IF c = b THEN Append(chain[b], e) ELSE chain[c]
  BY <1>1, <1>4 DEF Buckets, bucketCount
<1>9. Linked' = Linked \cup {e}
  BY <1>4, <1>7, <1>8, ZenonT(40) DEF Linked
<1>10. Linked \subseteq Entry /\ IsFiniteSet(Linked)
  BY <1>3, LinkedEntries
<1>11. \A f \in Linked : /\ key'[f] = key[f] /\ hash'[f] = hash[f]
                         /\ value'[f] = value[f] /\ valuelen'[f] = valuelen[f]
  BY <1>1, <1>3, <1>5, <1>10 DEF TypeOK
<1>12. key'[e] = k /\ hash'[e] = h /\ value'[e] = NULL /\ valuelen'[e] = 0
  BY <1>1, <1>3 DEF TypeOK
<1> QED
  BY <1>1, <1>2, <1>4, <1>5, <1>6, <1>7, <1>8, <1>9, <1>11, <1>12 DEF b, h, PutEffect

LEMMA PutStep ==
  ASSUME HInv, NEW t \in Thread, NEW k \in Key, NEW p \in Address, Put(t, p, k)
  PROVE  HInv'
<1> DEFINE h == hashKey[p][k]
<1>1. PICK e \in Entry, b \in Buckets : PutEffect(k, h, e, b)
  BY PutLinks
<1> USE DEF PutEffect
<1>2. TypeOK /\ ChainsWellFormed /\ HeapIsExact /\ Shape /\ NoStaleValue
  BY DEF HInv, ChainsWellFormed
<1>3. h \in Nat /\ \A q \in Address : hashKey[q][k] = h
  BY HashOfKey
<1> HIDE DEF h
<1>4. Linked \subseteq Entry /\ IsFiniteSet(Linked)
  BY <1>2, LinkedEntries
<1>5. Shape'
  <2>1. chain' \in [Buckets -> Seq(Entry)]
    BY <1>1, <1>3
  <2>2. \E n \in Nat \ {0} : Buckets = 0..(n - 1)
    BY <1>1, <1>2 DEF Shape, Buckets
  <2> QED
    BY <1>1, <2>1, <2>2 DEF Shape
<1>6. NoStaleValue'
  BY <1>1, <1>2 DEF NoStaleValue, TypeOK
<1>7. TypeOK'
  <2>1. Buckets' \subseteq Nat /\ \A c \in Buckets' : chain'[c] \in Seq(Entry)
    BY <1>1, <1>3
  <2>2. /\ size' \in Nat /\ entryMem' \subseteq Entry /\ keyMem' \subseteq Entry
        /\ key' \in [Entry -> Key \cup {NoKey}]
        /\ hash' \in [Entry -> Nat]
        /\ value' \in [Entry -> Block \cup {NULL}]
        /\ valuelen' \in [Entry -> {0, 1}]
    BY <1>1, <1>2, <1>3 DEF TypeOK
  <2> QED
    BY <1>1, <1>2, <2>1, <2>2 DEF TypeOK
<1>8. ChainsWellFormed'
  <2>1. ASSUME NEW c \in Buckets', NEW f \in ToSet(chain'[c])
        PROVE  /\ key'[f] \in Key
               /\ \A q \in Address : hash'[f] = hashKey[q][key'[f]]
               /\ calculateIndex(bucketCount, hash'[f]) = c
    <3>1. CASE f = e
      <4>1. c = b
        BY <1>1, <2>1, <3>1, LinkedIn
      <4> QED
        BY <1>1, <1>3, <3>1, <4>1
    <3>2. CASE f # e
      <4>1. f \in ToSet(chain[c]) /\ c \in Buckets
        BY <1>1, <2>1, <3>2
      <4>2. f \in Linked
        BY <4>1, LinkedIn
      <4> QED
        BY <1>2, <1>1, <4>1, <4>2 DEF ChainsWellFormed
    <3> QED
      BY <3>1, <3>2
  <2>2. \A c \in Buckets' : IsInjective(chain'[c])
    BY <1>2, <1>1 DEF ChainsWellFormed
  <2>3. \A f, g \in Linked' : key'[f] = key'[g] => f = g
    BY <1>2, <1>1 DEF ChainsWellFormed
  <2>4. size' = Cardinality(Linked')
    BY <1>1, <1>2, <1>4, FS_AddElement DEF ChainsWellFormed
  <2> QED
    BY <1>1, <1>7, <2>1, <2>2, <2>3, <2>4 DEF ChainsWellFormed, hashKey
<1>9. HeapIsExact'
  <2>1. entryMem' = Linked'
    BY <1>1, <1>2 DEF HeapIsExact
  <2>2. keyMem' = {f \in Linked' : key'[f] # EmptyKey}
    BY <1>1, <1>2 DEF HeapIsExact
  <2>3. {f \in Linked' : valuelen'[f] > 0} = {f \in Linked : valuelen[f] > 0}
    BY <1>1
  <2>4. {x \in Block : mem'[x] # Free} = {value'[f] : f \in {g \in Linked' : valuelen'[g] > 0}}
    BY <1>1, <1>2, <2>3, SMTT(40) DEF HeapIsExact
  <2>5. \A f \in Linked : valuelen[f] > 0 => value[f] \in Block
    BY <1>2 DEF HeapIsExact
  <2>6. \A f, g \in Linked' : valuelen'[f] > 0 /\ value'[f] = value'[g] => f = g
    BY <1>2, <1>1, <2>5, YhashmapAssumption DEF HeapIsExact
  <2> QED
    BY <1>1, <2>1, <2>2, <2>4, <2>6 DEF HeapIsExact
<1> QED
  BY <1>5, <1>6, <1>8, <1>9 DEF HInv

\* The two ways to set a value differ in the pointer that is stored.
LEMMA ValueStep ==
  ASSUME HInv, NEW t \in Thread, NEW e \in Linked, NEW v \in Value,
         SetValue(t, e, v) \/ SetValueZeroLength(t, e, v)
  PROVE  HInv'
<1>1. /\ UNCHANGED <<exists, owner, chain, size, entryMem, keyMem, key, hash,
                     search, active, seen, must>>
      /\ exists
  BY DEF SetValue, SetValueZeroLength, Locked, mapVars, searchVars
<1>2. TypeOK /\ ChainsWellFormed /\ HeapIsExact /\ Shape /\ NoStaleValue
  BY DEF HInv, ChainsWellFormed
<1>3. /\ Buckets' = Buckets /\ bucketCount' = bucketCount /\ Linked' = Linked
      /\ Linked \subseteq Entry
  BY <1>1, <1>2, LinkedEntries DEF Buckets, bucketCount, Linked
<1>4. PICK b \in Block \cup {NULL}, n \in {0, 1} :
        /\ value' = [value EXCEPT ![e] = b]
        /\ valuelen' = [valuelen EXCEPT ![e] = n]
        /\ n = 0 => b = NULL
        /\ n = 1 => b \in Block /\ mem[b] = Free
        /\ mem' = [c \in Block |->
                     IF n = 1 /\ c = b THEN v
                     ELSE IF valuelen[e] > 0 /\ c = value[e] THEN Free
                     ELSE mem[c]]
  <2>1. CASE SetValue(t, e, v)
    <3>1. PICK b \in Block :
            /\ mem[b] = Free
            /\ mem' = [c \in Block |->
                         IF c = b THEN v
                         ELSE IF valuelen[e] > 0 /\ c = value[e] THEN Free
                         ELSE mem[c]]
            /\ value' = [value EXCEPT ![e] = b]
            /\ valuelen' = [valuelen EXCEPT ![e] = 1]
      BY <2>1 DEF SetValue
    <3> WITNESS b \in Block \cup {NULL}, 1 \in {0, 1}
    <3> QED
      BY <3>1
  <2>2. CASE SetValueZeroLength(t, e, v)
    <3> WITNESS NULL \in Block \cup {NULL}, 0 \in {0, 1}
    <3> QED
      BY <2>2 DEF SetValueZeroLength
  <2> QED
    BY <2>1, <2>2
<1>5. /\ \A f \in Linked : f # e => value'[f] = value[f] /\ valuelen'[f] = valuelen[f]
      /\ value'[e] = b /\ valuelen'[e] = n
  BY <1>2, <1>3, <1>4 DEF TypeOK
<1>6. TypeOK'
  <2>1. /\ value' \in [Entry -> Block \cup {NULL}]
        /\ valuelen' \in [Entry -> {0, 1}]
        /\ mem' \in [Block -> Value \cup {Free}]
    BY <1>2, <1>4 DEF TypeOK
  <2> QED
    BY <1>1, <1>2, <1>3, <2>1 DEF TypeOK
<1>7. Shape'
  BY <1>1, <1>2 DEF Shape
<1>8. NoStaleValue'
  BY <1>2, <1>4 DEF NoStaleValue, TypeOK
<1>9. ChainsWellFormed'
  BY <1>1, <1>2, <1>3, <1>6 DEF ChainsWellFormed, calculateIndex, hashKey
<1>10. HeapIsExact'
  <2>1. \A f, g \in Linked : valuelen[f] > 0 /\ value[f] = value[g] => f = g
    BY <1>2 DEF HeapIsExact
  <2>2. /\ \A f \in Linked : valuelen[f] > 0 => value[f] \in Block /\ mem[value[f]] # Free
        /\ \A c \in Block : mem[c] # Free => \E f \in Linked : valuelen[f] > 0 /\ value[f] = c
    BY <1>2 DEF HeapIsExact
  <2>3. NULL \notin Block /\ Free \notin Value
    BY YhashmapAssumption
  <2>4. n = 1 => \A f \in Linked : value[f] # b
    <3>1. \A f \in Linked : valuelen[f] \in {0, 1} /\ (valuelen[f] = 0 => value[f] = NULL)
      BY <1>2, <1>3 DEF NoStaleValue, TypeOK
    <3> QED
      BY <1>4, <2>2, <2>3, <3>1
  <2>5. \A f, g \in Linked' : valuelen'[f] > 0 /\ value'[f] = value'[g] => f = g
    <3>1. \A f \in Linked : valuelen[f] > 0 => value[f] # NULL
      BY <2>2, <2>3
    <3> QED
      BY <1>3, <1>4, <1>5, <2>1, <2>4, <3>1
  <2>6. ASSUME NEW c \in Block
        PROVE  mem'[c] # Free <=> \E f \in Linked : valuelen'[f] > 0 /\ value'[f] = c
    <3>1. mem'[c] = IF n = 1 /\ c = b THEN v
                    ELSE IF valuelen[e] > 0 /\ c = value[e] THEN Free
                    ELSE mem[c]
      BY <1>4
    <3>2. CASE n = 1 /\ c = b
      BY <1>5, <2>3, <3>1, <3>2
    <3>3. CASE ~ (n = 1 /\ c = b) /\ valuelen[e] > 0 /\ c = value[e]
      BY <1>4, <1>5, <2>1, <2>3, <3>1, <3>3
    <3>4. CASE ~ (n = 1 /\ c = b) /\ ~ (valuelen[e] > 0 /\ c = value[e])
      <4>1. mem'[c] = mem[c]
        BY <3>1, <3>4
      <4>2. ASSUME mem[c] # Free
            PROVE  \E f \in Linked : valuelen'[f] > 0 /\ value'[f] = c
        BY <1>5, <2>2, <3>4, <4>2
      <4>3. ASSUME NEW f \in Linked, valuelen'[f] > 0, value'[f] = c
            PROVE  mem[c] # Free
        BY <1>4, <1>5, <2>2, <3>4, <4>3
      <4> QED
        BY <4>1, <4>2, <4>3
    <3> QED
      BY <3>2, <3>3, <3>4
  <2>7. \A f \in Linked' : valuelen'[f] > 0 => value'[f] \in Block
    BY <1>3, <1>4, <1>5, <2>2
  <2>8. {c \in Block : mem'[c] # Free} = {value'[f] : f \in {g \in Linked' : valuelen'[g] > 0}}
    BY <1>3, <2>6, <2>7
  <2> QED
    BY <1>1, <1>2, <1>3, <2>5, <2>8 DEF HeapIsExact
<1> QED
  BY <1>7, <1>8, <1>9, <1>10 DEF HInv

\* What Yhashmap_remove makes of the chains and of the memory: the entry e leaves
\* the chain of the bucket b.
RemoveEffect(e, b) ==
  /\ exists /\ FreeEntries({e}) /\ ForgetEntry(e)
  /\ UNCHANGED <<exists, owner, search>>
  /\ chain' = [chain EXCEPT ![b] = RemoveFirst(@, e)]
  /\ size' = size - 1
  /\ e \in ToSet(chain[b])
  /\ \A c \in Buckets : e \in ToSet(chain[c]) => c = b
  /\ chain \in [Buckets -> Seq(Entry)] /\ Buckets \subseteq Nat
  /\ RemoveFirst(chain[b], e) \in Seq(Entry)
  /\ IsInjective(RemoveFirst(chain[b], e))
  /\ ToSet(RemoveFirst(chain[b], e)) = ToSet(chain[b]) \ {e}
  /\ Buckets' = Buckets /\ bucketCount' = bucketCount
  /\ \A c \in Buckets :
       chain'[c] = IF c = b THEN RemoveFirst(chain[b], e) ELSE chain[c]
  /\ Linked' = Linked \ {e}
  /\ \A f \in Linked' : /\ key'[f] = key[f] /\ hash'[f] = hash[f]
                        /\ value'[f] = value[f] /\ valuelen'[f] = valuelen[f]

LEMMA RemoveLinks ==
  ASSUME HInv, NEW t \in Thread, NEW e \in Linked, RemoveEntry(t, e)
  PROVE  \E b \in Buckets : RemoveEffect(e, b)
<1> DEFINE b == calculateIndex(bucketCount, hash[e])
<1>1. /\ exists /\ FreeEntries({e}) /\ ForgetEntry(e)
      /\ UNCHANGED <<exists, owner, search>>
      /\ chain' = [chain EXCEPT ![b] = RemoveFirst(@, e)]
      /\ size' = IF e \in ToSet(chain[b]) THEN size - 1 ELSE size
  BY DEF RemoveEntry, Locked
<1>2. TypeOK /\ ChainsWellFormed /\ HeapIsExact /\ Shape /\ NoStaleValue
  BY DEF HInv, ChainsWellFormed
<1>3. /\ b \in Buckets /\ e \in ToSet(chain[b])
      /\ \A c \in Buckets : e \in ToSet(chain[c]) => c = b
  BY <1>2, InItsBucket
<1>4. chain \in [Buckets -> Seq(Entry)] /\ Buckets \subseteq Nat
  BY <1>1, <1>2, BucketFacts
<1> HIDE DEF b
<1>5. IsInjective(chain[b]) /\ chain[b] \in Seq(Entry)
  BY <1>2, <1>3, <1>4 DEF ChainsWellFormed
<1>6. /\ RemoveFirst(chain[b], e) \in Seq(Entry)
      /\ IsInjective(RemoveFirst(chain[b], e))
      /\ ToSet(RemoveFirst(chain[b], e)) = ToSet(chain[b]) \ {e}
  BY <1>3, <1>5, RemoveMember
<1>7. /\ Buckets' = Buckets /\ bucketCount' = bucketCount
      /\ \A c \in Buckets : chain'[c] = IF c = b THEN RemoveFirst(chain[b], e) ELSE chain[c]
  BY <1>1, <1>4 DEF Buckets, bucketCount
<1>8. Linked' = Linked \ {e}
  BY <1>3, <1>6, <1>7 DEF Linked
<1>9. Linked \subseteq Entry /\ IsFiniteSet(Linked)
  BY <1>2, LinkedEntries
<1>10. ~ exists' => Linked' = {}
  BY <1>1
<1>11. /\ \A f \in Linked' : /\ key'[f] = key[f] /\ hash'[f] = hash[f]
                             /\ value'[f] = value[f] /\ valuelen'[f] = valuelen[f]
       /\ NoStaleValue' /\ HeapIsExact'
       /\ entryMem' \subseteq Entry /\ keyMem' \subseteq Entry
       /\ key' \in [Entry -> Key \cup {NoKey}]
       /\ hash' \in [Entry -> Nat]
       /\ value' \in [Entry -> Block \cup {NULL}]
       /\ valuelen' \in [Entry -> {0, 1}]
       /\ mem' \in [Block -> Value \cup {Free}]
  BY <1>1, <1>8, <1>10, FreeLeaves
<1> QED
  BY <1>1, <1>3, <1>4, <1>6, <1>7, <1>8, <1>11 DEF RemoveEffect

LEMMA RemoveStep ==
  ASSUME HInv, NEW t \in Thread, NEW e \in Linked, RemoveEntry(t, e)
  PROVE  HInv'
<1>1. PICK b \in Buckets : RemoveEffect(e, b)
  BY RemoveLinks
<1> USE DEF RemoveEffect
<1>2. TypeOK /\ ChainsWellFormed /\ HeapIsExact /\ Shape /\ NoStaleValue
  BY DEF HInv, ChainsWellFormed
<1>3. Linked \subseteq Entry /\ IsFiniteSet(Linked)
  BY <1>2, LinkedEntries
<1>4. /\ \A f \in Linked' : /\ key'[f] = key[f] /\ hash'[f] = hash[f]
                            /\ value'[f] = value[f] /\ valuelen'[f] = valuelen[f]
      /\ NoStaleValue' /\ HeapIsExact'
      /\ entryMem' \subseteq Entry /\ keyMem' \subseteq Entry
      /\ key' \in [Entry -> Key \cup {NoKey}]
      /\ hash' \in [Entry -> Nat]
      /\ value' \in [Entry -> Block \cup {NULL}]
      /\ valuelen' \in [Entry -> {0, 1}]
      /\ mem' \in [Block -> Value \cup {Free}]
  BY <1>1, FreeLeaves
<1>5. Shape'
  <2>1. chain' \in [Buckets -> Seq(Entry)]
    BY <1>1
  <2>2. \E n \in Nat \ {0} : Buckets = 0..(n - 1)
    BY <1>1, <1>2 DEF Shape, Buckets
  <2> QED
    BY <1>1, <2>1, <2>2 DEF Shape
<1>6. size = Cardinality(Linked) /\ size' = Cardinality(Linked') /\ size' \in Nat
  <2>1. size = Cardinality(Linked) /\ size' = size - 1
    BY <1>1, <1>2 DEF ChainsWellFormed
  <2>2. Cardinality(Linked') = Cardinality(Linked) - 1 /\ IsFiniteSet(Linked')
    BY <1>1, <1>3, FS_RemoveElement
  <2>3. Cardinality(Linked') \in Nat
    BY <2>2, FS_CardinalityType
  <2> QED
    BY <2>1, <2>2, <2>3
<1>7. TypeOK'
  <2>1. Buckets' \subseteq Nat /\ \A c \in Buckets' : chain'[c] \in Seq(Entry)
    BY <1>1
  <2>2. /\ active' \subseteq Search
        /\ seen' \in [Search -> SUBSET Key]
        /\ must' \in [Search -> SUBSET Key]
    BY <1>1, <1>2 DEF ForgetEntry, TypeOK
  <2> QED
    BY <1>1, <1>2, <1>4, <1>6, <2>1, <2>2 DEF TypeOK
<1>8. ChainsWellFormed'
  <2>1. ASSUME NEW c \in Buckets', NEW f \in ToSet(chain'[c])
        PROVE  /\ key'[f] \in Key
               /\ \A q \in Address : hash'[f] = hashKey[q][key'[f]]
               /\ calculateIndex(bucketCount, hash'[f]) = c
    <3>1. f \in ToSet(chain[c]) /\ c \in Buckets /\ f # e
      BY <1>1, <2>1
    <3>2. f \in Linked /\ f \in Linked'
      BY <1>1, <3>1, LinkedIn
    <3> QED
      BY <1>2, <1>4, <3>1, <3>2 DEF ChainsWellFormed
  <2>2. \A c \in Buckets' : IsInjective(chain'[c])
    BY <1>2, <1>1 DEF ChainsWellFormed
  <2>3. \A f, g \in Linked' : key'[f] = key'[g] => f = g
    BY <1>2, <1>1, <1>4 DEF ChainsWellFormed
  <2> QED
    BY <1>1, <1>6, <1>7, <2>1, <2>2, <2>3 DEF ChainsWellFormed, hashKey
<1> QED
  BY <1>4, <1>5, <1>8 DEF HInv

\* A walk goes on with the head of the first chain that is not empty.
LEMMA HeadIsLinked ==
  ASSUME HInv, NEW from \in Nat, NonEmpty(from) # {}
  PROVE  /\ Min(NonEmpty(from)) \in Nat
         /\ Head(chain[Min(NonEmpty(from))]) \in Linked
<1> DEFINE b == Min(NonEmpty(from))
<1>1. TypeOK
  BY DEF HInv, ChainsWellFormed
<1>2. NonEmpty(from) \in SUBSET Nat /\ NonEmpty(from) \subseteq Buckets
  BY <1>1 DEF NonEmpty, TypeOK
<1>3. b \in NonEmpty(from)
  BY <1>2, MinIsSmallest
<1> HIDE DEF b
<1>4. b \in Buckets /\ b \in Nat /\ chain[b] \in Seq(Entry) /\ chain[b] # <<>>
  BY <1>1, <1>2, <1>3 DEF NonEmpty, TypeOK
<1>5. Head(chain[b]) = chain[b][1] /\ 1 \in DOMAIN chain[b]
  BY <1>4, EmptySeq, LenProperties
<1>6. Head(chain[b]) \in Linked
  BY <1>4, <1>5, LinkedIn DEF ToSet
<1> QED
  BY <1>4, <1>6 DEF b

LEMMA LinkedKeysAreKeys ==
  ASSUME HInv
  PROVE  /\ \A f \in Linked : f \in Entry /\ key[f] \in Key
         /\ LinkedKeys \subseteq Key
<1>1. \A f \in Linked : f \in Entry /\ key[f] \in Key
  BY LinkedEntries, InItsBucket DEF HInv, ChainsWellFormed
<1> QED
  BY <1>1 DEF LinkedKeys

LEMMA FirstEntryStep ==
  ASSUME HInv, NEW t \in Thread, NEW s \in Search, FirstEntry(t, s)
  PROVE  HInv'
<1> DEFINE b == Min(NonEmpty(0))
           e == Head(chain[b])
<1>1. /\ NonEmpty(0) # {}
      /\ search' = [search EXCEPT ![s] = [bucket |-> b, entry |-> e]]
      /\ UNCHANGED <<exists, owner, chain, size, entryVars>>
      /\ active' = active \cup {s}
      /\ seen' = [seen EXCEPT ![s] = {key[e]}]
      /\ must' = [must EXCEPT ![s] = LinkedKeys \ {key[e]}]
  BY DEF FirstEntry, StandOn, mapVars
<1>2. b \in Nat /\ e \in Linked
  BY <1>1, HeadIsLinked
<1> HIDE DEF b, e
<1>3. e \in Entry /\ key[e] \in Key /\ LinkedKeys \subseteq Key
  BY <1>2, LinkedKeysAreKeys
<1>4. TypeOK
  BY DEF HInv, ChainsWellFormed
<1>5. TypeOK'
  <2>1. search' \in [Search -> [bucket : Nat, entry : Entry \cup {NULL}]]
    BY <1>1, <1>2, <1>3, <1>4 DEF TypeOK
  <2>2. /\ active' \subseteq Search
        /\ seen' \in [Search -> SUBSET Key]
        /\ must' \in [Search -> SUBSET Key]
    BY <1>1, <1>3, <1>4 DEF TypeOK
  <2> QED
    BY <1>1, <1>4, <2>1, <2>2 DEF TypeOK, Buckets, entryVars
<1> QED
  BY <1>1, <1>5, QuietStep

LEMMA NextEntryStep ==
  ASSUME HInv, NEW t \in Thread, NEW s \in Search, NextEntry(t, s)
  PROVE  HInv'
<1>1. TypeOK
  BY DEF HInv, ChainsWellFormed
<1>2. search[s].bucket \in Nat
  BY <1>1 DEF TypeOK
<1>3. ASSUME NEW b \in Nat, NEW f \in Linked, StandOn(s, b, f),
             seen' = [seen EXCEPT ![s] = @ \cup {key[f]}],
             must' = [must EXCEPT ![s] = @ \ {key[f]}],
             UNCHANGED active
      PROVE  HInv'
  <2>1. UNCHANGED <<exists, owner, chain, size, entryVars>>
    BY <1>3 DEF StandOn, mapVars
  <2>2. f \in Entry /\ key[f] \in Key
    BY LinkedKeysAreKeys
  <2>3. search' \in [Search -> [bucket : Nat, entry : Entry \cup {NULL}]]
    BY <1>1, <1>3, <2>2 DEF StandOn, TypeOK
  <2>4. /\ active' \subseteq Search
        /\ seen' \in [Search -> SUBSET Key]
        /\ must' \in [Search -> SUBSET Key]
    BY <1>1, <1>3, <2>2 DEF TypeOK
  <2>5. TypeOK'
    BY <1>1, <2>1, <2>3, <2>4 DEF TypeOK, Buckets, entryVars
  <2> QED
    BY <2>1, <2>5, QuietStep
<1>4. CASE /\ StandOn(s, search[s].bucket, NULL)
           /\ active' = active \ {s}
           /\ seen' = [seen EXCEPT ![s] = {}]
           /\ UNCHANGED must
  <2>1. UNCHANGED <<exists, owner, chain, size, entryVars>>
    BY <1>4 DEF StandOn, mapVars
  <2>2. search' \in [Search -> [bucket : Nat, entry : Entry \cup {NULL}]]
    BY <1>1, <1>2, <1>4 DEF StandOn, TypeOK
  <2>3. TypeOK'
    BY <1>1, <1>4, <2>1, <2>2 DEF TypeOK, Buckets, entryVars
  <2> QED
    BY <2>1, <2>3, QuietStep
<1>5. \A f \in Successors(search[s].entry) : f \in Linked
  BY DEF Successors
<1>6. ASSUME LaterBuckets(s) # {}
      PROVE  Min(LaterBuckets(s)) \in Nat /\ Head(chain[Min(LaterBuckets(s))]) \in Linked
  BY <1>2, <1>6, HeadIsLinked DEF LaterBuckets
<1> QED
  BY <1>2, <1>3, <1>4, <1>5, <1>6 DEF NextEntry

LEMMA UnlockStep ==
  ASSUME HInv, NEW t \in Thread, Unlock(t)
  PROVE  HInv'
<1>1. /\ UNCHANGED <<exists, chain, size, entryVars>>
      /\ UNCHANGED <<entryMem, keyMem, key, hash, value, valuelen, mem>>
  BY DEF Unlock, entryVars
<1>2. TypeOK'
  BY <1>1 DEF Unlock, HInv, ChainsWellFormed, TypeOK, Buckets
<1> QED
  BY <1>1, <1>2, QuietStep

LEMMA UnchangedStep ==
  ASSUME HInv, NEW o \in Thread \cup {NoThread}, owner' = o,
         UNCHANGED <<exists, chain, size, entryVars, searchVars>>
  PROVE  HInv'
<1>1. TypeOK'
  BY DEF HInv, ChainsWellFormed, TypeOK, Buckets, entryVars, searchVars
<1> QED
  BY <1>1, QuietStep

LEMMA NextHInv == HInv /\ [Next]_vars => HInv'
<1> SUFFICES ASSUME HInv, [Next]_vars PROVE HInv'
  OBVIOUS
<1>1. CASE UNCHANGED vars
  <2>1. owner' = owner /\ UNCHANGED <<exists, chain, size, entryVars, searchVars>>
    BY <1>1 DEF vars, mapVars
  <2>2. owner \in Thread \cup {NoThread}
    BY DEF HInv, ChainsWellFormed, TypeOK
  <2> QED
    BY <2>1, <2>2, UnchangedStep
<1>2. CASE \E c \in Capacities : Create(c)
  BY <1>2, CreateStep
<1>3. CASE CreateFails
  BY <1>1, <1>3 DEF CreateFails
<1>4. CASE Release
  BY <1>4, ReleaseStep
<1>5. ASSUME NEW t \in Thread, Lock(t) PROVE HInv'
  BY <1>5, UnchangedStep DEF Lock
<1>6. ASSUME NEW t \in Thread, Unlock(t) PROVE HInv'
  BY <1>6, UnlockStep
<1>7. ASSUME NEW t \in Thread, NEW k \in Key, NEW p \in Address,
             Put(t, p, k) \/ PutFails(t, p, k)
      PROVE  HInv'
  BY <1>1, <1>7, PutStep DEF PutFails
<1>8. ASSUME NEW t \in Thread, NEW e \in Entry, RemoveEntry(t, e) \/ SetValueFails(t, e)
      PROVE  HInv'
  BY <1>1, <1>8, RemoveStep DEF SetValueFails, RemoveEntry
<1>9. ASSUME NEW t \in Thread, NEW e \in Entry, NEW v \in Value,
             SetValue(t, e, v) \/ SetValueZeroLength(t, e, v)
      PROVE  HInv'
  <2>1. e \in Linked
    BY <1>9 DEF SetValue, SetValueZeroLength
  <2> QED
    BY <1>9, <2>1, ValueStep
<1>10. ASSUME NEW t \in Thread, NEW s \in Search, FirstEntry(t, s) \/ NextEntry(t, s)
       PROVE  HInv'
  BY <1>10, FirstEntryStep, NextEntryStep
<1> QED
  BY <1>1, <1>2, <1>3, <1>4, <1>5, <1>6, <1>7, <1>8, <1>9, <1>10 DEF Next

LEMMA HInvHolds == Spec => []HInv
BY InitHInv, NextHInv, PTL DEF Spec

-----------------------------------------------------------------------------
(* The theorems *)

\* However the keys collide, and from whatever address Yhashmap_put, get and
\* removekey read them, each entry is in the chain where a look-up searches, no
\* key has two entries, and Yhashmap_size is right.
THEOREM ChainsStayWellFormed == Spec => []ChainsWellFormed
<1>1. HInv => ChainsWellFormed
  BY DEF HInv
<1> QED
  BY <1>1, HInvHolds, PTL

\* Entries, copies of keys and copies of values are freed when, and only when, the
\* map no longer refers to them, even if an allocation fails half way through
\* Yhashmap_put or Yhashmap_setvalue.
THEOREM HeapStaysExact == Spec => []HeapIsExact
<1>1. HInv => HeapIsExact
  BY DEF HInv
<1> QED
  BY <1>1, HInvHolds, PTL

\* A map that Yhashmap_create made can take the entries it was asked for, with its
\* load factor of 3/4 rounded down at both ends, and any capacity below 2, provided
\* that an int can hold four times the capacity: the product that the code computes
\* does not overflow then, and it does not matter how it would.
THEOREM CapacityFits == Spec => RoomForCapacity
<1>1. ASSUME NEW c \in Capacities, Create(c), 4 * c < IntLimit
      PROVE  (Capacity)' >= c
  <2> DEFINE m == Max({c, 2})
  <2>1. c \in Int /\ IntLimit \in Nat /\ IntLimit > 8
    BY YhashmapAssumption
  <2>2. m \in Int /\ m >= c /\ m >= 2 /\ m * 4 < IntLimit
    BY <1>1, <2>1 DEF Max
  <2>3. PICK x \in {m * 4, Wrapped(m * 4)}, n \in PowerOfTwo :
          /\ n > Quotient(x, 3)
          /\ chain' = [b \in 0..(n - 1) |-> <<>>]
    BY <1>1 DEF Create, BucketsFor, FirstAbove
  <2> HIDE DEF m
  <2>4. Wrapped(m * 4) = m * 4
    <3> DEFINE p == m * 4
    <3>1. p \in Nat /\ p < IntLimit
      BY <2>2
    <3> HIDE DEF p
    <3>2. (p + IntLimit) % (2 * IntLimit) = p + IntLimit
      BY <2>1, <3>1
    <3>3. Wrapped(p) = p
      BY <2>1, <3>1, <3>2 DEF Wrapped
    <3> QED
      BY <3>3 DEF p
  <2>5. n > (m * 4) \div 3 /\ chain' = [b \in 0..(n - 1) |-> <<>>]
    BY <2>3, <2>4, <2>2 DEF Quotient
  <2>6. c \in Int /\ n \in Nat \ {0}
    BY <2>1, YhashmapAssumption
  <2>7. Buckets' = 0..(n - 1)
    BY <2>5 DEF Buckets
  <2>8. bucketCount' = n
    BY <2>6, <2>7, FS_Interval DEF bucketCount
  <2>9. (n * 3) \div 4 >= m
    BY <2>5, <2>6, <2>2
  <2>10. (Capacity)' = (n * 3) \div 4
    BY <2>8 DEF Capacity
  <2> QED
    BY <2>6, <2>2, <2>9, <2>10
<1>2. [Next]_vars
      => [\A c \in Capacities : Create(c) /\ 4 * c < IntLimit => (Capacity)' >= c]_vars
  BY <1>1
<1> QED
  BY <1>2, PTL DEF Spec, RoomForCapacity

-----------------------------------------------------------------------------
(* The searches *)

\* A walk that is at the entry e of bucket b has the entry f before it.
After(b, e, f) ==
  \/ \E c \in Buckets : c > b /\ f \in ToSet(chain[c])
  \/ Precedes(chain[b], e, f)

\* The search stands on an entry of its bucket.
OnEntry(s) ==
  /\ search[s].bucket \in Buckets
  /\ search[s].entry \in ToSet(chain[search[s].bucket])

\* What it returned lies behind it, what it has yet to return lies before it.
Walked(s) ==
  LET b == search[s].bucket
      e == search[s].entry
  IN  /\ \A f \in Linked : key[f] \in seen[s] => ~ After(b, e, f)
      /\ \A k \in must[s] : \E f \in Linked : key[f] = k /\ After(b, e, f)

Walking(s) == OnEntry(s) /\ Walked(s) /\ seen[s] \subseteq LinkedKeys
Idle(s)    == seen[s] = {} /\ must[s] = {}

\* The inductive invariant of the searches: one is under way only while its
\* thread holds the lock.
SInv ==
  /\ active # {} => exists /\ owner # NoThread
  /\ \A s \in Search : IF s \in active THEN Walking(s) ELSE Idle(s)

\* No entry lies before itself.
LEMMA NotAfterItself ==
  ASSUME HInv, NEW b \in Buckets, NEW e \in ToSet(chain[b])
  PROVE  ~ After(b, e, e)
<1>1. TypeOK /\ ChainsWellFormed
  BY DEF HInv, ChainsWellFormed
<1>2. \A c \in Buckets : e \in ToSet(chain[c]) => c = b
  BY <1>1, LinkedIn, InItsBucket
<1>3. chain[b] \in Seq(Entry) /\ IsInjective(chain[b])
  BY <1>1 DEF ChainsWellFormed, TypeOK
<1>4. ~ Precedes(chain[b], e, e)
  BY <1>3, LenProperties DEF Precedes, IsInjective
<1>5. b \in Nat
  BY <1>1 DEF TypeOK
<1> QED
  BY <1>2, <1>4, <1>5 DEF After

\* The first entry of a chain precedes the others.
LEMMA HeadPrecedes ==
  ASSUME NEW S, NEW s \in Seq(S), s # <<>>
  PROVE  /\ Head(s) \in ToSet(s)
         /\ \A y \in ToSet(s) : y # Head(s) => Precedes(s, Head(s), y)
         /\ \A y : Precedes(s, Head(s), y) => y \in ToSet(s)
<1>1. /\ Len(s) \in Nat \ {0} /\ DOMAIN s = 1..Len(s) /\ Head(s) = s[1]
      /\ 1 \in 1..Len(s)
  BY EmptySeq, LenProperties
<1>2. Head(s) \in ToSet(s)
  BY <1>1 DEF ToSet
<1>3. ASSUME NEW y \in ToSet(s), y # Head(s) PROVE Precedes(s, Head(s), y)
  <2>1. PICK j \in 1..Len(s) : s[j] = y
    BY <1>1 DEF ToSet
  <2>2. 1 < j
    BY <1>1, <1>3, <2>1
  <2> QED
    BY <1>1, <2>1, <2>2 DEF Precedes
<1>4. \A y : Precedes(s, Head(s), y) => y \in ToSet(s)
  BY <1>1 DEF Precedes, ToSet
<1> QED
  BY <1>2, <1>3, <1>4

\* Where a walk goes on from bucket number from: its entry lies before nothing
\* that comes from there on.
LEMMA WalkFrom ==
  ASSUME HInv, NEW from \in Nat, NonEmpty(from) # {}
  PROVE  LET b == Min(NonEmpty(from))
             e == Head(chain[b])
         IN  /\ b \in Buckets /\ b >= from /\ e \in ToSet(chain[b])
             /\ \A c \in Buckets : \A f \in ToSet(chain[c]) :
                  c >= from /\ f # e => After(b, e, f)
             /\ \A f : After(b, e, f) =>
                  \E c \in Buckets : c >= from /\ f \in ToSet(chain[c])
<1> DEFINE b == Min(NonEmpty(from))
           e == Head(chain[b])
<1>1. TypeOK
  BY DEF HInv, ChainsWellFormed
<1>2. NonEmpty(from) \in SUBSET Nat
  BY <1>1 DEF NonEmpty, TypeOK
<1>3. b \in NonEmpty(from) /\ \A c \in NonEmpty(from) : b <= c
  BY <1>2, MinIsSmallest
<1> HIDE DEF b
<1>4. /\ b \in Buckets /\ b \in Nat /\ b >= from
      /\ chain[b] \in Seq(Entry) /\ chain[b] # <<>>
  BY <1>1, <1>2, <1>3 DEF NonEmpty, TypeOK
<1>5. /\ e \in ToSet(chain[b])
      /\ \A f \in ToSet(chain[b]) : f # e => Precedes(chain[b], e, f)
      /\ \A f : Precedes(chain[b], e, f) => f \in ToSet(chain[b])
  BY <1>4, HeadPrecedes
<1> HIDE DEF e
<1>6. ASSUME NEW c \in Buckets, NEW f \in ToSet(chain[c]), c >= from, f # e
      PROVE  After(b, e, f)
  <2>1. chain[c] # <<>>
    BY <1>6 DEF ToSet
  <2>2. c \in NonEmpty(from)
    BY <1>6, <2>1 DEF NonEmpty
  <2>3. b <= c /\ c \in Nat
    BY <1>2, <1>3, <2>2
  <2>4. c > b \/ c = b
    BY <1>4, <2>3
  <2> QED
    BY <1>5, <1>6, <2>4 DEF After
<1>7. ASSUME NEW f, After(b, e, f)
      PROVE  \E c \in Buckets : c >= from /\ f \in ToSet(chain[c])
  <2>1. CASE Precedes(chain[b], e, f)
    BY <1>4, <1>5, <2>1
  <2>2. CASE \E c \in Buckets : c > b /\ f \in ToSet(chain[c])
    <3>1. PICK c \in Buckets : c > b /\ f \in ToSet(chain[c])
      BY <2>2
    <3>2. c \in Nat /\ c >= from
      BY <1>1, <1>4, <3>1 DEF TypeOK
    <3> QED
      BY <3>1, <3>2
  <2> QED
    BY <1>7, <2>1, <2>2 DEF After
<1> QED
  BY <1>4, <1>5, <1>6, <1>7 DEF b, e

\* (b2, f) is the next stop of a walk at (b, e): what lies before e is f and what
\* lies before f.
NextStop(b, e, b2, f) ==
  /\ b2 \in Buckets /\ f \in ToSet(chain[b2])
  /\ After(b, e, f)
  /\ \A g \in Linked : After(b2, f, g) => After(b, e, g)
  /\ \A g \in Linked : After(b, e, g) /\ g # f => After(b2, f, g)

\* The entry after e in its chain.
LEMMA SuccessorIsNext ==
  ASSUME HInv, NEW b \in Buckets, NEW e \in ToSet(chain[b]), NEW f \in Successors(e)
  PROVE  NextStop(b, e, b, f)
<1>1. TypeOK /\ ChainsWellFormed
  BY DEF HInv, ChainsWellFormed
<1>0. PICK c \in Buckets : \E i \in 1..(Len(chain[c]) - 1) :
        chain[c][i] = e /\ chain[c][i + 1] = f
  BY DEF Successors
<1>2. PICK i \in 1..(Len(chain[c]) - 1) : chain[c][i] = e /\ chain[c][i + 1] = f
  BY <1>0
<1>3. /\ chain[b] \in Seq(Entry) /\ IsInjective(chain[b])
      /\ chain[c] \in Seq(Entry)
  BY <1>1 DEF ChainsWellFormed, TypeOK
<1>4. c = b
  <2>1. i \in DOMAIN chain[c]
    BY <1>2, <1>3, LenProperties
  <2>2. e \in ToSet(chain[c])
    BY <1>2, <2>1 DEF ToSet
  <2> QED
    BY <1>1, <2>2, LinkedIn, InItsBucket
<1> DEFINE s == chain[b]
<1>5. /\ Len(s) \in Nat /\ DOMAIN s = 1..Len(s)
      /\ i \in 1..Len(s) /\ i + 1 \in 1..Len(s) /\ s[i] = e /\ s[i + 1] = f
      /\ \A j, k \in 1..Len(s) : s[j] = s[k] => j = k
  BY <1>2, <1>3, <1>4, LenProperties DEF IsInjective
<1> HIDE DEF s
<1>6. f \in ToSet(s) /\ Precedes(s, e, f)
  BY <1>5 DEF ToSet, Precedes
<1>7. ASSUME NEW g, Precedes(s, f, g) PROVE Precedes(s, e, g)
  <2>1. PICK j, k \in 1..Len(s) : j < k /\ s[j] = f /\ s[k] = g
    BY <1>7 DEF Precedes
  <2>2. j = i + 1
    BY <1>5, <2>1
  <2>3. i < k
    BY <1>5, <2>1, <2>2
  <2> QED
    BY <1>5, <2>1, <2>3 DEF Precedes
<1>8. ASSUME NEW g, Precedes(s, e, g), g # f PROVE Precedes(s, f, g)
  <2>1. PICK j, k \in 1..Len(s) : j < k /\ s[j] = e /\ s[k] = g
    BY <1>8 DEF Precedes
  <2>2. j = i /\ k # i + 1
    BY <1>5, <1>8, <2>1
  <2>3. i + 1 < k
    BY <1>5, <2>1, <2>2
  <2> QED
    BY <1>5, <2>1, <2>3 DEF Precedes
<1> QED
  BY <1>6, <1>7, <1>8 DEF NextStop, After, s

\* An entry without successor precedes nothing in its chain.
LEMMA EndOfChain ==
  ASSUME HInv, NEW b \in Buckets, NEW e, Successors(e) = {}, NEW g
  PROVE  ~ Precedes(chain[b], e, g)
<1> SUFFICES ASSUME Precedes(chain[b], e, g) PROVE FALSE
  OBVIOUS
<1>1. chain[b] \in Seq(Entry) /\ Len(chain[b]) \in Nat /\ DOMAIN chain[b] = 1..Len(chain[b])
  BY LenProperties DEF HInv, ChainsWellFormed, TypeOK
<1>2. PICK i, j \in 1..Len(chain[b]) : i < j /\ chain[b][i] = e
  BY DEF Precedes
<1>3. i \in 1..(Len(chain[b]) - 1) /\ i + 1 \in 1..Len(chain[b])
  BY <1>1, <1>2
<1>4. chain[b][i + 1] \in Linked
  BY <1>1, <1>3, LinkedIn DEF ToSet
<1>5. chain[b][i + 1] \in Successors(e)
  BY <1>2, <1>3, <1>4 DEF Successors
<1> QED
  BY <1>5

\* The first entry of the first later chain.
LEMMA LaterIsNext ==
  ASSUME HInv, NEW b \in Buckets, NEW e \in ToSet(chain[b]), Successors(e) = {},
         NonEmpty(b + 1) # {}
  PROVE  LET b2 == Min(NonEmpty(b + 1))
         IN  NextStop(b, e, b2, Head(chain[b2]))
<1> DEFINE b2 == Min(NonEmpty(b + 1))
           f == Head(chain[b2])
<1>1. Buckets \subseteq Nat
  BY DEF HInv, ChainsWellFormed, TypeOK
<1>2. /\ b2 \in Buckets /\ b2 >= b + 1 /\ f \in ToSet(chain[b2])
      /\ \A c \in Buckets : \A g \in ToSet(chain[c]) :
           c >= b + 1 /\ g # f => After(b2, f, g)
      /\ \A g : After(b2, f, g) =>
           \E c \in Buckets : c >= b + 1 /\ g \in ToSet(chain[c])
  BY <1>1, WalkFrom
<1> HIDE DEF f, b2
<1>3. \A g : ~ Precedes(chain[b], e, g)
  BY EndOfChain
<1>4. \A c \in Buckets : c > b <=> c >= b + 1
  BY <1>1
<1> QED
  BY <1>2, <1>3, <1>4 DEF NextStop, After, f, b2

\* The last entry of a walk.
LEMMA EndOfWalk ==
  ASSUME HInv, NEW b \in Buckets, NEW e, Successors(e) = {}, NonEmpty(b + 1) = {}, NEW g
  PROVE  ~ After(b, e, g)
<1>1. Buckets \subseteq Nat
  BY DEF HInv, ChainsWellFormed, TypeOK
<1>2. ~ Precedes(chain[b], e, g)
  BY EndOfChain
<1>3. ASSUME NEW c \in Buckets, c > b, g \in ToSet(chain[c]) PROVE FALSE
  <2>1. chain[c] # <<>>
    BY <1>3 DEF ToSet
  <2>2. c \in NonEmpty(b + 1)
    BY <1>1, <1>3, <2>1 DEF NonEmpty
  <2> QED
    BY <2>2
<1> QED
  BY <1>2, <1>3 DEF After

LEMMA InitSInv == Init => SInv
BY DEF Init, SInv, Idle

\* The steps that no search is under way for.
LEMMA NoneSearching ==
  ASSUME HInv, SInv, active = {}, UNCHANGED searchVars
  PROVE  SInv'
<1>1. /\ active' = {} /\ seen' = seen /\ must' = must
      /\ \A s \in Search : seen[s] = {} /\ must[s] = {}
  BY DEF searchVars, SInv, Idle
<1> QED
  BY <1>1 DEF SInv, Idle

LEMMA SameWalk ==
  ASSUME NEW s, UNCHANGED <<chain, key>>, search'[s] = search[s], seen'[s] = seen[s],
         must'[s] = must[s]
  PROVE  Walking(s)' <=> Walking(s)
<1>1. /\ Buckets' = Buckets /\ Linked' = Linked
      /\ \A e, f : \A b : After(b, e, f)' <=> After(b, e, f)
  BY DEF Buckets, Linked, After
<1>2. LinkedKeys' = LinkedKeys
  BY <1>1 DEF LinkedKeys
<1>3. OnEntry(s)' <=> OnEntry(s)
  BY <1>1 DEF OnEntry
<1>4. Walked(s)' <=> Walked(s)
  BY <1>1 DEF Walked
<1> QED
  BY <1>2, <1>3, <1>4 DEF Walking

\* The steps that change neither the chains nor a search.
LEMMA SearchesKept ==
  ASSUME SInv, UNCHANGED <<exists, owner, chain, key, searchVars>>
  PROVE  SInv'
<1>1. UNCHANGED <<search, active, seen, must>>
  BY DEF searchVars
<1>2. \A s \in Search : (Walking(s)' <=> Walking(s)) /\ (Idle(s)' <=> Idle(s))
  BY <1>1, SameWalk DEF Idle
<1> QED
  BY <1>1, <1>2 DEF SInv

\* A new entry has a key that no search has returned.
LEMMA PutSearches ==
  ASSUME HInv, SInv, NEW t \in Thread, NEW k \in Key, NEW p \in Address, Put(t, p, k)
  PROVE  SInv'
<1>1. PICK e \in Entry, b \in Buckets : PutEffect(k, hashKey[p][k], e, b)
  BY PutLinks
<1>2. UNCHANGED <<exists, owner, search, active, seen, must>>
  BY <1>1 DEF PutEffect
<1>3. /\ Buckets' = Buckets /\ chain \in [Buckets -> Seq(Entry)]
      /\ Linked' = Linked \cup {e} /\ key'[e] = k
      /\ \A f \in Linked : key'[f] = key[f] /\ key[f] # k /\ f # e
  BY <1>1 DEF PutEffect
<1>4. \A c \in Buckets : \A f : f # e => (f \in ToSet(chain'[c]) <=> f \in ToSet(chain[c]))
  BY <1>1 DEF PutEffect
<1>5. \A c \in Buckets : \A x, y : y # e =>
        (Precedes(chain'[c], x, y) <=> Precedes(chain[c], x, y))
  BY <1>1, <1>3, AppendKeepsOrder DEF PutEffect
<1>6. \A c \in Buckets : \A x, y : y # e => (After(c, x, y)' <=> After(c, x, y))
  BY <1>3, <1>4, <1>5 DEF After
<1>7. LinkedKeys' = LinkedKeys \cup {k}
  BY <1>3 DEF LinkedKeys
<1>8. k \notin LinkedKeys
  BY <1>3 DEF LinkedKeys
<1>9. ASSUME NEW s \in Search, Walking(s) PROVE Walking(s)'
  <2>0. PICK c, x : c = search[s].bucket /\ x = search[s].entry
    OBVIOUS
  <2>1. c \in Buckets /\ x \in ToSet(chain[c])
    BY <1>9, <2>0 DEF Walking, OnEntry
  <2>2. x \in Linked /\ x # e
    BY <1>3, <2>1, LinkedIn
  <2>3. OnEntry(s)'
    BY <1>2, <1>3, <1>4, <2>0, <2>1, <2>2 DEF OnEntry
  <2>4. k \notin seen[s]
    BY <1>8, <1>9 DEF Walking
  <2>5. \A f \in Linked : key[f] \in seen[s] => ~ After(c, x, f)
    BY <1>9, <2>0 DEF Walking, Walked
  <2>6. \A l \in must[s] : \E f \in Linked : key[f] = l /\ After(c, x, f)
    BY <1>9, <2>0 DEF Walking, Walked
  <2>7. \A f \in Linked' : key'[f] \in seen[s] => ~ After(c, x, f)'
    BY <1>3, <1>6, <2>1, <2>4, <2>5
  <2>8. \A l \in must[s] : \E f \in Linked' : key'[f] = l /\ After(c, x, f)'
    BY <1>3, <1>6, <2>1, <2>6
  <2>9. Walked(s)'
    BY <1>2, <2>0, <2>7, <2>8 DEF Walked
  <2> QED
    BY <1>2, <1>7, <1>9, <2>3, <2>9 DEF Walking
<1> QED
  BY <1>2, <1>9 DEF SInv, Idle

\* A removed entry is one that no other search stands on.
LEMMA RemoveSearches ==
  ASSUME HInv, SInv, NEW t \in Thread, NEW e \in Linked, RemoveEntry(t, e)
  PROVE  SInv'
<1>1. PICK b \in Buckets : RemoveEffect(e, b)
  BY RemoveLinks
<1> DEFINE stopped == {s \in active : search[s].entry = e}
<1>2. /\ UNCHANGED <<exists, owner, search>>
      /\ active' = active \ stopped
      /\ seen' = [s \in Search |-> IF s \in stopped THEN {} ELSE seen[s] \ {key[e]}]
      /\ must' = [s \in Search |-> IF s \in stopped THEN {} ELSE must[s] \ {key[e]}]
  BY <1>1 DEF RemoveEffect, ForgetEntry
<1>3. /\ Buckets' = Buckets /\ chain \in [Buckets -> Seq(Entry)]
      /\ Linked' = Linked \ {e}
      /\ \A f \in Linked' : key'[f] = key[f]
      /\ e \in ToSet(chain[b])
  BY <1>1 DEF RemoveEffect
<1>4. \A c \in Buckets : \A f : f # e => (f \in ToSet(chain'[c]) <=> f \in ToSet(chain[c]))
  BY <1>1 DEF RemoveEffect
<1>5. \A x, y : x # e /\ y # e =>
        (Precedes(RemoveFirst(chain[b], e), x, y) <=> Precedes(chain[b], x, y))
  <2>1. chain[b] \in Seq(Entry)
    BY <1>3
  <2> QED
    BY <1>3, <2>1, RemoveKeepsOrder
<1>6. \A c \in Buckets : \A x, y : x # e /\ y # e => (After(c, x, y)' <=> After(c, x, y))
  <2>1. \A c \in Buckets : chain'[c] = IF c = b THEN RemoveFirst(chain[b], e) ELSE chain[c]
    BY <1>1 DEF RemoveEffect
  <2>2. \A c \in Buckets : \A x, y : x # e /\ y # e =>
          (Precedes(chain'[c], x, y) <=> Precedes(chain[c], x, y))
    BY <1>5, <2>1
  <2> QED
    BY <1>3, <1>4, <2>2 DEF After
<1>7. LinkedKeys \ {key[e]} \subseteq LinkedKeys'
  BY <1>3 DEF LinkedKeys
<1>8. ASSUME NEW s \in Search, Walking(s), search[s].entry # e,
             seen'[s] = seen[s] \ {key[e]}, must'[s] = must[s] \ {key[e]}
      PROVE  Walking(s)'
  <2>0. PICK c, x : c = search[s].bucket /\ x = search[s].entry
    OBVIOUS
  <2>1. c \in Buckets /\ x \in ToSet(chain[c]) /\ x # e
    BY <1>8, <2>0 DEF Walking, OnEntry
  <2>2. OnEntry(s)'
    BY <1>2, <1>3, <1>4, <2>0, <2>1 DEF OnEntry
  <2>3. \A f \in Linked : key[f] \in seen[s] => ~ After(c, x, f)
    BY <1>8, <2>0 DEF Walking, Walked
  <2>4. \A l \in must[s] : \E f \in Linked : key[f] = l /\ After(c, x, f)
    BY <1>8, <2>0 DEF Walking, Walked
  <2>5. \A f \in Linked' : key'[f] \in seen'[s] => ~ After(c, x, f)'
    BY <1>3, <1>6, <1>8, <2>1, <2>3
  <2>6. \A l \in must'[s] : \E f \in Linked' : key'[f] = l /\ After(c, x, f)'
    BY <1>3, <1>6, <1>8, <2>1, <2>4
  <2>7. Walked(s)'
    BY <1>2, <2>0, <2>5, <2>6 DEF Walked
  <2> QED
    BY <1>7, <1>8, <2>2, <2>7 DEF Walking
<1>9. ASSUME NEW s \in Search
      PROVE  IF s \in active' THEN Walking(s)' ELSE Idle(s)'
  <2>1. CASE s \in active'
    BY <1>2, <1>8, <2>1 DEF SInv
  <2>2. CASE s \in stopped
    BY <1>2, <2>2 DEF Idle
  <2>3. CASE s \notin active
    BY <1>2, <2>3 DEF SInv, Idle
  <2> QED
    BY <1>2, <2>1, <2>2, <2>3
<1> QED
  BY <1>2, <1>9 DEF SInv

LEMMA UnlockSearches ==
  ASSUME NEW t \in Thread, Unlock(t)
  PROVE  SInv'
BY DEF Unlock, SInv, Idle

LEMMA FirstSearches ==
  ASSUME HInv, SInv, NEW t \in Thread, NEW s \in Search, FirstEntry(t, s)
  PROVE  SInv'
<1>0. PICK b, e : b = Min(NonEmpty(0)) /\ e = Head(chain[b])
  OBVIOUS
<1>1. /\ NonEmpty(0) # {} /\ exists /\ owner \in Thread
      /\ search' = [search EXCEPT ![s] = [bucket |-> b, entry |-> e]]
      /\ UNCHANGED <<exists, owner, chain, key>>
      /\ active' = active \cup {s}
      /\ seen' = [seen EXCEPT ![s] = {key[e]}]
      /\ must' = [must EXCEPT ![s] = LinkedKeys \ {key[e]}]
  BY <1>0 DEF FirstEntry, StandOn, Locked, mapVars, entryVars
<1>2. TypeOK /\ ChainsWellFormed
  BY DEF HInv, ChainsWellFormed
<1>3. /\ b \in Buckets /\ e \in ToSet(chain[b])
      /\ \A c \in Buckets : \A f \in ToSet(chain[c]) : c >= 0 /\ f # e => After(b, e, f)
  BY <1>0, <1>1, WalkFrom
<1>4. e \in Linked /\ ~ After(b, e, e) /\ \A f \in Linked : key[f] = key[e] => f = e
  BY <1>2, <1>3, LinkedIn, NotAfterItself DEF ChainsWellFormed
<1>5. \A f \in Linked : f # e => After(b, e, f)
  BY <1>2, <1>3, LinkedIn DEF TypeOK
<1>6. /\ Buckets' = Buckets /\ Linked' = Linked /\ LinkedKeys' = LinkedKeys
      /\ \A f : After(b, e, f)' <=> After(b, e, f)
  BY <1>1 DEF Buckets, Linked, LinkedKeys, After
<1>7. /\ search'[s].bucket = b /\ search'[s].entry = e
      /\ seen'[s] = {key[e]} /\ must'[s] = LinkedKeys \ {key[e]}
  BY <1>1, <1>2 DEF TypeOK
<1>8. Walking(s)'
  <2>1. OnEntry(s)'
    BY <1>1, <1>3, <1>6, <1>7 DEF OnEntry
  <2>2. \A f \in Linked' : key'[f] \in seen'[s] => ~ After(b, e, f)'
    BY <1>1, <1>4, <1>6, <1>7
  <2>3. ASSUME NEW k \in must'[s] PROVE \E f \in Linked' : key'[f] = k /\ After(b, e, f)'
    <3>1. PICK f \in Linked : key[f] = k /\ f # e
      BY <1>7, <2>3 DEF LinkedKeys
    <3> QED
      BY <1>1, <1>5, <1>6, <3>1
  <2>4. Walked(s)'
    BY <1>7, <2>2, <2>3 DEF Walked
  <2>5. seen'[s] \subseteq LinkedKeys'
    BY <1>4, <1>6, <1>7 DEF LinkedKeys
  <2> QED
    BY <2>1, <2>4, <2>5 DEF Walking
<1>9. ASSUME NEW r \in Search, r # s
      PROVE  IF r \in active' THEN Walking(r)' ELSE Idle(r)'
  <2>1. search'[r] = search[r] /\ seen'[r] = seen[r] /\ must'[r] = must[r]
    BY <1>1, <1>2, <1>9 DEF TypeOK
  <2>2. Walking(r)' <=> Walking(r)
    BY <1>1, <2>1, SameWalk
  <2> QED
    BY <1>1, <1>9, <2>1, <2>2 DEF SInv, Idle
<1>10. owner' # NoThread
  BY <1>1, YhashmapAssumption
<1> QED
  BY <1>1, <1>8, <1>9, <1>10 DEF SInv

\* What Yhashmap_next makes of a search that was at (b, e): it goes on to (b2, f)...
Moves(s, b2, f) ==
  /\ NextStop(search[s].bucket, search[s].entry, b2, f)
  /\ StandOn(s, b2, f)
  /\ seen' = [seen EXCEPT ![s] = @ \cup {key[f]}]
  /\ must' = [must EXCEPT ![s] = @ \ {key[f]}]
  /\ active' = active

\* ... or it ends.
Ends(s) ==
  /\ \A g : ~ After(search[s].bucket, search[s].entry, g)
  /\ StandOn(s, search[s].bucket, NULL)
  /\ active' = active \ {s}
  /\ seen' = [seen EXCEPT ![s] = {}]
  /\ must' = must

LEMMA NextMovesOrEnds ==
  ASSUME HInv, SInv, NEW t \in Thread, NEW s \in Search, NextEntry(t, s)
  PROVE  s \in active /\ (Ends(s) \/ \E b2 \in Buckets, f \in Linked : Moves(s, b2, f))
<1>0. PICK b, e : b = search[s].bucket /\ e = search[s].entry
  OBVIOUS
<1>1. s \in active /\ b \in Buckets /\ e \in ToSet(chain[b])
  BY <1>0 DEF NextEntry, SInv, Walking, OnEntry
<1>2. LaterBuckets(s) = NonEmpty(b + 1)
  BY <1>0 DEF LaterBuckets
<1>3. ASSUME NEW f \in Successors(e),
             /\ StandOn(s, b, f)
             /\ seen' = [seen EXCEPT ![s] = @ \cup {key[f]}]
             /\ must' = [must EXCEPT ![s] = @ \ {key[f]}]
             /\ UNCHANGED active
      PROVE  \E b2 \in Buckets, g \in Linked : Moves(s, b2, g)
  <2>1. NextStop(b, e, b, f) /\ f \in Linked
    BY <1>1, SuccessorIsNext DEF Successors
  <2> QED
    BY <1>0, <1>1, <1>3, <2>1 DEF Moves
<1>4. ASSUME Successors(e) = {}, NonEmpty(b + 1) # {},
             NEW b2, NEW f, b2 = Min(NonEmpty(b + 1)), f = Head(chain[b2]),
             /\ StandOn(s, b2, f)
             /\ seen' = [seen EXCEPT ![s] = @ \cup {key[f]}]
             /\ must' = [must EXCEPT ![s] = @ \ {key[f]}]
             /\ UNCHANGED active
      PROVE  \E b3 \in Buckets, g \in Linked : Moves(s, b3, g)
  <2>1. NextStop(b, e, b2, f)
    BY <1>1, <1>4, LaterIsNext
  <2>2. b2 \in Buckets /\ f \in Linked
    BY <2>1, LinkedIn DEF NextStop
  <2> QED
    BY <1>0, <1>4, <2>1, <2>2 DEF Moves
<1>5. ASSUME Successors(e) = {}, NonEmpty(b + 1) = {},
             /\ StandOn(s, b, NULL)
             /\ active' = active \ {s}
             /\ seen' = [seen EXCEPT ![s] = {}]
             /\ UNCHANGED must
      PROVE  Ends(s)
  <2>1. \A g : ~ After(b, e, g)
    BY <1>1, <1>5, EndOfWalk
  <2> QED
    BY <1>0, <1>5, <2>1 DEF Ends
<1> QED
  BY <1>0, <1>1, <1>2, <1>3, <1>4, <1>5 DEF NextEntry

\* Where it goes to is an entry it has not returned yet.
LEMMA MovesToNew ==
  ASSUME SInv, NEW s \in active, s \in Search, NEW b2 \in Buckets, NEW f \in Linked,
         Moves(s, b2, f)
  PROVE  key[f] \notin seen[s]
BY DEF Moves, NextStop, SInv, Walking, Walked

LEMMA EndsWhenDone ==
  ASSUME SInv, NEW s \in active, s \in Search, Ends(s)
  PROVE  must[s] = {}
BY DEF Ends, SInv, Walking, Walked

LEMMA NextSearches ==
  ASSUME HInv, SInv, NEW t \in Thread, NEW s \in Search, NextEntry(t, s)
  PROVE  SInv'
<1>1. s \in active /\ (Ends(s) \/ \E b2 \in Buckets, f \in Linked : Moves(s, b2, f))
  BY NextMovesOrEnds
<1>2. TypeOK /\ ChainsWellFormed
  BY DEF HInv, ChainsWellFormed
<1>3. ASSUME NEW r \in Search, r # s, UNCHANGED <<chain, key>>,
             search'[r] = search[r], seen'[r] = seen[r], must'[r] = must[r],
             r \in active' <=> r \in active
      PROVE  IF r \in active' THEN Walking(r)' ELSE Idle(r)'
  <2>1. Walking(r)' <=> Walking(r)
    BY <1>3, SameWalk
  <2> QED
    BY <1>3, <2>1 DEF SInv, Idle
<1>4. CASE Ends(s)
  <2>1. /\ UNCHANGED <<exists, owner, chain, key>>
        /\ active' = active \ {s}
        /\ \A r \in Search : r # s =>
             search'[r] = search[r] /\ seen'[r] = seen[r] /\ must'[r] = must[r]
        /\ seen'[s] = {} /\ must' = must
    BY <1>2, <1>4 DEF Ends, StandOn, mapVars, entryVars, TypeOK
  <2>2. must[s] = {}
    BY <1>1, <1>4, EndsWhenDone
  <2> QED
    BY <1>1, <1>3, <2>1, <2>2 DEF SInv, Idle
<1>5. ASSUME NEW b2 \in Buckets, NEW f \in Linked, Moves(s, b2, f)
      PROVE  SInv'
  <2>1. /\ UNCHANGED <<exists, owner, chain, key>>
        /\ active' = active
        /\ \A r \in Search : r # s =>
             search'[r] = search[r] /\ seen'[r] = seen[r] /\ must'[r] = must[r]
        /\ search'[s].bucket = b2 /\ search'[s].entry = f
        /\ seen'[s] = seen[s] \cup {key[f]} /\ must'[s] = must[s] \ {key[f]}
    BY <1>2, <1>5 DEF Moves, StandOn, mapVars, entryVars, TypeOK
  <2>2. PICK b, e : b = search[s].bucket /\ e = search[s].entry
    OBVIOUS
  <2>3. NextStop(b, e, b2, f)
    BY <1>5, <2>2 DEF Moves
  <2>4. /\ Buckets' = Buckets /\ Linked' = Linked /\ LinkedKeys' = LinkedKeys
        /\ \A g : After(b2, f, g)' <=> After(b2, f, g)
    BY <2>1 DEF Buckets, Linked, LinkedKeys, After
  <2>5. /\ \A g \in Linked : key[g] \in seen[s] => ~ After(b, e, g)
        /\ \A k \in must[s] : \E g \in Linked : key[g] = k /\ After(b, e, g)
        /\ seen[s] \subseteq LinkedKeys
    BY <1>1, <2>2 DEF SInv, Walking, Walked
  <2>6. ~ After(b2, f, f)
    BY <2>3, NotAfterItself DEF NextStop
  <2>7. \A g \in Linked : key[g] = key[f] => g = f
    BY <1>2 DEF ChainsWellFormed
  <2>8. OnEntry(s)'
    BY <2>1, <2>3, <2>4 DEF OnEntry, NextStop
  <2>9. \A g \in Linked' : key'[g] \in seen'[s] => ~ After(b2, f, g)'
    BY <2>1, <2>3, <2>4, <2>5, <2>6, <2>7 DEF NextStop
  <2>10. \A k \in must'[s] : \E g \in Linked' : key'[g] = k /\ After(b2, f, g)'
    BY <2>1, <2>3, <2>4, <2>5 DEF NextStop
  <2>11. Walked(s)'
    BY <2>1, <2>9, <2>10 DEF Walked
  <2>12. seen'[s] \subseteq LinkedKeys'
    BY <2>1, <2>4, <2>5 DEF LinkedKeys
  <2>13. Walking(s)'
    BY <2>8, <2>11, <2>12 DEF Walking
  <2> QED
    BY <1>1, <1>3, <2>1, <2>13 DEF SInv
<1> QED
  BY <1>1, <1>4, <1>5

LEMMA NextSInv == HInv /\ SInv /\ [Next]_vars => SInv'
<1> SUFFICES ASSUME HInv, SInv, [Next]_vars PROVE SInv'
  OBVIOUS
<1>1. CASE UNCHANGED vars
  BY <1>1, SearchesKept DEF vars, mapVars, entryVars
<1>2. ASSUME NEW c \in Capacities, Create(c) PROVE SInv'
  BY <1>2, NoneSearching DEF Create, SInv
<1>3. CASE CreateFails
  BY <1>1, <1>3 DEF CreateFails
<1>4. CASE Release
  BY <1>4, NoneSearching DEF Release, SInv
<1>5. ASSUME NEW t \in Thread, Lock(t) PROVE SInv'
  BY <1>5, NoneSearching DEF Lock, SInv
<1>6. ASSUME NEW t \in Thread, Unlock(t) PROVE SInv'
  BY <1>6, UnlockSearches
<1>7. ASSUME NEW t \in Thread, NEW k \in Key, NEW p \in Address,
             Put(t, p, k) \/ PutFails(t, p, k)
      PROVE  SInv'
  BY <1>1, <1>7, PutSearches DEF PutFails
<1>8. ASSUME NEW t \in Thread, NEW e \in Entry, RemoveEntry(t, e) \/ SetValueFails(t, e)
      PROVE  SInv'
  BY <1>1, <1>8, RemoveSearches DEF SetValueFails, RemoveEntry
<1>9. ASSUME NEW t \in Thread, NEW e \in Entry, NEW v \in Value,
             SetValue(t, e, v) \/ SetValueZeroLength(t, e, v)
      PROVE  SInv'
  BY <1>9, SearchesKept DEF SetValue, SetValueZeroLength, mapVars
<1>10. ASSUME NEW t \in Thread, NEW s \in Search, FirstEntry(t, s) \/ NextEntry(t, s)
       PROVE  SInv'
  BY <1>10, FirstSearches, NextSearches
<1> QED
  BY <1>1, <1>2, <1>3, <1>4, <1>5, <1>6, <1>7, <1>8, <1>9, <1>10 DEF Next

-----------------------------------------------------------------------------
(* The refinement: what the mapping yields in a state, then one lemma for  *)
(* each kind of step.                                                      *)

\* The dictionary holds the contents of the entries under their keys, and each
\* search under way stands on one of them.
Mapping ==
  /\ Dict = [k \in Key |-> Dict[k]]
  /\ \A e \in Linked : /\ key[e] \in Key /\ Dict[key[e]] = Content(e)
                       /\ Content(e) # "absent"
  /\ \A k \in Key : k \notin LinkedKeys => Dict[k] = "absent"
  /\ D!Present = LinkedKeys
  /\ LastKey = [s \in Search |-> LastKey[s]]
  /\ \A s \in Search : IF s \in active
                       THEN /\ search[s].entry \in Linked
                            /\ LastKey[s] = key[search[s].entry] /\ LastKey[s] # NoKey
                       ELSE LastKey[s] = NoKey

LEMMA MappingHolds == HInv /\ SInv => Mapping
<1> SUFFICES ASSUME HInv, SInv PROVE Mapping
  OBVIOUS
<1>1. TypeOK /\ ChainsWellFormed /\ HeapIsExact
  BY DEF HInv, ChainsWellFormed
<1>2. /\ \A f \in Linked : f \in Entry /\ key[f] \in Key
      /\ LinkedKeys \subseteq Key
  BY LinkedKeysAreKeys
<1>3. Dict = [k \in Key |-> Dict[k]]
  BY DEF Dict
<1>4. ASSUME NEW e \in Linked
      PROVE  Dict[key[e]] = Content(e) /\ Content(e) # "absent"
  <2>1. \A f \in Linked : key[f] = key[e] <=> f = e
    BY <1>1 DEF ChainsWellFormed
  <2>2. (CHOOSE f \in Linked : key[f] = key[e]) = e
    BY <2>1
  <2>3. Dict[key[e]] = Content(e)
    BY <1>2, <2>2 DEF Dict
  <2>4. CASE valuelen[e] = 0
    BY <2>3, <2>4 DEF Content
  <2>5. CASE valuelen[e] # 0
    <3>1. valuelen[e] > 0
      BY <1>1, <1>2, <2>5 DEF TypeOK
    <3>2. value[e] \in {b \in Block : mem[b] # Free}
      BY <1>1, <3>1 DEF HeapIsExact
    <3>3. mem[value[e]] \in Value
      BY <1>1, <3>2 DEF TypeOK
    <3> QED
      BY <2>3, <2>5, <3>3, YhashmapAssumption DEF Content
  <2> QED
    BY <2>3, <2>4, <2>5
<1>5. \A k \in Key : k \notin LinkedKeys => Dict[k] = "absent"
  BY DEF Dict, LinkedKeys
<1>6. D!Present = LinkedKeys
  BY <1>2, <1>4, <1>5 DEF D!Present, LinkedKeys
<1>7. LastKey = [s \in Search |-> LastKey[s]]
  BY DEF LastKey
<1>8. ASSUME NEW s \in Search
      PROVE  IF s \in active
             THEN /\ search[s].entry \in Linked
                  /\ LastKey[s] = key[search[s].entry] /\ LastKey[s] # NoKey
             ELSE LastKey[s] = NoKey
  <2>1. CASE s \in active
    <3>1. search[s].entry \in Linked
      BY <2>1, LinkedIn DEF SInv, Walking, OnEntry
    <3> QED
      BY <1>2, <2>1, <3>1, YhashmapAssumption DEF LastKey
  <2>2. CASE s \notin active
    BY <2>2 DEF LastKey
  <2> QED
    BY <2>1, <2>2
<1> QED
  BY <1>2, <1>3, <1>4, <1>5, <1>6, <1>7, <1>8 DEF Mapping

LEMMA MappingHoldsNext == (HInv /\ SInv)' => Mapping'
BY MappingHolds, PTL

\* The steps that change no entry and no search.
LEMMA DictKept ==
  ASSUME Mapping, Mapping', Linked' = Linked, UNCHANGED searchVars,
         \A e \in Linked : key'[e] = key[e] /\ Content(e)' = Content(e)
  PROVE  Dict' = Dict /\ UNCHANGED D!dictVars
<1>1. \A k \in Key : Dict'[k] = Dict[k]
  <2>1. LinkedKeys' = LinkedKeys
    BY DEF LinkedKeys
  <2>2. ASSUME NEW e \in Linked PROVE Dict'[key[e]] = Dict[key[e]]
    BY DEF Mapping
  <2>3. ASSUME NEW k \in Key, k \notin LinkedKeys PROVE Dict'[k] = Dict[k]
    BY <2>1, <2>3 DEF Mapping
  <2> QED
    BY <2>2, <2>3 DEF LinkedKeys
<1>2. \A s \in Search : LastKey'[s] = LastKey[s]
  BY DEF Mapping, searchVars
<1>3. Dict' = [k \in Key |-> Dict'[k]] /\ LastKey' = [s \in Search |-> LastKey'[s]]
  BY DEF Mapping
<1>4. Dict' = Dict /\ LastKey' = LastKey
  BY <1>1, <1>2, <1>3 DEF Mapping
<1> QED
  BY <1>4 DEF searchVars, D!dictVars

\* Create, the failures, Lock and a stuttering step.
LEMMA QuietRefines ==
  ASSUME Mapping, Mapping',
         UNCHANGED <<entryVars, searchVars>>,
         UNCHANGED chain \/ (Linked = {} /\ Linked' = {})
  PROVE  UNCHANGED D!dictVars
<1>1. Linked' = Linked
  BY DEF Linked, Buckets
<1>2. UNCHANGED <<key, value, valuelen, mem>>
  BY DEF entryVars
<1>3. \A e \in Linked : key'[e] = key[e] /\ Content(e)' = Content(e)
  BY <1>2 DEF Content
<1> QED
  BY <1>1, <1>3, DictKept

\* The walk of a search leaves the dictionary alone.
LEMMA WalkKeepsDict ==
  ASSUME Mapping, Mapping', UNCHANGED <<chain, key, value, valuelen, mem>>
  PROVE  Dict' = Dict /\ Linked' = Linked
BY DEF Dict, Linked, Buckets, Content

LEMMA CreateRefines ==
  ASSUME HInv, Mapping, Mapping', NEW c \in Capacities, Create(c)
  PROVE  UNCHANGED D!dictVars
<1>1. ~ exists /\ UNCHANGED <<entryVars, searchVars>>
  BY DEF Create
<1>2. Linked = {}
  BY <1>1 DEF HInv, HeapIsExact
<1>3. PICK n : chain' = [b \in 0..(n - 1) |-> <<>>]
  BY DEF Create
<1>4. ToSet(<<>>) = {}
  BY DEF ToSet
<1>5. Linked' = {}
  BY <1>3, <1>4 DEF Linked, Buckets
<1> QED
  BY <1>1, <1>2, <1>5, QuietRefines

LEMMA ReleaseRefines ==
  ASSUME SInv, Mapping, Mapping', Release
  PROVE  D!Clear
<1>1. owner = NoThread /\ chain' = <<>> /\ UNCHANGED searchVars
  BY DEF Release
<1>2. Linked' = {} /\ LinkedKeys' = {}
  BY <1>1 DEF Linked, LinkedKeys, Buckets
<1>3. active = {}
  BY <1>1 DEF SInv
<1>4. \A s \in Search : LastKey[s] = NoKey /\ LastKey'[s] = NoKey
  BY <1>1, <1>3 DEF Mapping, searchVars
<1>5. LastKey' = LastKey
  BY <1>4 DEF Mapping
<1>6. Dict' = [k \in Key |-> "absent"]
  BY <1>2 DEF Mapping
<1> QED
  BY <1>1, <1>4, <1>5, <1>6 DEF D!Clear, searchVars

LEMMA UnlockRefines ==
  ASSUME Mapping, Mapping', NEW t \in Thread, Unlock(t)
  PROVE  D!Abandon
<1>1. /\ UNCHANGED <<chain, key, value, valuelen, mem>> /\ active' = {}
      /\ seen' = [s \in Search |-> {}] /\ must' = [s \in Search |-> {}]
  BY DEF Unlock, entryVars
<1>2. LastKey' = [s \in Search |-> NoKey]
  BY <1>1 DEF Mapping
<1>3. Dict' = Dict
  BY <1>1, WalkKeepsDict
<1> QED
  BY <1>1, <1>2, <1>3 DEF D!Abandon

LEMMA PutRefines ==
  ASSUME HInv, Mapping, Mapping', NEW t \in Thread, NEW k \in Key, NEW p \in Address,
         Put(t, p, k)
  PROVE  D!Insert(k)
<1>1. PICK e \in Entry, b \in Buckets : PutEffect(k, hashKey[p][k], e, b)
  BY PutLinks
<1>2. /\ UNCHANGED <<mem, search, active, seen, must>>
      /\ Linked' = Linked \cup {e} /\ e \notin Linked
      /\ \A f \in Linked : /\ key'[f] = key[f] /\ value'[f] = value[f]
                           /\ valuelen'[f] = valuelen[f] /\ key[f] # k
      /\ key'[e] = k /\ valuelen'[e] = 0
  BY <1>1 DEF PutEffect
<1>3. LinkedKeys' = LinkedKeys \cup {k} /\ k \notin LinkedKeys
  BY <1>2 DEF LinkedKeys
<1>4. Dict[k] = "absent"
  BY <1>3 DEF Mapping
<1>5. \A f \in Linked : Content(f)' = Content(f)
  BY <1>2 DEF Content
<1>6. Content(e)' = "no value"
  BY <1>2 DEF Content
<1>7. Dict'[k] = "no value"
  BY <1>2, <1>6 DEF Mapping
<1>8. ASSUME NEW l \in Key, l # k PROVE Dict'[l] = Dict[l]
  <2>1. CASE l \in LinkedKeys
    <3>1. PICK f \in Linked : key[f] = l
      BY <2>1 DEF LinkedKeys
    <3>2. f \in Linked' /\ key'[f] = l
      BY <1>2, <3>1
    <3>3. Dict'[l] = Content(f)'
      BY <3>2 DEF Mapping
    <3>4. Dict[l] = Content(f)
      BY <3>1 DEF Mapping
    <3> QED
      BY <1>5, <3>3, <3>4
  <2>2. CASE l \notin LinkedKeys
    BY <1>3, <1>8, <2>2 DEF Mapping
  <2> QED
    BY <2>1, <2>2
<1>9. Dict' = [Dict EXCEPT ![k] = "no value"]
  <2>1. Dict = [l \in Key |-> Dict[l]] /\ Dict' = [l \in Key |-> Dict'[l]]
    BY DEF Mapping
  <2> QED
    BY <1>7, <1>8, <2>1
<1>10. LastKey' = LastKey
  <2>1. \A s \in Search : LastKey'[s] = LastKey[s]
    BY <1>2 DEF Mapping
  <2>2. LastKey = [s \in Search |-> LastKey[s]] /\ LastKey' = [s \in Search |-> LastKey'[s]]
    BY DEF Mapping
  <2> QED
    BY <2>1, <2>2
<1> QED
  BY <1>2, <1>4, <1>9, <1>10 DEF D!Insert

\* A dictionary that differs from the last one in the value of one key.
LEMMA OneValueChanges ==
  ASSUME Mapping, Mapping', NEW k \in Key, NEW v, Dict'[k] = v,
         \A l \in Key : l # k => Dict'[l] = Dict[l]
  PROVE  Dict' = [Dict EXCEPT ![k] = v]
<1>1. Dict = [l \in Key |-> Dict[l]] /\ Dict' = [l \in Key |-> Dict'[l]]
  BY DEF Mapping
<1> QED
  BY <1>1

LEMMA RemoveRefines ==
  ASSUME HInv, Mapping, Mapping', NEW t \in Thread, NEW e \in Linked, RemoveEntry(t, e)
  PROVE  D!Delete(key[e])
<1>1. PICK b \in Buckets : RemoveEffect(e, b)
  BY RemoveLinks
<1> DEFINE stopped == {s \in active : search[s].entry = e}
<1>2. /\ search' = search /\ active' = active \ stopped
      /\ seen' = [s \in Search |-> IF s \in stopped THEN {} ELSE seen[s] \ {key[e]}]
      /\ must' = [s \in Search |-> IF s \in stopped THEN {} ELSE must[s] \ {key[e]}]
      /\ mem' = [c \in Block |->
                   IF \E f \in {e} : valuelen[f] > 0 /\ value[f] = c THEN Free ELSE mem[c]]
      /\ Linked' = Linked \ {e}
      /\ \A f \in Linked' : /\ key'[f] = key[f] /\ value'[f] = value[f]
                            /\ valuelen'[f] = valuelen[f]
  BY <1>1 DEF RemoveEffect, ForgetEntry, FreeEntries
<1>3. /\ \A f \in Linked : key[f] = key[e] => f = e
      /\ \A f \in Linked : valuelen[f] \in {0, 1}
      /\ \A f \in Linked : valuelen[f] > 0 => value[f] \in Block
      /\ \A f, g \in Linked : valuelen[f] > 0 /\ value[f] = value[g] => f = g
  BY LinkedKeysAreKeys DEF HInv, ChainsWellFormed, HeapIsExact, TypeOK
<1>4. key[e] \in Key /\ Dict[key[e]] # "absent"
  BY DEF Mapping
<1>5. key[e] \notin LinkedKeys'
  BY <1>2, <1>3 DEF LinkedKeys
<1>6. ASSUME NEW f \in Linked' PROVE Content(f)' = Content(f)
  <2>1. CASE valuelen[f] = 0
    BY <1>2, <2>1 DEF Content
  <2>2. CASE valuelen[f] # 0
    <3>1. f \in Linked /\ f # e /\ valuelen[f] > 0 /\ value[f] \in Block
      BY <1>2, <1>3, <2>2
    <3>2. mem'[value[f]] = mem[value[f]]
      BY <1>2, <1>3, <3>1
    <3> QED
      BY <1>2, <3>2 DEF Content
  <2> QED
    BY <2>1, <2>2
<1>7. Dict'[key[e]] = "absent"
  BY <1>4, <1>5 DEF Mapping
<1>8. ASSUME NEW l \in Key, l # key[e] PROVE Dict'[l] = Dict[l]
  <2>1. CASE l \in LinkedKeys
    <3>1. PICK f \in Linked : key[f] = l
      BY <2>1 DEF LinkedKeys
    <3>2. f \in Linked' /\ key'[f] = l
      BY <1>2, <1>8, <3>1
    <3>3. Dict'[l] = Content(f)'
      BY <3>2 DEF Mapping
    <3>4. Dict[l] = Content(f)
      BY <3>1 DEF Mapping
    <3> QED
      BY <1>6, <3>2, <3>3, <3>4
  <2>2. CASE l \notin LinkedKeys
    <3>1. l \notin LinkedKeys'
      BY <1>2, <2>2 DEF LinkedKeys
    <3> QED
      BY <2>2, <3>1 DEF Mapping
  <2> QED
    BY <2>1, <2>2
<1>9. Dict' = [Dict EXCEPT ![key[e]] = "absent"]
  BY <1>4, <1>7, <1>8, OneValueChanges
<1>10. \A s \in Search : s \in stopped <=> LastKey[s] = key[e]
  <2>1. key[e] # NoKey
    BY <1>4, YhashmapAssumption
  <2> QED
    BY <1>3, <2>1 DEF Mapping
<1>11. ASSUME NEW s \in Search
       PROVE  LastKey'[s] = IF LastKey[s] = key[e] THEN NoKey ELSE LastKey[s]
  <2>1. CASE s \in active'
    <3>1. s \in active /\ s \notin stopped
      BY <1>2, <2>1
    <3>2. LastKey'[s] = key'[search[s].entry] /\ search[s].entry \in Linked'
      BY <1>2, <2>1 DEF Mapping
    <3>3. LastKey[s] = key[search[s].entry]
      BY <3>1 DEF Mapping
    <3> QED
      BY <1>2, <1>10, <3>1, <3>2, <3>3
  <2>2. CASE s \in stopped
    BY <1>2, <1>10, <2>2 DEF Mapping
  <2>3. CASE s \notin active
    BY <1>2, <2>3 DEF Mapping
  <2> QED
    BY <1>2, <2>1, <2>2, <2>3
<1>12. LastKey' = [s \in Search |-> IF LastKey[s] = key[e] THEN NoKey ELSE LastKey[s]]
  <2>1. LastKey' = [s \in Search |-> LastKey'[s]]
    BY DEF Mapping
  <2> QED
    BY <1>11, <2>1
<1>13. /\ seen' = [s \in Search |-> IF LastKey[s] = key[e] THEN {} ELSE seen[s] \ {key[e]}]
       /\ must' = [s \in Search |-> IF LastKey[s] = key[e] THEN {} ELSE must[s] \ {key[e]}]
  BY <1>2, <1>10
<1> QED
  BY <1>4, <1>9, <1>12, <1>13 DEF D!Delete

\* What setvalue stores for the entry e, and that it leaves the others alone.
LEMMA ValueRefines ==
  ASSUME HInv, Mapping, Mapping', NEW e \in Linked, NEW v, Content(e)' = v,
         UNCHANGED <<chain, key, searchVars>>,
         \A f \in Linked : f # e => Content(f)' = Content(f)
  PROVE  D!Assign(key[e], v)
<1>1. Linked' = Linked /\ LinkedKeys' = LinkedKeys
  BY DEF Linked, LinkedKeys, Buckets
<1>2. key[e] \in Key /\ Dict[key[e]] # "absent" /\ Dict'[key[e]] = v
  BY <1>1 DEF Mapping
<1>3. ASSUME NEW l \in Key, l # key[e] PROVE Dict'[l] = Dict[l]
  <2>1. CASE l \in LinkedKeys
    <3>1. PICK f \in Linked : key[f] = l
      BY <2>1 DEF LinkedKeys
    <3>2. Dict'[l] = Content(f)'
      BY <1>1, <3>1 DEF Mapping
    <3>3. Dict[l] = Content(f)
      BY <3>1 DEF Mapping
    <3> QED
      BY <1>3, <3>1, <3>2, <3>3
  <2>2. CASE l \notin LinkedKeys
    BY <1>1, <2>2 DEF Mapping
  <2> QED
    BY <2>1, <2>2
<1>4. Dict' = [Dict EXCEPT ![key[e]] = v]
  BY <1>2, <1>3, OneValueChanges
<1>5. LastKey' = LastKey
  <2>1. \A s \in Search : LastKey'[s] = LastKey[s]
    BY DEF Mapping, searchVars
  <2>2. LastKey = [s \in Search |-> LastKey[s]] /\ LastKey' = [s \in Search |-> LastKey'[s]]
    BY DEF Mapping
  <2> QED
    BY <2>1, <2>2
<1> QED
  BY <1>2, <1>4, <1>5 DEF D!Assign, searchVars

LEMMA SetValueRefines ==
  ASSUME HInv, Mapping, Mapping', NEW t \in Thread, NEW e \in Linked, NEW v \in Value,
         SetValue(t, e, v) \/ SetValueZeroLength(t, e, v)
  PROVE  D!Assign(key[e], v) \/ D!Assign(key[e], "no value")
<1>1. UNCHANGED <<chain, key, searchVars>>
  BY DEF SetValue, SetValueZeroLength, mapVars
<1>2. /\ \A f \in Linked : f \in Entry /\ valuelen[f] \in {0, 1}
      /\ \A f \in Linked : valuelen[f] > 0 => value[f] \in Block /\ mem[value[f]] # Free
      /\ \A f, g \in Linked : valuelen[f] > 0 /\ value[f] = value[g] => f = g
      /\ value \in [Entry -> Block \cup {NULL}] /\ valuelen \in [Entry -> {0, 1}]
  <2>1. TypeOK /\ HeapIsExact
    BY DEF HInv, ChainsWellFormed
  <2>2. \A f \in Linked : f \in Entry /\ valuelen[f] \in {0, 1}
    BY <2>1, LinkedKeysAreKeys DEF TypeOK
  <2>3. \A f \in Linked : valuelen[f] > 0 => value[f] \in {b \in Block : mem[b] # Free}
    BY <2>1 DEF HeapIsExact
  <2> QED
    BY <2>1, <2>2, <2>3 DEF HeapIsExact, TypeOK
<1>3. ASSUME SetValue(t, e, v) PROVE D!Assign(key[e], v)
  <2>1. PICK b \in Block :
          /\ mem[b] = Free
          /\ mem' = [c \in Block |->
                       IF c = b THEN v
                       ELSE IF valuelen[e] > 0 /\ c = value[e] THEN Free
                       ELSE mem[c]]
          /\ value' = [value EXCEPT ![e] = b]
          /\ valuelen' = [valuelen EXCEPT ![e] = 1]
    BY <1>3 DEF SetValue
  <2>2. Content(e)' = v
    <3>1. valuelen'[e] = 1 /\ value'[e] = b /\ mem'[b] = v
      BY <1>2, <2>1
    <3> QED
      BY <3>1 DEF Content
  <2>3. ASSUME NEW f \in Linked, f # e PROVE Content(f)' = Content(f)
    <3>1. valuelen'[f] = valuelen[f] /\ value'[f] = value[f]
      BY <1>2, <2>1, <2>3
    <3>2. CASE valuelen[f] = 0
      BY <3>1, <3>2 DEF Content
    <3>3. CASE valuelen[f] > 0
      <4>1. mem'[value[f]] = mem[value[f]]
        BY <1>2, <2>1, <2>3, <3>3
      <4> QED
        BY <3>1, <4>1 DEF Content
    <3> QED
      BY <1>2, <3>2, <3>3
  <2> QED
    BY <1>1, <2>2, <2>3, ValueRefines
<1>4. ASSUME SetValueZeroLength(t, e, v) PROVE D!Assign(key[e], "no value")
  <2>1. /\ mem' = [c \in Block |->
                     IF valuelen[e] > 0 /\ c = value[e] THEN Free ELSE mem[c]]
        /\ value' = [value EXCEPT ![e] = NULL]
        /\ valuelen' = [valuelen EXCEPT ![e] = 0]
    BY <1>4 DEF SetValueZeroLength
  <2>2. Content(e)' = "no value"
    BY <1>2, <2>1 DEF Content
  <2>3. ASSUME NEW f \in Linked, f # e PROVE Content(f)' = Content(f)
    <3>1. valuelen'[f] = valuelen[f] /\ value'[f] = value[f]
      BY <1>2, <2>1, <2>3
    <3>2. CASE valuelen[f] = 0
      BY <3>1, <3>2 DEF Content
    <3>3. CASE valuelen[f] > 0
      <4>1. mem'[value[f]] = mem[value[f]]
        BY <1>2, <2>1, <2>3, <3>3
      <4> QED
        BY <3>1, <4>1 DEF Content
    <3> QED
      BY <1>2, <3>2, <3>3
  <2> QED
    BY <1>1, <2>2, <2>3, ValueRefines
<1> QED
  BY <1>3, <1>4

LEMMA FirstRefines ==
  ASSUME HInv, Mapping, Mapping', NEW t \in Thread, NEW s \in Search, FirstEntry(t, s)
  PROVE  D!Begin(s)
<1>0. PICK b, e : b = Min(NonEmpty(0)) /\ e = Head(chain[b])
  OBVIOUS
<1>1. /\ search' = [search EXCEPT ![s] = [bucket |-> b, entry |-> e]]
      /\ UNCHANGED <<chain, key, value, valuelen, mem>>
      /\ active' = active \cup {s}
      /\ seen' = [seen EXCEPT ![s] = {key[e]}]
      /\ must' = [must EXCEPT ![s] = LinkedKeys \ {key[e]}]
      /\ NonEmpty(0) # {}
  BY <1>0 DEF FirstEntry, StandOn, mapVars, entryVars
<1>2. e \in Linked
  BY <1>0, <1>1, HeadIsLinked
<1>3. key[e] \in D!Present
  BY <1>2 DEF Mapping, LinkedKeys
<1>4. Dict' = Dict
  BY <1>1, WalkKeepsDict
<1>5. LastKey' = [LastKey EXCEPT ![s] = key[e]]
  <2>1. search \in [Search -> [bucket : Nat, entry : Entry \cup {NULL}]]
    BY DEF HInv, ChainsWellFormed, TypeOK
  <2>2. LastKey'[s] = key[e]
    BY <1>1, <2>1 DEF Mapping
  <2>3. \A r \in Search : r # s => LastKey'[r] = LastKey[r]
    BY <1>1, <2>1 DEF Mapping
  <2>4. LastKey = [r \in Search |-> LastKey[r]] /\ LastKey' = [r \in Search |-> LastKey'[r]]
    BY DEF Mapping
  <2> QED
    BY <2>2, <2>3, <2>4
<1>6. must' = [must EXCEPT ![s] = D!Present \ {key[e]}]
  BY <1>1 DEF Mapping
<1> QED
  BY <1>1, <1>3, <1>4, <1>5, <1>6 DEF D!Begin

LEMMA NextRefines ==
  ASSUME HInv, SInv, Mapping, Mapping', NEW t \in Thread, NEW s \in Search,
         NextEntry(t, s)
  PROVE  D!Advance(s) \/ D!Finish(s)
<1>1. s \in active /\ (Ends(s) \/ \E b2 \in Buckets, f \in Linked : Moves(s, b2, f))
  BY NextMovesOrEnds
<1>2. LastKey[s] # NoKey
  BY <1>1 DEF Mapping
<1>3. search \in [Search -> [bucket : Nat, entry : Entry \cup {NULL}]]
  BY DEF HInv, ChainsWellFormed, TypeOK
<1>4. LastKey = [r \in Search |-> LastKey[r]] /\ LastKey' = [r \in Search |-> LastKey'[r]]
  BY DEF Mapping
<1>5. ASSUME Ends(s) PROVE D!Finish(s)
  <2>1. /\ search' = [search EXCEPT ![s] = [bucket |-> search[s].bucket, entry |-> NULL]]
        /\ UNCHANGED <<chain, key, value, valuelen, mem, must>>
        /\ active' = active \ {s}
        /\ seen' = [seen EXCEPT ![s] = {}]
    BY <1>5 DEF Ends, StandOn, mapVars, entryVars
  <2>2. must[s] = {}
    BY <1>1, <1>5, EndsWhenDone
  <2>3. Dict' = Dict
    BY <2>1, WalkKeepsDict
  <2>4. LastKey'[s] = NoKey /\ \A r \in Search : r # s => LastKey'[r] = LastKey[r]
    BY <1>3, <2>1 DEF Mapping
  <2>5. LastKey' = [LastKey EXCEPT ![s] = NoKey]
    BY <1>4, <2>4
  <2> QED
    BY <1>2, <2>1, <2>2, <2>3, <2>5 DEF D!Finish
<1>6. ASSUME NEW b2 \in Buckets, NEW f \in Linked, Moves(s, b2, f)
      PROVE  D!Advance(s)
  <2>1. /\ search' = [search EXCEPT ![s] = [bucket |-> b2, entry |-> f]]
        /\ UNCHANGED <<chain, key, value, valuelen, mem>>
        /\ active' = active
        /\ seen' = [seen EXCEPT ![s] = @ \cup {key[f]}]
        /\ must' = [must EXCEPT ![s] = @ \ {key[f]}]
    BY <1>6 DEF Moves, StandOn, mapVars, entryVars
  <2>2. key[f] \in D!Present \ seen[s]
    <3>1. key[f] \notin seen[s]
      BY <1>1, <1>6, MovesToNew
    <3>2. key[f] \in D!Present
      BY DEF Mapping, LinkedKeys
    <3> QED
      BY <3>1, <3>2
  <2>3. Dict' = Dict
    BY <2>1, WalkKeepsDict
  <2>4. LastKey'[s] = key[f] /\ \A r \in Search : r # s => LastKey'[r] = LastKey[r]
    BY <1>1, <1>3, <2>1 DEF Mapping
  <2>5. LastKey' = [LastKey EXCEPT ![s] = key[f]]
    BY <1>4, <2>4
  <2> QED
    BY <1>2, <2>1, <2>2, <2>3, <2>5 DEF D!Advance
<1> QED
  BY <1>1, <1>5, <1>6

LEMMA InitRefines == Init => D!DictInit
<1> SUFFICES ASSUME Init PROVE D!DictInit
  OBVIOUS
<1>1. Linked = {} /\ active = {}
  BY NoBuckets DEF Init
<1>2. Dict = [k \in Key |-> "absent"]
  BY <1>1 DEF Dict
<1>3. LastKey = [s \in Search |-> NoKey]
  BY <1>1 DEF LastKey
<1> QED
  BY <1>2, <1>3 DEF Init, D!DictInit

LEMMA StepRefines ==
  ASSUME HInv, SInv, Mapping, Mapping', [Next]_vars
  PROVE  [D!DictNext]_(D!dictVars)
<1>1. CASE UNCHANGED vars
  BY <1>1, QuietRefines DEF vars, mapVars
<1>2. ASSUME NEW c \in Capacities, Create(c) PROVE UNCHANGED D!dictVars
  BY <1>2, CreateRefines
<1>3. CASE CreateFails
  BY <1>1, <1>3 DEF CreateFails
<1>4. CASE Release
  BY <1>4, ReleaseRefines DEF D!DictNext
<1>5. ASSUME NEW t \in Thread, Lock(t) PROVE UNCHANGED D!dictVars
  BY <1>5, QuietRefines DEF Lock
<1>6. ASSUME NEW t \in Thread, Unlock(t) PROVE D!DictNext
  BY <1>6, UnlockRefines DEF D!DictNext
<1>7. ASSUME NEW t \in Thread, NEW k \in Key, NEW p \in Address, Put(t, p, k)
      PROVE  D!DictNext
  BY <1>7, PutRefines DEF D!DictNext
<1>8. ASSUME NEW t \in Thread, NEW k \in Key, NEW p \in Address, PutFails(t, p, k)
      PROVE  UNCHANGED D!dictVars
  BY <1>8, QuietRefines DEF PutFails, vars, mapVars
<1>9. ASSUME NEW t \in Thread, NEW e \in Entry, RemoveEntry(t, e)
      PROVE  D!DictNext
  <2>1. e \in Linked
    BY <1>9 DEF RemoveEntry
  <2>2. key[e] \in Key
    BY <2>1 DEF Mapping
  <2> QED
    BY <1>9, <2>1, <2>2, RemoveRefines DEF D!DictNext
<1>10. ASSUME NEW t \in Thread, NEW e \in Entry, SetValueFails(t, e)
       PROVE  UNCHANGED D!dictVars
  BY <1>10, QuietRefines DEF SetValueFails, vars, mapVars
<1>11. ASSUME NEW t \in Thread, NEW e \in Entry, NEW v \in Value,
              SetValue(t, e, v) \/ SetValueZeroLength(t, e, v)
       PROVE  D!DictNext
  <2>1. e \in Linked
    BY <1>11 DEF SetValue, SetValueZeroLength
  <2>2. key[e] \in Key
    BY <2>1 DEF Mapping
  <2>3. D!Assign(key[e], v) \/ D!Assign(key[e], "no value")
    BY <1>11, <2>1, SetValueRefines
  <2> QED
    BY <2>2, <2>3 DEF D!DictNext
<1>12. ASSUME NEW t \in Thread, NEW s \in Search, FirstEntry(t, s) PROVE D!DictNext
  BY <1>12, FirstRefines DEF D!DictNext
<1>13. ASSUME NEW t \in Thread, NEW s \in Search, NextEntry(t, s) PROVE D!DictNext
  BY <1>13, NextRefines DEF D!DictNext
<1> QED
  BY <1>1, <1>2, <1>3, <1>4, <1>5, <1>6, <1>7, <1>8, <1>9, <1>10, <1>11, <1>12, <1>13
     DEF Next

\* A Yhashmap is a dictionary: whatever its buckets, the collisions of its keys and
\* the order of the calls, a key has the value that was set last, and a search that
\* entries are put, set and removed during returns no entry twice, none that is no
\* longer there, and every one that stayed.
THEOREM Refinement == Spec => ImplementsDictionary
<1>1. Init => D!DictInit
  BY InitRefines
<1>2. HInv /\ SInv /\ HInv' /\ SInv' /\ [Next]_vars => [D!DictNext]_(D!dictVars)
  <2> SUFFICES ASSUME HInv, SInv, HInv', SInv', [Next]_vars
               PROVE  [D!DictNext]_(D!dictVars)
    OBVIOUS
  <2>1. Mapping /\ Mapping'
    BY MappingHolds, MappingHoldsNext
  <2> QED
    BY <2>1, StepRefines
<1>3. Init => SInv
  BY InitSInv
<1>4. HInv /\ SInv /\ [Next]_vars => SInv'
  BY NextSInv
<1> QED
  BY <1>1, <1>2, <1>3, <1>4, HInvHolds, PTL DEF Spec, ImplementsDictionary, D!DictSpec
=============================================================================

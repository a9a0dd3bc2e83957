--------------------------- MODULE YdigestProofs ----------------------------
(***************************************************************************)
(* However long the messages are, however they are cut into updates, and   *)
(* whatever the sizes of the blocks, counters and digests: an engine holds *)
(* what it was given, and what a context returns is the digest or the MAC  *)
(* of its message.                                                         *)
(***************************************************************************)
EXTENDS Ydigest, SequenceTheorems, FiniteSetTheorems, WellFoundedInduction, TLAPS

-----------------------------------------------------------------------------
(* Induction and loops *)

\* A set of numbers that is not empty has a smallest one.
LEMMA Smallest ==
  ASSUME NEW S \in SUBSET Nat, S # {}
  PROVE  \E x \in S : \A y \in S : x <= y
<1> DEFINE Below == {0..x : x \in S}
           Less == StrictSubsetOrdering(Nat)
<1>1. IsWellFoundedOn(Less, FiniteSubsetsOf(Nat))
  BY FS_StrictSubsetOrderingWellFounded
<1>2. Below \subseteq FiniteSubsetsOf(Nat) /\ Below # {}
  <2>1. \A x \in S : IsFiniteSet(0..x) /\ 0..x \in SUBSET Nat
    BY FS_Interval
  <2> QED
    BY <2>1 DEF FiniteSubsetsOf
<1> HIDE DEF Less, Below
<1>3. PICK B \in Below : \A C \in Below : ~ (<<C, B>> \in Less)
  BY <1>1, <1>2, WFMin
<1>4. PICK x \in S : B = 0..x
  BY DEF Below
<1>5. ASSUME NEW y \in S, y < x PROVE FALSE
  <2>1. 0..y \in SUBSET Nat /\ 0..x \in SUBSET Nat /\ 0..y \subseteq 0..x
    BY <1>5
  <2>2. x \in 0..x /\ x \notin 0..y
    BY <1>5
  <2>3. <<0..y, B>> \in Less
    BY <1>4, <2>1, <2>2 DEF Less, StrictSubsetOrdering
  <2> QED
    BY <1>3, <2>3 DEF Below
<1> QED
  BY <1>5

\* What holds of 0, and of i + 1 if of i, holds of all numbers up to n.
LEMMA UpTo ==
  ASSUME NEW n \in Nat, NEW S, 0 \in S, \A i \in 0..(n - 1) : i \in S => i + 1 \in S
  PROVE  \A i \in 0..n : i \in S
<1> DEFINE Out == {i \in 0..n : i \notin S}
<1>1. ASSUME Out # {} PROVE FALSE
  <2>1. Out \in SUBSET Nat
    OBVIOUS
  <2>2. PICK x \in Out : \A y \in Out : x <= y
    BY <1>1, <2>1, Smallest
  <2>3. x # 0 /\ x \in 0..n
    BY <2>2
  <2>4. x - 1 \in 0..(n - 1) /\ x - 1 \notin Out
    BY <2>2, <2>3
  <2> QED
    BY <2>2, <2>3, <2>4
<1> QED
  BY <1>1

\* The states of a loop of n turns from x, whose turn number i makes G[<<i, r>>] of r.
Loops(R, x, n, G, f) ==
  f \in [0..n -> R] /\ f[0] = x /\ \A i \in 1..n : f[i] = G[<<i, f[i - 1]>>]

LEMMA LoopExists ==
  ASSUME NEW R, NEW x \in R, NEW n \in Nat, NEW G \in [(1..n) \X R -> R]
  PROVE  \E f : Loops(R, x, n, G, f)
<1> DEFINE S == {m \in 0..n : \E f : Loops(R, x, m, G, f)}
<1>1. 0 \in S
  <2> DEFINE f == [i \in 0..0 |-> x]
  <2>1. Loops(R, x, 0, G, f) /\ 0 \in 0..n
    BY DEF Loops
  <2> HIDE DEF f
  <2> QED
    BY <2>1
<1>2. ASSUME NEW m \in 0..(n - 1), m \in S PROVE m + 1 \in S
  <2>1. PICK f : f \in [0..m -> R] /\ f[0] = x /\ \A i \in 1..m : f[i] = G[<<i, f[i - 1]>>]
    BY <1>2 DEF Loops
  <2> DEFINE g == [i \in 0..(m + 1) |-> IF i = m + 1 THEN G[<<m + 1, f[m]>>] ELSE f[i]]
  <2>2. m \in 0..m /\ f[m] \in R /\ m + 1 \in 1..n /\ m + 1 \in 0..n
    BY <2>1
  <2>3. G[<<m + 1, f[m]>>] \in R
    BY <2>2
  <2>4. g \in [0..(m + 1) -> R]
    BY <2>1, <2>3
  <2>5. g[0] = x /\ g[m + 1] = G[<<m + 1, f[m]>>] /\ g[m] = f[m]
    BY <2>1, <2>2
  <2>6. ASSUME NEW i \in 1..(m + 1) PROVE g[i] = G[<<i, g[i - 1]>>]
    <3>1. CASE i = m + 1
      <4>1. i - 1 = m
        BY <3>1
      <4> HIDE DEF g
      <4> QED
        BY <2>5, <3>1, <4>1
    <3>2. CASE i # m + 1
      <4>1. i \in 1..m /\ i - 1 \in 0..m /\ g[i] = f[i] /\ g[i - 1] = f[i - 1]
        BY <3>2
      <4> QED
        BY <2>1, <4>1
    <3> QED
      BY <3>1, <3>2
  <2> HIDE DEF g
  <2>7. Loops(R, x, m + 1, G, g)
    BY <2>4, <2>5, <2>6 DEF Loops
  <2> QED
    BY <2>2, <2>7
<1> HIDE DEF S
<1>3. \A i \in 0..n : i \in S
  BY <1>1, <1>2, UpTo
<1> QED
  BY <1>3 DEF S

-----------------------------------------------------------------------------
(* Blocks and counters *)

\* The quotient and the remainder, whatever the divisor.
LEMMA DivMod ==
  ASSUME NEW n \in Nat, NEW b \in Nat \ {0}
  PROVE  n \div b \in Nat /\ n % b \in 0..(b - 1) /\ n = (n \div b) * b + (n % b)
OBVIOUS

LEMMA Divided ==
  ASSUME NEW n \in Nat, NEW b \in Nat \ {0}
  PROVE  \E q \in Nat, r \in 0..(b - 1) : q = n \div b /\ r = n % b /\ n = q * b + r
BY DivMod

LEMMA DivModIs ==
  ASSUME NEW n \in Nat, NEW b \in Nat \ {0}, NEW q \in Nat, NEW r \in 0..(b - 1),
         n = q * b + r
  PROVE  n \div b = q /\ n % b = r
OBVIOUS

Words == (0..(CountMod - 1)) \X (0..(CountMod - 1))

\* A word counts the bits of a whole number of blocks.
LEMMA WordsOfBlocks ==
  /\ \E k \in Nat \ {0} : CountMod = 8 * (k * BlockSize) /\ CountMod \div 8 = k * BlockSize
  /\ BlockSize \in Nat \ {0} /\ CountMod \in Nat \ {0}
<1>1. BlockSize \in Nat \ {0} /\ CountMod \in Nat \ {0} /\ 8 * BlockSize \in Nat \ {0}
      /\ CountMod % (8 * BlockSize) = 0
  BY YdigestAssumption
<1>2. PICK k \in Nat : k = CountMod \div (8 * BlockSize)
  BY <1>1, DivMod
<1>3. CountMod = k * (8 * BlockSize) + (CountMod % (8 * BlockSize))
  BY <1>1, <1>2, DivMod
<1>4. CountMod = 8 * (k * BlockSize) /\ k # 0
  BY <1>1, <1>3
<1> QED
  BY <1>1, <1>4

LEMMA BitsAreWords ==
  ASSUME NEW n \in Nat
  PROVE  Bits(n) \in Words /\ Bits(n)[1] = (8 * n) % CountMod
BY WordsOfBlocks DEF Bits, Words

\* The position in the buffer depends on the low word of the counter only.
LEMMA PositionOf ==
  ASSUME NEW n \in Nat, NEW c, c.count[1] = Bits(n)[1]
  PROVE  Position(c) = n % BlockSize
<1>1. PICK k \in Nat \ {0} : CountMod = 8 * (k * BlockSize)
  BY WordsOfBlocks
<1>2. BlockSize \in Nat \ {0} /\ CountMod \in Nat \ {0} /\ 8 * n \in Nat
  BY WordsOfBlocks
<1>3. PICK q \in Nat, s \in 0..(CountMod - 1) :
        q = (8 * n) \div CountMod /\ s = (8 * n) % CountMod /\ 8 * n = q * CountMod + s
  BY <1>2, Divided, Zenon
<1>4. PICK r \in Nat : r = (8 * n) % CountMod /\ 8 * n = q * CountMod + r
  BY <1>2, <1>3
<1>5. PICK a \in Nat : a = q * k
  BY <1>1
<1>6. q * CountMod = 8 * (a * BlockSize)
  BY <1>1, <1>2, <1>5
<1>7. PICK t \in Nat : t = a * BlockSize
  BY <1>2
<1>8. n - t \in Nat /\ r = 8 * (n - t)
  BY <1>4, <1>6, <1>7
<1>9. PICK z \in Nat : z = r \div 8 /\ n = z + a * BlockSize
  BY <1>7, <1>8
<1>10. PICK e \in Nat, f \in 0..(BlockSize - 1) :
         e = z \div BlockSize /\ f = z % BlockSize /\ z = e * BlockSize + f
  BY <1>2, Divided, Zenon
<1>12. n = (e + a) * BlockSize + f /\ e + a \in Nat
  <2>1. PICK u \in Nat, v \in Nat :
          u = e * BlockSize /\ v = a * BlockSize /\ (e + a) * BlockSize = u + v
    BY <1>2
  <2>2. n = (u + v) + f
    BY <1>9, <1>10, <2>1
  <2> QED
    BY <2>1, <2>2
<1>13. n % BlockSize = f
  BY <1>2, <1>12, DivModIs
<1> QED
  <2>1. c.count[1] = r
    BY <1>4 DEF Bits
  <2> QED
    BY <1>9, <1>10, <1>13, <2>1 DEF Position

\* The sum of two numbers of two digits each, and the carry.
LEMMA Carry ==
  ASSUME NEW b \in Nat \ {0}, NEW q1 \in Nat, NEW q2 \in Nat,
         NEW r1 \in 0..(b - 1), NEW r2 \in 0..(b - 1),
         NEW x \in Nat
  PROVE  x = (q1 * b + r1) + (q2 * b + r2) =>
           LET low == (r1 + r2) % b
           IN  /\ low = x % b
               /\ x \div b = q1 + q2 + (IF low < r1 THEN 1 ELSE 0)
<1>0. SUFFICES ASSUME x = (q1 * b + r1) + (q2 * b + r2)
               PROVE  LET low == (r1 + r2) % b
                      IN  /\ low = x % b
                          /\ x \div b = q1 + q2 + (IF low < r1 THEN 1 ELSE 0)
  OBVIOUS
<1>1. CASE r1 + r2 < b
  <2>1. PICK q \in Nat, r \in 0..(b - 1) : q = q1 + q2 /\ r = r1 + r2 /\ x = q * b + r
    BY <1>0, <1>1
  <2>2. x % b = r /\ x \div b = q
    <3>1. x = q * b + r
      BY <2>1
    <3> QED
      BY <3>1, DivModIs
  <2>3. (r1 + r2) % b = r1 + r2
    BY <1>1
  <2> QED
    BY <2>1, <2>2, <2>3
<1>2. CASE r1 + r2 >= b
  <2>1. PICK q \in Nat, r \in 0..(b - 1) :
          q = q1 + q2 + 1 /\ r = r1 + r2 - b /\ x = q * b + r
    BY <1>0, <1>2
  <2>2. x % b = r /\ x \div b = q
    <3>1. x = q * b + r
      BY <2>1
    <3> QED
      BY <3>1, DivModIs
  <2>3. r1 + r2 = 1 * b + r /\ r1 + r2 \in Nat
    BY <2>1
  <2>4. (r1 + r2) % b = r
    BY <2>3, DivModIs
  <2> QED
    BY <1>2, <2>1, <2>2, <2>4
<1> QED
  BY <1>1, <1>2

LEMMA ModOfSum ==
  ASSUME NEW b \in Nat \ {0}, NEW x \in Nat, NEW y \in Nat
  PROVE  ((x % b) + y) % b = (x + y) % b
<1>1. PICK q \in Nat, r \in 0..(b - 1) : r = x % b /\ x = q * b + r
  BY Divided
<1>2. r + y \in Nat
  OBVIOUS
<1>3. PICK f \in Nat, g \in 0..(b - 1) : g = (r + y) % b /\ r + y = f * b + g
  BY <1>2, Divided, Zenon
<1>4. x + y = (q + f) * b + g /\ q + f \in Nat /\ x + y \in Nat
  BY <1>1, <1>3
<1>5. (x + y) % b = g
  BY <1>4, DivModIs, Zenon
<1> QED
  BY <1>1, <1>3, <1>5

\* What the two halves of a length make together.
LEMMA Halves ==
  ASSUME NEW m \in Nat
  PROVE  Shl3(m) = (8 * m) % CountMod /\ Shr29(m) = (8 * m) \div CountMod
<1>1. PICK k \in Nat \ {0} : CountMod = 8 * (k * BlockSize) /\ CountMod \div 8 = k * BlockSize
  BY WordsOfBlocks
<1>2. PICK b \in Nat \ {0} : b = k * BlockSize
  BY <1>1, WordsOfBlocks
<1>3. PICK q \in Nat, r \in 0..(b - 1) : q = m \div b /\ m = q * b + r
  BY Divided, Zenon
<1>4. /\ 8 * m = q * (8 * b) + (8 * r) /\ 8 * m \in Nat
      /\ 8 * r \in 0..((8 * b) - 1) /\ 8 * b \in Nat \ {0}
  <2>1. PICK a \in Nat : a = q * b /\ q * (8 * b) = 8 * a
    OBVIOUS
  <2> QED
    BY <1>3, <2>1
<1>5. (8 * m) \div (8 * b) = q
  <2>1. PICK c \in Nat \ {0} : c = 8 * b
    OBVIOUS
  <2>2. PICK x \in Nat, t \in 0..(c - 1) : x = 8 * m /\ t = 8 * r /\ x = q * c + t
    BY <1>4, <2>1
  <2> QED
    BY <2>1, <2>2, DivModIs
<1> QED
  BY <1>1, <1>2, <1>3, <1>5 DEF Shl3, Shr29

\* MD5 counts every update.
LEMMA MD5Counts ==
  ASSUME NEW n \in Nat, NEW m \in Nat
  PROVE  MD5Count(Bits(n), m) = Bits(n + m)
<1>0. 8 * n \in Nat /\ 8 * m \in Nat
  OBVIOUS
<1>1. PICK b \in Nat \ {0} : b = CountMod
  BY WordsOfBlocks
<1>2. PICK q1 \in Nat, r1 \in 0..(b - 1) :
        q1 = (8 * n) \div b /\ r1 = (8 * n) % b /\ 8 * n = q1 * b + r1
  BY <1>0, Divided, Zenon
<1>3. PICK q2 \in Nat, r2 \in 0..(b - 1) :
        q2 = (8 * m) \div b /\ r2 = (8 * m) % b /\ 8 * m = q2 * b + r2
  BY <1>0, Divided, Zenon
<1>4. PICK x \in Nat : x = 8 * (n + m)
  OBVIOUS
<1>5. x = (q1 * b + r1) + (q2 * b + r2)
  BY <1>2, <1>3, <1>4
<1>6. PICK low \in Nat, carry \in Nat :
        low = (r1 + r2) % b /\ carry = IF low < r1 THEN 1 ELSE 0
  OBVIOUS
<1>7. low = x % b /\ x \div b = q1 + q2 + carry
  BY <1>5, <1>6, Carry
<1>8. ((q1 % b) + (carry + q2)) % b = (q1 + (carry + q2)) % b
  <2>1. carry + q2 \in Nat
    OBVIOUS
  <2> QED
    BY <2>1, ModOfSum, Zenon
<1>9. (q1 % b) + carry + q2 = (q1 % b) + (carry + q2) /\ q1 + q2 + carry = q1 + (carry + q2)
  BY DivMod
<1>10. ((q1 % b) + carry + q2) % b = (x \div b) % b
  BY <1>7, <1>8, <1>9
<1>11. Bits(n) = <<r1, q1 % b>> /\ Bits(n + m) = <<x % b, (x \div b) % b>>
  BY <1>1, <1>2, <1>4 DEF Bits
<1>12. Shl3(m) = r2 /\ Shr29(m) = q2
  BY <1>1, <1>3, Halves
<1>13. MD5Count(<<r1, q1 % b>>, m) = <<low, ((q1 % b) + carry + q2) % b>>
  BY <1>1, <1>6, <1>12 DEF MD5Count
<1> QED
  BY <1>7, <1>10, <1>11, <1>13

\* An update whose length in bits fits a word has no high bits to drop.
LEMMA ShortCounts ==
  ASSUME NEW e, NEW n, NEW m \in Nat, 8 * m < CountMod
  PROVE  Shr29(m) = 0 /\ ~ Miscounts(e, n, m)
<1>1. 8 * m \in 0..(CountMod - 1) /\ 8 * m = 0 * CountMod + 8 * m
      /\ CountMod \in Nat \ {0} /\ 8 * m \in Nat
  BY WordsOfBlocks
<1>2. (8 * m) \div CountMod = 0
  BY <1>1
<1>3. Shr29(m) = 0
  BY <1>2, Halves
<1> QED
  BY <1>3 DEF Miscounts

\* SHA-1 counts the low word as MD5 does, whatever the high word.
LEMMA SHA1Low ==
  ASSUME NEW n \in Nat, NEW m \in Nat, NEW count \in Words, count[1] = Bits(n)[1]
  PROVE  SHA1Count(count, m) \in Words /\ SHA1Count(count, m)[1] = Bits(n + m)[1]
<1>1. PICK b \in Nat \ {0} : b = CountMod
  BY WordsOfBlocks
<1>2. PICK r1 \in 0..(b - 1), h \in 0..(b - 1) : count = <<r1, h>> /\ r1 = Bits(n)[1]
  BY <1>1 DEF Words
<1>3. PICK r2 \in Nat, q2 \in Nat : r2 = Shl3(m) /\ q2 = Shr29(m)
  <2>1. 8 * m \in Nat
    OBVIOUS
  <2>2. PICK q \in Nat, r \in 0..(b - 1) : q = (8 * m) \div b /\ r = (8 * m) % b
    BY <2>1, Divided, Zenon
  <2> QED
    BY <1>1, <2>2, Halves
<1>4. (r1 + r2) % b \in 0..(b - 1) /\ (h + q2 + 1) % b \in 0..(b - 1)
  <2>1. r1 + r2 \in Nat /\ h + q2 + 1 \in Nat
    OBVIOUS
  <2> QED
    BY <2>1, DivMod
<1>5. SHA1Count(count, m) \in Words /\ SHA1Count(count, m)[1] = (r1 + r2) % b
  BY <1>1, <1>2, <1>3, <1>4 DEF SHA1Count, Words
<1>6. MD5Count(Bits(n), m)[1] = (r1 + r2) % b
  BY <1>1, <1>2, <1>3 DEF MD5Count
<1> QED
  BY <1>5, <1>6, MD5Counts

\* It counts the high word as MD5 does when there are no high bits to add or the
\* low word overflows.
LEMMA SHA1Counts ==
  ASSUME NEW n \in Nat, NEW m \in Nat, ~ Miscounts("sha1", n, m)
  PROVE  SHA1Count(Bits(n), m) = Bits(n + m)
<1>1. PICK b \in Nat \ {0} : b = CountMod
  BY WordsOfBlocks
<1>2. PICK r1 \in 0..(b - 1), h \in 0..(b - 1) :
        Bits(n) = <<r1, h>> /\ r1 = (8 * n) % CountMod
  BY <1>1, BitsAreWords DEF Words
<1>3. PICK r2 \in 0..(b - 1), q2 \in Nat : r2 = Shl3(m) /\ q2 = Shr29(m)
  <2>1. 8 * m \in Nat
    OBVIOUS
  <2>2. PICK q \in Nat, r \in 0..(b - 1) : q = (8 * m) \div b /\ r = (8 * m) % b
    BY <2>1, Divided, Zenon
  <2> QED
    BY <1>1, <2>2, Halves
<1>4. PICK low \in 0..(b - 1) : low = (r1 + r2) % b
  <2>1. r1 + r2 \in Nat
    OBVIOUS
  <2> QED
    BY <2>1, DivMod
<1>5. CASE low < r1
  <2>1. SHA1Count(Bits(n), m) = <<low, (h + q2 + 1) % b>>
    BY <1>1, <1>2, <1>3, <1>4, <1>5 DEF SHA1Count
  <2>2. MD5Count(Bits(n), m) = <<low, (h + 1 + q2) % b>>
    BY <1>1, <1>2, <1>3, <1>4, <1>5 DEF MD5Count
  <2>3. h + q2 + 1 = h + 1 + q2
    OBVIOUS
  <2> QED
    BY <2>1, <2>2, <2>3, MD5Counts
<1>6. CASE ~ low < r1
  <2>1. r1 + r2 < b
    <3>1. ASSUME r1 + r2 >= b PROVE FALSE
      <4>1. r1 + r2 = 1 * b + (r1 + r2 - b) /\ r1 + r2 - b \in 0..(b - 1) /\ r1 + r2 \in Nat
        BY <3>1
      <4>2. (r1 + r2) % b = r1 + r2 - b
        BY <4>1, DivModIs
      <4> QED
        BY <1>4, <1>6, <4>2
    <3> QED
      BY <3>1
  <2>2. q2 = 0
    BY <1>1, <1>2, <1>3, <2>1 DEF Miscounts
  <2>3. SHA1Count(Bits(n), m) = <<low, h>>
    BY <1>1, <1>2, <1>3, <1>4, <1>6 DEF SHA1Count
  <2>4. MD5Count(Bits(n), m) = <<low, (h + 0 + 0) % b>>
    BY <1>1, <1>2, <1>3, <1>4, <1>6, <2>2 DEF MD5Count
  <2>5. (h + 0 + 0) % b = h
    OBVIOUS
  <2> QED
    BY <2>3, <2>4, <2>5, MD5Counts
<1> QED
  BY <1>5, <1>6

-----------------------------------------------------------------------------
(* What an engine holds of the bytes it was given *)

\* The states that end the blocks of bytes from S, and the contexts of an engine.
States(e, S)  == Seq({e} \cup Seq(S))
Engines(e, S) == [state : States(e, S), count : Words, buffer : [1..BlockSize -> S]]

\* Where block number j of a message begins, counted from 0, and the block.
Offset(j)         == j * BlockSize
BlockAt(bytes, j) == SubSeq(bytes, Offset(j) + 1, Offset(j) + BlockSize)

\* The engine has transformed q blocks of bytes and has the next p in the buffer.
Took(e, bytes, q, p, state, buffer) ==
  /\ Offset(q) + p <= Len(bytes)
  /\ Len(state) = q + 1 /\ state[1] = e
  /\ \A j \in 0..(q - 1) : state[j + 2] = BlockAt(bytes, j)
  /\ \A i \in 1..p : buffer[i] = bytes[Offset(q) + i]

\* The engine has taken all of the bytes, and counted them in the low word.
Held(e, S, bytes, c) ==
  /\ bytes \in Seq(S)
  /\ c \in Engines(e, S)
  /\ c.count[1] = Bits(Len(bytes))[1]
  /\ Took(e, bytes, Len(bytes) \div BlockSize, Len(bytes) % BlockSize, c.state, c.buffer)

\* The high word is right as well.
Given(e, S, bytes, c) == Held(e, S, bytes, c) /\ c.count = Bits(Len(bytes))

LEMMA BlockSizeType == BlockSize \in Nat /\ BlockSize > 0
BY WordsOfBlocks

LEMMA OffsetType == \A j \in Nat : Offset(j) \in Nat
BY BlockSizeType DEF Offset

LEMMA OffsetSum == \A j, k \in Nat : Offset(j + k) = Offset(j) + Offset(k)
BY BlockSizeType DEF Offset

LEMMA OffsetNext == Offset(0) = 0 /\ \A j \in Nat : Offset(j + 1) = Offset(j) + BlockSize
BY BlockSizeType DEF Offset

\* A block ends before the later ones begin.
LEMMA OffsetBefore ==
  ASSUME NEW q \in Nat, NEW j \in 0..(q - 1)
  PROVE  Offset(j) + BlockSize <= Offset(q)
<1>1. PICK i \in Nat : q = (j + 1) + i /\ j + 1 \in Nat
  <2>1. q - (j + 1) \in Nat /\ q = (j + 1) + (q - (j + 1)) /\ j + 1 \in Nat
    OBVIOUS
  <2> QED
    BY <2>1
<1>2. Offset(q) = Offset(j + 1) + Offset(i)
  BY <1>1, OffsetSum
<1>3. Offset(j + 1) = Offset(j) + BlockSize
  BY OffsetNext
<1> QED
  BY <1>1, <1>2, <1>3, OffsetType, BlockSizeType

LEMMA Cut ==
  ASSUME NEW n \in Nat
  PROVE  \E q \in Nat, p \in 0..(BlockSize - 1) :
           q = n \div BlockSize /\ p = n % BlockSize /\ n = Offset(q) + p
<1>1. BlockSize \in Nat \ {0}
  BY BlockSizeType
<1> QED
  BY <1>1, Divided, Zenon DEF Offset

LEMMA CutIs ==
  ASSUME NEW n \in Nat, NEW q \in Nat, NEW p \in 0..(BlockSize - 1), n = Offset(q) + p
  PROVE  n \div BlockSize = q /\ n % BlockSize = p
BY BlockSizeType, DivModIs DEF Offset

LEMMA FunIsSeq ==
  ASSUME NEW S, NEW n \in Nat, NEW f \in [1..n -> S]
  PROVE  f \in Seq(S) /\ Len(f) = n
<1>1. f \in Seq(S)
  BY SeqDef
<1>2. DOMAIN f = 1..n /\ DOMAIN f = 1..Len(f) /\ Len(f) \in Nat
  BY <1>1, LenProperties
<1> QED
  BY <1>1, <1>2

\* The sequence r is s followed by t.
Joined(r, S, s, t) ==
  /\ r \in Seq(S) /\ Len(r) = Len(s) + Len(t)
  /\ \A i \in 1..Len(s) : r[i] = s[i]
  /\ \A i \in 1..Len(t) : r[Len(s) + i] = t[i]

LEMMA ConcatIs ==
  ASSUME NEW S, NEW s \in Seq(S), NEW t \in Seq(S)
  PROVE  Joined(s \o t, S, s, t)
<1>4. PICK m \in Nat, n \in Nat : m = Len(s) /\ n = Len(t)
  BY LenProperties
<1>1. /\ s \o t \in Seq(S) /\ Len(s \o t) = m + n
      /\ \A i \in 1..(m + n) : (s \o t)[i] = IF i <= m THEN s[i] ELSE t[i - m]
  BY <1>4, ConcatProperties
<1>2. \A i \in 1..m : (s \o t)[i] = s[i]
  BY <1>1
<1>3. \A i \in 1..n : (s \o t)[m + i] = t[i]
  <2> TAKE i \in 1..n
  <2>1. m + i \in 1..(m + n) /\ ~ m + i <= m /\ (m + i) - m = i
    OBVIOUS
  <2> QED
    BY <1>1, <2>1
<1> QED
  BY <1>1, <1>2, <1>3, <1>4 DEF Joined

LEMMA SliceOf ==
  ASSUME NEW S, NEW s \in Seq(S), NEW m \in Nat, NEW n \in Nat, m <= n, n <= Len(s)
  PROVE  /\ SubSeq(s, m + 1, n) \in Seq(S)
         /\ Len(SubSeq(s, m + 1, n)) = n - m
         /\ \A i \in 1..(n - m) : SubSeq(s, m + 1, n)[i] = s[m + i]
<1>1. PICK a \in Int : a = m + 1
  OBVIOUS
<1>2. \A i \in a..n : s[i] \in S
  BY <1>1, ElementOfSeq, LenProperties
<1>3. /\ SubSeq(s, a, n) \in Seq(S)
      /\ Len(SubSeq(s, a, n)) = IF a <= n THEN n - a + 1 ELSE 0
      /\ \A i \in 1..(n - a + 1) : SubSeq(s, a, n)[i] = s[a + i - 1]
  BY <1>2, SubSeqProperties
<1>4. n - a + 1 = n - m /\ \A i \in Nat : a + i - 1 = m + i
  BY <1>1
<1>5. \A i \in 1..(n - m) : SubSeq(s, a, n)[i] = s[m + i]
  BY <1>3, <1>4
<1> QED
  BY <1>1, <1>3, <1>4, <1>5

LEMMA BlockOf ==
  ASSUME NEW S, NEW bytes \in Seq(S), NEW j \in Nat, Offset(j) + BlockSize <= Len(bytes)
  PROVE  /\ BlockAt(bytes, j) \in Seq(S)
         /\ Len(BlockAt(bytes, j)) = BlockSize
         /\ \A i \in 1..BlockSize : BlockAt(bytes, j)[i] = bytes[Offset(j) + i]
<1>1. PICK m \in Nat, n \in Nat : m = Offset(j) /\ n = Offset(j) + BlockSize
  BY OffsetType, BlockSizeType
<1>2. m <= n /\ n - m = BlockSize /\ n <= Len(bytes)
  BY <1>1, BlockSizeType
<1>3. /\ SubSeq(bytes, m + 1, n) \in Seq(S)
      /\ Len(SubSeq(bytes, m + 1, n)) = n - m
      /\ \A i \in 1..(n - m) : SubSeq(bytes, m + 1, n)[i] = bytes[m + i]
  BY <1>2, SliceOf
<1> QED
  BY <1>1, <1>2, <1>3 DEF BlockAt

LEMMA IsBlock ==
  ASSUME NEW S, NEW bytes \in Seq(S), NEW j \in Nat, Offset(j) + BlockSize <= Len(bytes),
         NEW b \in Seq(S), Len(b) = BlockSize,
         \A i \in 1..BlockSize : b[i] = bytes[Offset(j) + i]
  PROVE  b = BlockAt(bytes, j)
<1>1. PICK t \in Seq(S) : t = BlockAt(bytes, j)
  BY BlockOf
<1>2. Len(t) = BlockSize /\ \A i \in 1..BlockSize : t[i] = bytes[Offset(j) + i]
  BY <1>1, BlockOf
<1>3. b = t
  BY <1>2, SeqEqual
<1> QED
  BY <1>1, <1>3

\* What the engine took of bytes it took of bytes followed by more.
LEMMA TookOfMore ==
  ASSUME NEW S, NEW e, NEW bytes \in Seq(S), NEW more \in Seq(S),
         NEW q \in Nat, NEW p \in Nat, NEW state, NEW buffer,
         Took(e, bytes, q, p, state, buffer)
  PROVE  Took(e, bytes \o more, q, p, state, buffer)
<1>1. PICK full \in Seq(S) : full = bytes \o more
  BY ConcatProperties
<1>2. /\ Len(bytes) \in Nat /\ Len(more) \in Nat /\ Len(full) = Len(bytes) + Len(more)
      /\ \A i \in 1..Len(bytes) : full[i] = bytes[i]
  BY <1>1, ConcatProperties, LenProperties
<1>3. Offset(q) \in Nat /\ Offset(q) + p <= Len(bytes)
  BY OffsetType DEF Took
<1>4. ASSUME NEW j \in 0..(q - 1) PROVE BlockAt(full, j) = BlockAt(bytes, j)
  <2>1. /\ j \in Nat /\ Offset(j) \in Nat /\ Offset(j) + BlockSize <= Len(bytes)
        /\ Offset(j) + BlockSize <= Len(full)
    <3>1. j \in Nat
      OBVIOUS
    <3>2. Offset(j) \in Nat
      BY <3>1, OffsetType
    <3>3. Offset(j) + BlockSize <= Offset(q)
      BY OffsetBefore
    <3> QED
      BY <1>2, <1>3, <3>1, <3>2, <3>3, BlockSizeType
  <2>2. PICK b \in Seq(S) : b = BlockAt(full, j)
    BY <2>1, BlockOf
  <2>3. Len(b) = BlockSize /\ \A i \in 1..BlockSize : b[i] = full[Offset(j) + i]
    BY <2>1, <2>2, BlockOf
  <2>4. \A i \in 1..BlockSize : full[Offset(j) + i] = bytes[Offset(j) + i]
    <3> TAKE i \in 1..BlockSize
    <3>1. Offset(j) + i \in 1..Len(bytes)
      BY <1>2, <2>1, BlockSizeType
    <3> QED
      BY <1>2, <3>1
  <2>5. \A i \in 1..BlockSize : b[i] = bytes[Offset(j) + i]
    BY <2>3, <2>4, Zenon
  <2>6. b = BlockAt(bytes, j)
    BY <2>1, <2>3, <2>5, IsBlock, Zenon
  <2> QED
    BY <2>2, <2>6, Zenon
<1>5. \A i \in 1..p : full[Offset(q) + i] = bytes[Offset(q) + i]
  BY <1>2, <1>3
<1>6. Offset(q) + p <= Len(full)
  BY <1>2, <1>3
<1> QED
  BY <1>1, <1>4, <1>5, <1>6 DEF Took

-----------------------------------------------------------------------------
(* MD5 takes the bytes one by one *)

\* The loop of MD5Update after the first t bytes of full.
Taken(e, S, full, t, d) ==
  /\ d \in [state : States(e, S), buffer : [1..BlockSize -> S], mdi : 0..(BlockSize - 1)]
  /\ d.mdi = t % BlockSize
  /\ Took(e, full, t \div BlockSize, t % BlockSize, d.state, d.buffer)

LEMMA TookBlock ==
  ASSUME NEW e, NEW S, NEW full \in Seq(S), NEW q \in Nat, NEW p \in Nat,
         Offset(q) + BlockSize <= Len(full),
         NEW state \in States(e, S), NEW old, Took(e, full, q, p, state, old),
         NEW block \in Seq(S), block = BlockAt(full, q), NEW buffer
  PROVE  /\ Append(state, block) \in States(e, S)
         /\ Took(e, full, q + 1, 0, Append(state, block), buffer)
<1>1. PICK T : T = {e} \cup Seq(S)
  OBVIOUS
<1>2. /\ Append(state, block) \in Seq(T)
      /\ Len(Append(state, block)) = Len(state) + 1
      /\ \A i \in 1..Len(state) : Append(state, block)[i] = state[i]
      /\ Append(state, block)[Len(state) + 1] = block
  BY <1>1, AppendProperties DEF States
<1>3. Len(state) = q + 1 /\ state[1] = e /\ \A j \in 0..(q - 1) : state[j + 2] = BlockAt(full, j)
  BY DEF Took
<1>4. ASSUME NEW j \in 0..q PROVE Append(state, block)[j + 2] = BlockAt(full, j)
  <2>1. CASE j = q
    BY <1>2, <1>3, <2>1
  <2>2. CASE j # q
    BY <1>2, <1>3, <2>2
  <2> QED
    BY <2>1, <2>2
<1>5. Append(state, block)[1] = e /\ Len(Append(state, block)) = (q + 1) + 1 /\ (q + 1) - 1 = q
  BY <1>2, <1>3
<1>6. Offset(q + 1) + 0 <= Len(full)
  <2>1. Offset(q) \in Nat /\ Offset(q + 1) = Offset(q) + BlockSize
    BY OffsetNext, OffsetType
  <2>2. (Offset(q) + BlockSize) + 0 = Offset(q) + BlockSize
    BY <2>1, BlockSizeType
  <2> QED
    BY <2>1, <2>2
<1> QED
  BY <1>1, <1>2, <1>4, <1>5, <1>6 DEF Took, States

LEMMA ByteTaken ==
  ASSUME NEW e, NEW S, NEW full \in Seq(S), NEW t \in Nat, t < Len(full),
         NEW d, Taken(e, S, full, t, d)
  PROVE  Taken(e, S, full, t + 1, MD5Byte(d, full[t + 1]))
<1>1. PICK q \in Nat, p \in 0..(BlockSize - 1) :
        q = t \div BlockSize /\ p = t % BlockSize /\ t = Offset(q) + p
  BY Cut
<1>2. t = Offset(q) + p
  BY <1>1
<1>3. PICK o \in Nat : o = Offset(q)
  BY OffsetType
<1>4. PICK z \in 1..BlockSize :
        /\ z = p + 1 /\ t + 1 = o + z
        /\ \A i \in 1..z : i = z \/ i \in 1..p
        /\ \A i \in 1..p : i \in 1..BlockSize /\ i # z
  <2>1. p + 1 \in 1..BlockSize /\ t + 1 = o + (p + 1)
    BY <1>2, <1>3, BlockSizeType
  <2>2. \A i \in 1..(p + 1) : i = p + 1 \/ i \in 1..p
    OBVIOUS
  <2>3. \A i \in 1..p : i \in 1..BlockSize /\ i # p + 1
    BY BlockSizeType
  <2> QED
    BY <2>1, <2>2, <2>3
<1>5. PICK n \in Nat : n = Len(full) /\ o + z <= n
  BY <1>4, LenProperties
<1>6. PICK byte \in S : byte = full[t + 1]
  BY ElementOfSeq, LenProperties
<1>7. /\ d.state \in States(e, S) /\ d.buffer \in [1..BlockSize -> S] /\ d.mdi = p
      /\ d = [state |-> d.state, buffer |-> d.buffer, mdi |-> d.mdi]
      /\ Took(e, full, q, p, d.state, d.buffer)
  BY <1>1 DEF Taken
<1>8. PICK b \in [1..BlockSize -> S] : b = d.buffer
  BY <1>7
<1>9. \A i \in 1..p : b[i] = full[o + i]
  BY <1>3, <1>7, <1>8 DEF Took
<1> DEFINE in == [b EXCEPT ![z] = byte]
<1>10. in \in [1..BlockSize -> S] /\ \A i \in 1..z : in[i] = full[o + i]
  <2>1. in \in [1..BlockSize -> S] /\ in[z] = byte
    OBVIOUS
  <2>2. \A i \in 1..p : in[i] = b[i]
    BY <1>4
  <2> HIDE DEF in
  <2> QED
    BY <1>4, <1>6, <1>9, <2>1, <2>2
<1> HIDE DEF in
<1>11. CASE z = BlockSize
  <2>1. MD5Byte(d, byte) = [state |-> Append(d.state, in), buffer |-> in, mdi |-> 0]
    BY <1>4, <1>7, <1>8, <1>11 DEF MD5Byte, MD5Transform, in
  <2>2. Offset(q) + BlockSize <= Len(full) /\ t + 1 = Offset(q + 1) + 0
    <3>1. Offset(q + 1) = Offset(q) + BlockSize
      BY OffsetNext
    <3>2. Offset(q + 1) = o + z /\ o + z \in Nat /\ (o + z) + 0 = o + z
      BY <1>3, <1>11, <3>1
    <3> QED
      BY <1>3, <1>4, <1>5, <1>11, <3>2
  <2>3. in = BlockAt(full, q) /\ in \in Seq(S)
    <3>1. in \in Seq(S) /\ Len(in) = BlockSize
      BY <1>10, FunIsSeq, BlockSizeType
    <3>2. \A i \in 1..BlockSize : in[i] = full[Offset(q) + i]
      BY <1>3, <1>10, <1>11, Zenon
    <3>3. in = BlockAt(full, q)
      BY <2>2, <3>1, <3>2, IsBlock, Zenon
    <3> QED
      BY <3>1, <3>3, Zenon
  <2>4. Append(d.state, in) \in States(e, S) /\ Took(e, full, q + 1, 0, Append(d.state, in), in)
    BY <1>7, <2>2, <2>3, TookBlock
  <2>5. (t + 1) \div BlockSize = q + 1 /\ (t + 1) % BlockSize = 0 /\ 0 \in 0..(BlockSize - 1)
    BY <2>2, CutIs, BlockSizeType
  <2> QED
    BY <1>6, <1>10, <2>1, <2>4, <2>5 DEF Taken
<1>12. CASE z # BlockSize
  <2>1. MD5Byte(d, byte) = [state |-> d.state, buffer |-> in, mdi |-> z]
    BY <1>4, <1>7, <1>8, <1>12 DEF MD5Byte, in
  <2>2. z \in 0..(BlockSize - 1) /\ z \in Nat
    BY <1>12, BlockSizeType
  <2>3. t + 1 = Offset(q) + z /\ Offset(q) + z <= Len(full)
    BY <1>3, <1>4, <1>5
  <2>4. Took(e, full, q, z, d.state, in)
    BY <1>3, <1>7, <1>10, <2>3 DEF Took
  <2>5. (t + 1) \div BlockSize = q /\ (t + 1) % BlockSize = z
    BY <2>2, <2>3, CutIs
  <2> QED
    BY <1>6, <1>7, <1>10, <2>1, <2>2, <2>4, <2>5 DEF Taken
<1> QED
  BY <1>11, <1>12

LEMMA MD5ByteType ==
  ASSUME NEW e, NEW S, NEW byte \in S,
         NEW d \in [state : States(e, S), buffer : [1..BlockSize -> S], mdi : 0..(BlockSize - 1)]
  PROVE  MD5Byte(d, byte) \in
           [state : States(e, S), buffer : [1..BlockSize -> S], mdi : 0..(BlockSize - 1)]
<1>1. d = [state |-> d.state, buffer |-> d.buffer, mdi |-> d.mdi]
  OBVIOUS
<1>2. PICK b \in [1..BlockSize -> S], z \in 1..BlockSize : b = d.buffer /\ z = d.mdi + 1
  BY BlockSizeType
<1> DEFINE in == [b EXCEPT ![z] = byte]
<1>3. in \in [1..BlockSize -> S]
  OBVIOUS
<1> HIDE DEF in
<1>4. CASE z = BlockSize
  <2>1. MD5Byte(d, byte) = [state |-> Append(d.state, in), buffer |-> in, mdi |-> 0]
    BY <1>1, <1>2, <1>4 DEF MD5Byte, MD5Transform, in
  <2>2. in \in {e} \cup Seq(S)
    BY <1>3, FunIsSeq, BlockSizeType
  <2>3. Append(d.state, in) \in States(e, S)
    BY <2>2, AppendProperties DEF States
  <2> QED
    BY <1>3, <2>1, <2>3, BlockSizeType
<1>5. CASE z # BlockSize
  <2>1. MD5Byte(d, byte) = [state |-> d.state, buffer |-> in, mdi |-> z]
    BY <1>1, <1>2, <1>5 DEF MD5Byte, in
  <2>2. z \in 0..(BlockSize - 1)
    BY <1>5, BlockSizeType
  <2> QED
    BY <1>3, <2>1, <2>2
<1> QED
  BY <1>4, <1>5

\* The loop ends when it has taken all of the bytes.
LEMMA MD5Loop ==
  ASSUME NEW e, NEW S, NEW full \in Seq(S), NEW bytes \in Seq(S), NEW n \in Nat,
         Len(full) = n + Len(bytes), \A i \in 1..Len(bytes) : full[n + i] = bytes[i],
         NEW x, Taken(e, S, full, n, x)
  PROVE  Taken(e, S, full, Len(full),
               Repeat(LAMBDA d, i : MD5Byte(d, bytes[i]), x, Len(bytes)))
<1> DEFINE R == [state : States(e, S), buffer : [1..BlockSize -> S], mdi : 0..(BlockSize - 1)]
           m == Len(bytes)
           G == [p \in (1..m) \X R |-> MD5Byte(p[2], bytes[p[1]])]
           Turns(g) == [i \in 0..m |-> IF i = 0 THEN x ELSE MD5Byte(g[i - 1], bytes[i])]
           run == CHOOSE g : g = Turns(g)
<1>1. m \in Nat /\ \A i \in 1..m : bytes[i] \in S
  BY LenProperties, ElementOfSeq
<1>2. x \in R
  BY DEF Taken
<1>3. G \in [(1..m) \X R -> R]
  <2>1. \A p \in (1..m) \X R : MD5Byte(p[2], bytes[p[1]]) \in R
    BY <1>1, MD5ByteType
  <2> QED
    BY <2>1
<1>4. \E g : g = Turns(g)
  <2> HIDE DEF G, R, m
  <2>1. PICK f : Loops(R, x, m, G, f)
    BY <1>1, <1>2, <1>3, LoopExists
  <2>2. f \in [0..m -> R] /\ f[0] = x /\ \A i \in 1..m : f[i] = G[<<i, f[i - 1]>>]
    BY <2>1 DEF Loops
  <2>3. \A i \in 1..m : f[i] = MD5Byte(f[i - 1], bytes[i])
    <3> TAKE i \in 1..m
    <3>1. i - 1 \in 0..m
      BY <1>1
    <3>2. f[i - 1] \in R
      BY <2>2, <3>1
    <3> QED
      BY <2>2, <3>2 DEF G
  <2>4. f = Turns(f)
    BY <1>1, <2>2, <2>3
  <2> QED
    BY <2>4
<1>5. run = Turns(run)
  BY <1>4
<1>6. Repeat(LAMBDA d, i : MD5Byte(d, bytes[i]), x, Len(bytes)) = run[m]
  BY DEF Repeat
<1> HIDE DEF run
<1>7. run[0] = x /\ \A i \in 1..m : run[i] = MD5Byte(run[i - 1], bytes[i])
  BY <1>1, <1>5
<1> DEFINE P == {i \in 0..m : Taken(e, S, full, n + i, run[i])}
<1>8. 0 \in P
  BY <1>1, <1>7
<1>9. ASSUME NEW i \in 0..(m - 1), i \in P PROVE i + 1 \in P
  <2>1. i + 1 \in 1..m /\ (i + 1) - 1 = i /\ n + i \in Nat /\ n + (i + 1) = (n + i) + 1
    BY <1>1
  <2>2. run[i + 1] = MD5Byte(run[i], bytes[i + 1]) /\ bytes[i + 1] = full[(n + i) + 1]
    BY <1>7, <2>1, SMTT(30)
  <2>3. n + i < Len(full)
    BY <1>1, <2>1
  <2>4. Taken(e, S, full, (n + i) + 1, MD5Byte(run[i], full[(n + i) + 1]))
    BY <1>9, <2>1, <2>3, ByteTaken
  <2> QED
    BY <2>1, <2>2, <2>4
<1> HIDE DEF P
<1>10. \A i \in 0..m : i \in P
  BY <1>1, <1>8, <1>9, UpTo
<1>11. Taken(e, S, full, n + m, run[m])
  BY <1>1, <1>10 DEF P
<1> QED
  BY <1>6, <1>11

LEMMA MD5Given ==
  ASSUME NEW e, NEW S, NEW bytes \in Seq(S), NEW more \in Seq(S),
         NEW c, Given(e, S, bytes, c)
  PROVE  Given(e, S, bytes \o more, MD5Update(c, more))
<1>1. PICK full \in Seq(S) : full = bytes \o more
  BY ConcatProperties
<1>2. PICK n \in Nat : n = Len(bytes)
  BY LenProperties
<1>3. /\ Len(more) \in Nat /\ Len(full) = n + Len(more)
      /\ \A i \in 1..Len(more) : full[n + i] = more[i]
  <2>1. Len(more) \in Nat
    BY LenProperties
  <2>2. \A i \in 1..(n + Len(more)) : full[i] = IF i <= n THEN bytes[i] ELSE more[i - n]
    BY <1>1, <1>2, ConcatProperties
  <2>3. \A i \in 1..Len(more) : n + i \in 1..(n + Len(more)) /\ ~ n + i <= n /\ (n + i) - n = i
    BY <2>1
  <2>4. \A i \in 1..Len(more) : full[n + i] = more[i]
    BY <2>2, <2>3
  <2> QED
    BY <1>1, <1>2, <2>1, <2>4, ConcatProperties
<1>4. c \in Engines(e, S) /\ c.count = Bits(n)
  BY <1>2 DEF Given, Held
<1> DEFINE x == [state |-> c.state, buffer |-> c.buffer, mdi |-> Position(c)]
           end == Repeat(LAMBDA d, i : MD5Byte(d, more[i]), x, Len(more))
<1>5. Taken(e, S, full, n, x)
  <2>1. PICK q \in Nat, p \in 0..(BlockSize - 1) : q = n \div BlockSize /\ p = n % BlockSize
    BY Cut
  <2>2. Took(e, bytes, q, p, c.state, c.buffer)
    BY <1>2, <2>1 DEF Given, Held
  <2>3. Took(e, full, q, p, c.state, c.buffer)
    BY <1>1, <2>2, TookOfMore
  <2>4. Position(c) = p
    BY <1>4, <2>1, PositionOf
  <2>5. x.state = c.state /\ x.buffer = c.buffer /\ x.mdi = p
    BY <2>4
  <2>6. x \in [state : States(e, S), buffer : [1..BlockSize -> S], mdi : 0..(BlockSize - 1)]
    BY <1>4, <2>4 DEF Engines
  <2> HIDE DEF x
  <2> QED
    BY <2>1, <2>3, <2>5, <2>6 DEF Taken
<1> HIDE DEF x
<1>6. Taken(e, S, full, Len(full), end)
  BY <1>3, <1>5, MD5Loop
<1> HIDE DEF end
<1>7. MD5Update(c, more) = [state |-> end.state, count |-> MD5Count(c.count, Len(more)),
                            buffer |-> end.buffer]
  BY DEF MD5Update, end, x
<1>8. MD5Count(c.count, Len(more)) = Bits(Len(full)) /\ Bits(Len(full)) \in Words
  BY <1>3, <1>4, MD5Counts, BitsAreWords
<1>9. end.state \in States(e, S) /\ end.buffer \in [1..BlockSize -> S]
      /\ Took(e, full, Len(full) \div BlockSize, Len(full) % BlockSize, end.state, end.buffer)
  BY <1>6 DEF Taken
<1> QED
  BY <1>1, <1>7, <1>8, <1>9 DEF Given, Held, Engines

-----------------------------------------------------------------------------
(* SHA-1 takes the blocks at once *)

\* The buffer b is that of old with the bytes from position j on.
Holds(b, S, old, j, bytes) ==
  /\ b \in [1..BlockSize -> S]
  /\ \A i \in 1..Len(bytes) : b[j + i] = bytes[i]
  /\ \A i \in 1..j : b[i] = old[i]

LEMMA CopiedIs ==
  ASSUME NEW S, NEW buffer \in [1..BlockSize -> S], NEW j \in Nat, NEW bytes \in Seq(S),
         j + Len(bytes) <= BlockSize
  PROVE  Holds(Copied(buffer, j, bytes), S, buffer, j, bytes)
<1>1. Len(bytes) \in Nat /\ BlockSize \in Nat
  BY LenProperties, BlockSizeType
<1>2. \A k \in (j + 1)..(j + Len(bytes)) : bytes[k - j] \in S
  <2> TAKE k \in (j + 1)..(j + Len(bytes))
  <2>1. k - j \in 1..Len(bytes)
    BY <1>1
  <2> QED
    BY <2>1, ElementOfSeq
<1>3. Copied(buffer, j, bytes) \in [1..BlockSize -> S]
  BY <1>2 DEF Copied
<1>4. \A i \in 1..Len(bytes) : Copied(buffer, j, bytes)[j + i] = bytes[i]
  <2> TAKE i \in 1..Len(bytes)
  <2>1. PICK k \in 1..BlockSize : k = j + i /\ k \in (j + 1)..(j + Len(bytes)) /\ k - j = i
    BY <1>1
  <2>2. Copied(buffer, j, bytes)[k] = bytes[k - j]
    BY <2>1 DEF Copied
  <2> QED
    BY <2>1, <2>2
<1>5. \A i \in 1..j : Copied(buffer, j, bytes)[i] = buffer[i]
  <2> TAKE i \in 1..j
  <2>1. i \in 1..BlockSize /\ i \notin (j + 1)..(j + Len(bytes))
    BY <1>1
  <2> QED
    BY <2>1 DEF Copied
<1> QED
  BY <1>3, <1>4, <1>5 DEF Holds

\* The block number k, from 1, of the bytes behind the first ones.
Chunk(bytes, first, k) ==
  SubSeq(bytes, first + (k - 1) * BlockSize + 1, first + k * BlockSize)

\* The n bytes of full behind the first o are those of bytes behind the first ones.
Follows(full, o, bytes, first, n) ==
  /\ o + n <= Len(full) /\ first + n <= Len(bytes)
  /\ \A i \in 1..n : full[o + i] = bytes[first + i]

LEMMA ChunkIs ==
  ASSUME NEW S, NEW full \in Seq(S), NEW bytes \in Seq(S),
         NEW first \in Nat, NEW whole \in Nat, NEW q \in Nat,
         Follows(full, Offset(q), bytes, first, Offset(whole)),
         NEW k \in 0..(whole - 1)
  PROVE  /\ Chunk(bytes, first, k + 1) \in Seq(S)
         /\ Chunk(bytes, first, k + 1) = BlockAt(full, q + k)
         /\ q + k \in Nat /\ Offset(q + k) + BlockSize <= Len(full)
<1>1. k \in Nat /\ q + k \in Nat /\ (k + 1) - 1 = k
  OBVIOUS
<1>2. PICK a \in Nat, b \in Nat, w \in Nat : a = Offset(k) /\ b = Offset(q) /\ w = Offset(whole)
  BY <1>1, OffsetType
<1>3. a + BlockSize <= w
  BY <1>2, OffsetBefore
<1>4. b + w <= Len(full) /\ first + w <= Len(bytes)
      /\ \A i \in 1..w : full[b + i] = bytes[first + i]
  BY <1>2 DEF Follows
<1>5. PICK d \in Nat, j \in Nat : d = Offset(j) /\ j = q + k /\ d = b + a /\ d + BlockSize <= Len(full)
  <2>1. Offset(q + k) = Offset(q) + Offset(k)
    BY <1>1, OffsetSum
  <2>2. (b + a) + BlockSize <= Len(full)
    BY <1>3, <1>4, BlockSizeType, LenProperties
  <2> QED
    BY <1>1, <1>2, <2>1, <2>2
<1>6. PICK m \in Nat, n \in Nat : m = first + a /\ n = m + BlockSize /\ n <= Len(bytes)
  <2>1. first + a \in Nat /\ (first + a) + BlockSize \in Nat
    BY BlockSizeType
  <2>2. (first + a) + BlockSize <= Len(bytes)
    BY <1>3, <1>4, BlockSizeType, LenProperties
  <2> QED
    BY <2>1, <2>2
<1>7. Chunk(bytes, first, k + 1) = SubSeq(bytes, m + 1, n)
  <2>1. (k + 1) * BlockSize = a + BlockSize /\ ((k + 1) - 1) * BlockSize = a
    BY <1>1, <1>2, OffsetNext DEF Offset
  <2>2. first + (a + BlockSize) = n
    BY <1>6, BlockSizeType
  <2> QED
    BY <1>6, <2>1, <2>2 DEF Chunk
<1>8. PICK c \in Seq(S) : /\ c = Chunk(bytes, first, k + 1) /\ Len(c) = BlockSize
                          /\ \A i \in 1..BlockSize : c[i] = bytes[m + i]
  <2>1. m <= n /\ n - m = BlockSize
    BY <1>6, BlockSizeType
  <2>2. /\ SubSeq(bytes, m + 1, n) \in Seq(S) /\ Len(SubSeq(bytes, m + 1, n)) = n - m
        /\ \A i \in 1..(n - m) : SubSeq(bytes, m + 1, n)[i] = bytes[m + i]
    BY <1>6, <2>1, SliceOf
  <2> QED
    BY <1>7, <2>1, <2>2
<1>9. \A i \in 1..BlockSize : c[i] = full[d + i]
  <2> TAKE i \in 1..BlockSize
  <2>1. PICK l \in 1..w : l = a + i
    BY <1>3, BlockSizeType
  <2>2. i \in Nat /\ m + i = first + l
    BY <1>6, <2>1, BlockSizeType
  <2>3. d + i = b + l
    BY <1>5, <2>1, <2>2
  <2>4. full[b + l] = bytes[first + l]
    BY <1>4
  <2> QED
    BY <1>8, <2>2, <2>3, <2>4
<1>10. c = BlockAt(full, j)
  <2>1. Offset(j) + BlockSize <= Len(full) /\ \A i \in 1..BlockSize : c[i] = full[Offset(j) + i]
    BY <1>5, <1>9
  <2> QED
    BY <1>8, <2>1, IsBlock
<1> QED
  BY <1>1, <1>5, <1>8, <1>10

\* The loop of SHA1Update transforms the blocks.
LEMMA SHA1Loop ==
  ASSUME NEW e, NEW S, NEW full \in Seq(S), NEW bytes \in Seq(S),
         NEW first \in Nat, NEW whole \in Nat, NEW q \in Nat, NEW buffer,
         \A k \in 0..(whole - 1) :
           /\ Chunk(bytes, first, k + 1) \in Seq(S)
           /\ Chunk(bytes, first, k + 1) = BlockAt(full, q + k)
           /\ q + k \in Nat /\ Offset(q + k) + BlockSize <= Len(full),
         NEW x \in States(e, S), Took(e, full, q, 0, x, buffer)
  PROVE  LET end == Repeat(LAMBDA s, k : SHA1Transform(s, Chunk(bytes, first, k)), x, whole)
         IN  end \in States(e, S) /\ Took(e, full, q + whole, 0, end, buffer)
<1> DEFINE R == States(e, S)
           Block(k) == Chunk(bytes, first, k)
           G == [p \in (1..whole) \X R |-> Append(p[2], Block(p[1]))]
           Turns(g) == [k \in 0..whole |-> IF k = 0 THEN x ELSE Append(g[k - 1], Block(k))]
           run == CHOOSE g : g = Turns(g)
<1>1. \A k \in 1..whole : Block(k) \in Seq(S)
  <2> TAKE k \in 1..whole
  <2>1. k - 1 \in 0..(whole - 1) /\ (k - 1) + 1 = k
    OBVIOUS
  <2>2. Chunk(bytes, first, (k - 1) + 1) \in Seq(S)
    BY <2>1
  <2> QED
    BY <2>1, <2>2
<1> HIDE DEF Block
<1>2. G \in [(1..whole) \X R -> R]
  <2>1. \A p \in (1..whole) \X R : Append(p[2], Block(p[1])) \in R
    BY <1>1, AppendProperties DEF States
  <2> QED
    BY <2>1
<1>3. \E g : g = Turns(g)
  <2>1. x \in R
    OBVIOUS
  <2> HIDE DEF G, R
  <2>2. PICK f : Loops(R, x, whole, G, f)
    BY <1>2, <2>1, LoopExists
  <2>3. f \in [0..whole -> R] /\ f[0] = x /\ \A k \in 1..whole : f[k] = G[<<k, f[k - 1]>>]
    BY <2>2 DEF Loops
  <2>4. \A k \in 1..whole : f[k] = Append(f[k - 1], Block(k))
    <3> TAKE k \in 1..whole
    <3>1. k - 1 \in 0..whole
      OBVIOUS
    <3>2. f[k - 1] \in R
      BY <2>3, <3>1
    <3> QED
      BY <2>3, <3>2 DEF G
  <2>5. f = Turns(f)
    BY <2>3, <2>4
  <2> QED
    BY <2>5
<1>4. run = Turns(run)
  BY <1>3
<1>5. Repeat(LAMBDA s, k : SHA1Transform(s, Chunk(bytes, first, k)), x, whole) = run[whole]
  BY DEF Repeat, SHA1Transform, Block
<1> HIDE DEF run
<1>6. run[0] = x /\ \A k \in 1..whole : run[k] = Append(run[k - 1], Block(k))
  <2>1. 0 \in 0..whole /\ \A k \in 1..whole : k \in 0..whole /\ k # 0
    OBVIOUS
  <2> QED
    BY <1>4, <2>1, Zenon
<1> DEFINE P == {k \in 0..whole : run[k] \in R /\ Took(e, full, q + k, 0, run[k], buffer)}
<1>7. 0 \in P
  BY <1>6
<1>8. ASSUME NEW k \in 0..(whole - 1), k \in P PROVE k + 1 \in P
  <2>1. k + 1 \in 1..whole /\ k + 1 \in 0..whole /\ (k + 1) - 1 = k /\ q + (k + 1) = (q + k) + 1
    OBVIOUS
  <2>2. run[k + 1] = Append(run[k], Block(k + 1))
    BY <1>6, <2>1
  <2>3. /\ Block(k + 1) \in Seq(S) /\ Block(k + 1) = BlockAt(full, q + k)
        /\ q + k \in Nat /\ Offset(q + k) + BlockSize <= Len(full)
    BY DEF Block
  <2>4. run[k] \in States(e, S) /\ Took(e, full, q + k, 0, run[k], buffer)
    BY <1>8
  <2>5. /\ Append(run[k], Block(k + 1)) \in States(e, S)
        /\ Took(e, full, (q + k) + 1, 0, Append(run[k], Block(k + 1)), buffer)
    BY <2>3, <2>4, TookBlock
  <2> QED
    BY <2>1, <2>2, <2>5
<1> HIDE DEF P
<1>9. \A k \in 0..whole : k \in P
  BY <1>7, <1>8, UpTo
<1>10. whole \in P
  BY <1>9
<1> QED
  BY <1>5, <1>10 DEF P

\* Bytes copied behind what the buffer holds.
LEMMA CopyTook ==
  ASSUME NEW e, NEW S, NEW full \in Seq(S), NEW bytes \in Seq(S), NEW q \in Nat,
         NEW p \in Nat, NEW state, NEW buffer \in [1..BlockSize -> S],
         Took(e, full, q, p, state, buffer),
         Follows(full, Offset(q) + p, bytes, 0, Len(bytes)), p + Len(bytes) <= BlockSize
  PROVE  /\ Copied(buffer, p, bytes) \in [1..BlockSize -> S]
         /\ Took(e, full, q, p + Len(bytes), state, Copied(buffer, p, bytes))
<1>1. PICK o \in Nat, l \in Nat, n \in Nat : o = Offset(q) /\ l = Len(bytes) /\ n = Len(full)
  BY OffsetType, LenProperties
<1>2. PICK b \in [1..BlockSize -> S] :
        /\ b = Copied(buffer, p, bytes)
        /\ \A i \in 1..l : b[p + i] = bytes[i]
        /\ \A i \in 1..p : b[i] = buffer[i]
  <2>1. p + Len(bytes) <= BlockSize
    OBVIOUS
  <2>2. /\ Copied(buffer, p, bytes) \in [1..BlockSize -> S]
        /\ \A i \in 1..Len(bytes) : Copied(buffer, p, bytes)[p + i] = bytes[i]
        /\ \A i \in 1..p : Copied(buffer, p, bytes)[i] = buffer[i]
    <3>1. Holds(Copied(buffer, p, bytes), S, buffer, p, bytes)
      BY <2>1, CopiedIs
    <3> QED
      BY <3>1 DEF Holds
  <2>3. PICK b \in [1..BlockSize -> S] : b = Copied(buffer, p, bytes)
    BY <2>2
  <2>4. (\A i \in 1..l : b[p + i] = bytes[i]) /\ (\A i \in 1..p : b[i] = buffer[i])
    BY <1>1, <2>2, <2>3
  <2> QED
    BY <2>3, <2>4
<1>3. o + p + l <= n /\ \A i \in 1..l : full[(o + p) + i] = bytes[i]
  <2>1. (o + p) + l <= n /\ \A i \in 1..l : full[(o + p) + i] = bytes[0 + i]
    BY <1>1 DEF Follows
  <2>2. \A i \in 1..l : 0 + i = i
    OBVIOUS
  <2> QED
    BY <2>1, <2>2
<1>4. \A i \in 1..p : b[i] = full[o + i]
  BY <1>1, <1>2 DEF Took
<1>5. ASSUME NEW i \in 1..(p + l) PROVE b[i] = full[o + i]
  <2>1. CASE i <= p
    BY <1>4, <2>1
  <2>2. CASE i > p
    <3>1. PICK k \in 1..l : k = i - p /\ i = p + k /\ o + i = (o + p) + k
      BY <2>2
    <3>2. b[p + k] = bytes[k] /\ full[(o + p) + k] = bytes[k]
      BY <1>2, <1>3, Zenon
    <3> QED
      BY <3>1, <3>2, Zenon
  <2> QED
    BY <2>1, <2>2
<1>6. o + (p + l) <= n
  BY <1>3
<1> QED
  BY <1>1, <1>2, <1>5, <1>6 DEF Took

\* What bytes follow their slices follow.
LEMMA SliceFollows ==
  ASSUME NEW S, NEW full \in Seq(S), NEW bytes \in Seq(S), NEW o \in Nat,
         Follows(full, o, bytes, 0, Len(bytes)),
         NEW m \in Nat, NEW l \in Nat, m + l <= Len(bytes)
  PROVE  /\ Follows(full, o + m, bytes, m, l)
         /\ SubSeq(bytes, m + 1, m + l) \in Seq(S) /\ Len(SubSeq(bytes, m + 1, m + l)) = l
         /\ Follows(full, o + m, SubSeq(bytes, m + 1, m + l), 0, l)
<1>1. PICK n \in Nat, k \in Nat, h \in Nat : n = Len(bytes) /\ h = Len(full) /\ k = m + l
  <2>1. Len(bytes) \in Nat /\ Len(full) \in Nat
    BY LenProperties, Zenon
  <2>2. m + l \in Nat
    BY ONLY m \in Nat, l \in Nat, SMT
  <2> QED
    BY <2>1, <2>2, Zenon
<1>2. o + n <= h /\ k <= n /\ \A i \in 1..n : full[o + i] = bytes[0 + i]
  BY <1>1 DEF Follows
<1>3. ASSUME NEW i \in 1..l PROVE full[(o + m) + i] = bytes[m + i]
  <2>1. PICK j \in 1..n : j = m + i /\ (o + m) + i = o + j /\ 0 + j = j
    BY <1>1, <1>2
  <2> QED
    BY <1>2, <2>1
<1>4. (o + m) + l <= h /\ m + l <= n
  BY <1>1, <1>2
<1>5. Follows(full, o + m, bytes, m, l)
  BY <1>1, <1>3, <1>4 DEF Follows
<1>6. m <= k /\ k - m = l
  BY <1>1
<1>7. PICK t \in Seq(S) : /\ t = SubSeq(bytes, m + 1, k) /\ Len(t) = l
                          /\ \A i \in 1..l : t[i] = bytes[m + i]
  <2>1. k <= Len(bytes)
    BY <1>1, <1>2
  <2>2. /\ SubSeq(bytes, m + 1, k) \in Seq(S) /\ Len(SubSeq(bytes, m + 1, k)) = k - m
        /\ \A i \in 1..(k - m) : SubSeq(bytes, m + 1, k)[i] = bytes[m + i]
    BY <1>6, <2>1, SliceOf
  <2> QED
    BY <1>6, <2>2
<1>8. Follows(full, o + m, t, 0, l)
  <2>1. \A i \in 1..l : full[(o + m) + i] = t[0 + i]
    <3> TAKE i \in 1..l
    <3>1. 0 + i = i
      OBVIOUS
    <3> QED
      BY <1>3, <1>7, <3>1
  <2>2. 0 + l <= Len(t)
    BY <1>7
  <2> QED
    BY <1>1, <1>4, <2>1, <2>2 DEF Follows
<1> QED
  BY <1>1, <1>5, <1>7, <1>8

FilledTook(e, S, full, more, q, p, state, buffer, first, whole, r) ==
  LET filled == Copied(buffer, p, SubSeq(more, 1, first))
      end == Repeat(LAMBDA s, k : SHA1Transform(s, Chunk(more, first, k)),
                    Append(state, filled), whole)
      last == Copied(filled, 0, SubSeq(more, first + Offset(whole) + 1, Len(more)))
  IN  /\ end \in States(e, S) /\ last \in [1..BlockSize -> S]
      /\ Took(e, full, (q + 1) + whole, r, end, last)

\* The bytes that fill the buffer, the blocks behind them and the rest.
LEMMA SHA1Filled ==
  ASSUME NEW e, NEW S, NEW full \in Seq(S), NEW more \in Seq(S), NEW q \in Nat,
         NEW p \in 0..(BlockSize - 1), NEW state \in States(e, S),
         NEW buffer \in [1..BlockSize -> S], Took(e, full, q, p, state, buffer),
         Follows(full, Offset(q) + p, more, 0, Len(more)),
         NEW first \in Nat, p + first = BlockSize,
         NEW whole \in Nat, NEW r \in 0..(BlockSize - 1),
         Len(more) = first + (Offset(whole) + r)
  PROVE  FilledTook(e, S, full, more, q, p, state, buffer, first, whole, r)
<1> USE DEF FilledTook
<1>1. PICK o \in Nat, w \in Nat, l \in Nat :
        /\ o = Offset(q) /\ w = Offset(whole) /\ l = Len(more)
        /\ l = first + (w + r) /\ first + w <= l /\ first <= l
  <2>1. PICK w \in Nat : w = Offset(whole)
    BY OffsetType
  <2>2. Len(more) = first + (w + r) /\ first + w <= Len(more) /\ first <= Len(more)
    BY <2>1
  <2> QED
    BY <2>1, <2>2, OffsetType, LenProperties
<1>2. p \in Nat /\ r \in Nat /\ o + p \in Nat /\ first + w \in Nat
      /\ (o + p) + first = Offset(q + 1)
      /\ (o + p) + (first + w) = Offset((q + 1) + whole) + 0
      /\ (first + w) + r = l
  <2>1. p \in Nat /\ r \in Nat /\ o + p \in Nat /\ first + w \in Nat
    OBVIOUS
  <2>2. Offset(q + 1) = o + BlockSize
    BY <1>1, OffsetNext
  <2>3. q + 1 \in Nat /\ Offset((q + 1) + whole) = Offset(q + 1) + w
    <3>1. q + 1 \in Nat
      OBVIOUS
    <3> QED
      BY <1>1, <3>1, OffsetSum, Zenon
  <2>4. (o + p) + first = o + BlockSize /\ (o + p) + (first + w) = (o + BlockSize) + w
    BY BlockSizeType
  <2>5. Offset((q + 1) + whole) = (o + BlockSize) + w
    BY <2>2, <2>3, Zenon
  <2>6. (first + w) + r = l /\ ((o + BlockSize) + w) + 0 = (o + BlockSize) + w
    <3>1. BlockSize \in Nat
      BY BlockSizeType, Zenon
    <3> QED
      BY ONLY <1>1, <3>1, first \in Nat, r \in 0..(BlockSize - 1), SMTT(30)
  <2> QED
    BY <2>1, <2>2, <2>4, <2>5, <2>6
<1>3. Follows(full, o + p, more, 0, Len(more))
  BY <1>1
<1>4. PICK head \in Seq(S) : /\ head = SubSeq(more, 1, first) /\ Len(head) = first
                             /\ Follows(full, o + p, head, 0, first)
  <2>1. 0 + first <= Len(more) /\ 0 + 1 = 1 /\ 0 + first = first /\ (o + p) + 0 = o + p
    BY <1>1, <1>2
  <2>2. /\ SubSeq(more, 0 + 1, 0 + first) \in Seq(S)
        /\ Len(SubSeq(more, 0 + 1, 0 + first)) = first
        /\ Follows(full, (o + p) + 0, SubSeq(more, 0 + 1, 0 + first), 0, first)
    BY <1>2, <1>3, <2>1, SliceFollows, SMTT(30)
  <2> QED
    BY <2>1, <2>2
<1>5. /\ Follows(full, Offset(q + 1), more, first, Offset(whole))
  <2>1. Follows(full, (o + p) + first, more, first, w)
    <3>1. first + w <= Len(more)
      BY <1>1
    <3>2. o + p \in Nat
      BY <1>2
    <3> QED
      BY <1>3, <3>1, <3>2, SliceFollows, Zenon
  <2> QED
    BY <1>1, <1>2, <2>1
<1>6. PICK rest \in Seq(S) :
        /\ rest = SubSeq(more, first + Offset(whole) + 1, Len(more)) /\ Len(rest) = r
        /\ Follows(full, Offset((q + 1) + whole) + 0, rest, 0, r)
  <2>1. (first + w) + r <= Len(more)
    BY <1>1, <1>2
  <2>2. /\ SubSeq(more, (first + w) + 1, (first + w) + r) \in Seq(S)
        /\ Len(SubSeq(more, (first + w) + 1, (first + w) + r)) = r
        /\ Follows(full, (o + p) + (first + w),
                   SubSeq(more, (first + w) + 1, (first + w) + r), 0, r)
    <3>1. PICK m \in Nat, x \in Nat : m = first + w /\ x = o + p /\ r \in Nat
      BY <1>2
    <3>2. m + r <= Len(more) /\ Follows(full, x, more, 0, Len(more))
      BY <1>3, <2>1, <3>1
    <3>3. SubSeq(more, m + 1, m + r) \in Seq(S) /\ Len(SubSeq(more, m + 1, m + r)) = r
      BY <3>1, <3>2, SliceFollows, SMTT(30)
    <3>4. Follows(full, x + m, SubSeq(more, m + 1, m + r), 0, r)
      BY <3>1, <3>2, SliceFollows
    <3> QED
      BY <3>1, <3>3, <3>4
  <2> QED
    BY <1>1, <1>2, <2>2
<1>7. PICK filled \in [1..BlockSize -> S] :
        /\ filled = Copied(buffer, p, head)
        /\ Took(e, full, q, BlockSize, state, filled)
  <2>1. p + Len(head) = BlockSize /\ Follows(full, Offset(q) + p, head, 0, Len(head))
    BY <1>1, <1>4
  <2>2. p + Len(head) <= BlockSize
    BY <2>1, BlockSizeType
  <2>3. /\ Copied(buffer, p, head) \in [1..BlockSize -> S]
        /\ Took(e, full, q, p + Len(head), state, Copied(buffer, p, head))
    BY <1>2, <2>1, <2>2, CopyTook
  <2> QED
    BY <2>1, <2>3
<1>8. PICK start \in States(e, S) : /\ start = Append(state, filled)
                                    /\ Took(e, full, q + 1, 0, start, filled)
  <2>1. filled \in Seq(S) /\ Len(filled) = BlockSize
    BY FunIsSeq, BlockSizeType
  <2>2. /\ Offset(q) + BlockSize <= Len(full)
        /\ \A i \in 1..BlockSize : filled[i] = full[Offset(q) + i]
    BY <1>7 DEF Took
  <2>3. filled = BlockAt(full, q)
    BY <2>1, <2>2, IsBlock
  <2> QED
    BY <1>7, <2>1, <2>2, <2>3, TookBlock, BlockSizeType
<1>9. PICK end \in States(e, S) :
        /\ end = Repeat(LAMBDA s, k : SHA1Transform(s, Chunk(more, first, k)), start, whole)
        /\ Took(e, full, (q + 1) + whole, 0, end, filled)
  <2>1. q + 1 \in Nat
    OBVIOUS
  <2>2. \A k \in 0..(whole - 1) :
          /\ Chunk(more, first, k + 1) \in Seq(S)
          /\ Chunk(more, first, k + 1) = BlockAt(full, (q + 1) + k)
          /\ (q + 1) + k \in Nat /\ Offset((q + 1) + k) + BlockSize <= Len(full)
    BY <1>5, <2>1, ChunkIs
  <2> QED
    BY <1>8, <2>1, <2>2, SHA1Loop
<1>10. /\ Copied(filled, 0, rest) \in [1..BlockSize -> S]
       /\ Took(e, full, (q + 1) + whole, r, end, Copied(filled, 0, rest))
  <2>1. (q + 1) + whole \in Nat /\ 0 \in Nat /\ 0 + Len(rest) = r /\ 0 + Len(rest) <= BlockSize
    BY <1>2, <1>6, BlockSizeType, SMTT(30)
  <2>2. Follows(full, Offset((q + 1) + whole) + 0, rest, 0, Len(rest))
    BY <1>6
  <2>3. /\ Copied(filled, 0, rest) \in [1..BlockSize -> S]
        /\ Took(e, full, (q + 1) + whole, 0 + Len(rest), end, Copied(filled, 0, rest))
    BY <1>9, <2>1, <2>2, CopyTook
  <2> QED
    BY <2>1, <2>3
<1> QED
  BY <1>4, <1>6, <1>7, <1>8, <1>9, <1>10

LEMMA SHA1Held ==
  ASSUME NEW e, NEW S, NEW bytes \in Seq(S), NEW more \in Seq(S),
         NEW c, Held(e, S, bytes, c)
  PROVE  /\ Held(e, S, bytes \o more, SHA1Update(c, more))
         /\ SHA1Update(c, more).count = SHA1Count(c.count, Len(more))
<1>1. PICK full \in Seq(S) : full = bytes \o more
  BY ConcatProperties
<1>2. PICK n \in Nat, len \in Nat :
        /\ n = Len(bytes) /\ len = Len(more) /\ Len(full) = n + len
        /\ Follows(full, n, more, 0, len)
  <2>1. PICK n \in Nat, len \in Nat : n = Len(bytes) /\ len = Len(more)
    BY LenProperties
  <2>2. /\ Len(full) = n + len
        /\ \A i \in 1..(n + len) : full[i] = IF i <= n THEN bytes[i] ELSE more[i - n]
    BY <1>1, <2>1, ConcatProperties
  <2>3. \A i \in 1..len : full[n + i] = more[0 + i]
    <3> TAKE i \in 1..len
    <3>1. n + i \in 1..(n + len) /\ ~ n + i <= n /\ (n + i) - n = i /\ 0 + i = i
      OBVIOUS
    <3> QED
      BY <2>2, <3>1
  <2>4. n + len <= Len(full) /\ 0 + len <= Len(more)
    BY <2>1, <2>2
  <2> QED
    BY <2>1, <2>2, <2>3, <2>4 DEF Follows
<1>3. PICK q \in Nat, p \in 0..(BlockSize - 1) :
        q = n \div BlockSize /\ p = n % BlockSize /\ n = Offset(q) + p
  BY Cut
<1>13. n = Offset(q) + p /\ p \in Nat /\ Offset(q) \in Nat
  BY <1>3, OffsetType
<1>4. c \in Engines(e, S) /\ c.count[1] = Bits(n)[1] /\ Position(c) = p
  BY <1>2, <1>3, PositionOf DEF Held
<1>5. Took(e, full, q, p, c.state, c.buffer)
  <2>1. Took(e, bytes, q, p, c.state, c.buffer)
    BY <1>2, <1>3 DEF Held
  <2> QED
    BY <1>1, <2>1, TookOfMore
<1>6. PICK state \in States(e, S), buffer \in [1..BlockSize -> S], count \in Words :
        c = [state |-> state, count |-> count, buffer |-> buffer]
  BY <1>4 DEF Engines
<1>7. PICK new \in Words : new = SHA1Count(c.count, len) /\ new[1] = Bits(n + len)[1]
  <2>1. c.count \in Words
    BY <1>6
  <2> QED
    BY <1>4, <2>1, SHA1Low
<1>8. Follows(full, Offset(q) + p, more, 0, Len(more))
  BY <1>2, <1>3
<1>9. Took(e, full, q, p, state, buffer)
  BY <1>5, <1>6
<1>10. SUFFICES \E a \in Nat, r \in 0..(BlockSize - 1), end \in States(e, S),
                   last \in [1..BlockSize -> S] :
                  /\ n + len = Offset(a) + r
                  /\ SHA1Update(c, more) = [state |-> end, count |-> new, buffer |-> last]
                  /\ Took(e, full, a, r, end, last)
  <2>1. PICK a \in Nat, r \in 0..(BlockSize - 1), end \in States(e, S),
             last \in [1..BlockSize -> S] :
          /\ n + len = Offset(a) + r
          /\ SHA1Update(c, more) = [state |-> end, count |-> new, buffer |-> last]
          /\ Took(e, full, a, r, end, last)
    BY <1>10
  <2>2. (n + len) \div BlockSize = a /\ (n + len) % BlockSize = r
    BY <2>1, CutIs
  <2> QED
    BY <1>1, <1>2, <1>7, <2>1, <2>2 DEF Held, Engines
<1>11. CASE ~ Fills(p, len)
  <2>1. SHA1Update(c, more) =
          [state |-> state, count |-> new, buffer |-> Copied(buffer, p, more)]
    BY <1>2, <1>4, <1>6, <1>7, <1>11 DEF SHA1Update
  <2>2. p + len \in 0..(BlockSize - 1) /\ p \in Nat /\ p + Len(more) <= BlockSize
    BY <1>2, <1>11, BlockSizeType DEF Fills
  <2>3. /\ Copied(buffer, p, more) \in [1..BlockSize -> S]
        /\ Took(e, full, q, p + len, state, Copied(buffer, p, more))
    BY <1>2, <1>8, <1>9, <2>2, CopyTook
  <2>4. n + len = Offset(q) + (p + len)
    BY <1>13
  <2> QED
    BY <2>1, <2>2, <2>3, <2>4
<1>12. CASE Fills(p, len)
  <2>1. PICK first \in Nat : /\ first = BlockSize - p /\ p + first = BlockSize
                             /\ first <= len
    BY <1>12, BlockSizeType DEF Fills
  <2>2. PICK m \in Nat : m = len - first
    BY <2>1
  <2>3. PICK whole \in Nat, r \in 0..(BlockSize - 1) :
          whole = m \div BlockSize /\ m = Offset(whole) + r
    BY Cut
  <2>9. PICK w \in Nat : w = Offset(whole) /\ m = w + r
    BY <2>3, OffsetType
  <2>4. Len(more) = first + (Offset(whole) + r)
    <3>1. len = first + (w + r)
      BY <2>1, <2>2, <2>9
    <3> QED
      BY <1>2, <2>9, <3>1
  <2> DEFINE filled == Copied(buffer, p, SubSeq(more, 1, first))
             end == Repeat(LAMBDA s, k : SHA1Transform(s, Chunk(more, first, k)),
                           Append(state, filled), whole)
             last == Copied(filled, 0, SubSeq(more, first + Offset(whole) + 1, Len(more)))
  <2>5. /\ end \in States(e, S) /\ last \in [1..BlockSize -> S]
        /\ Took(e, full, (q + 1) + whole, r, end, last)
    <3>1. p + first = BlockSize
      BY <2>1
    <3>2. FilledTook(e, S, full, more, q, p, state, buffer, first, whole, r)
      BY <1>8, <1>9, <2>4, <3>1, SHA1Filled, Zenon
    <3> QED
      BY <3>2, Zenon DEF FilledTook
  <2>6. SHA1Update(c, more) = [state |-> end, count |-> new, buffer |-> last]
    <3>1. Fills(Position(c), Len(more))
      BY <1>2, <1>4, <1>12
    <3>2. SHA1Update(c, more) =
            [state |-> Repeat(LAMBDA s, k :
                                SHA1Transform(s, Chunk(more, BlockSize - Position(c), k)),
                              Append(c.state, Copied(c.buffer, Position(c),
                                        SubSeq(more, 1, BlockSize - Position(c)))),
                              (Len(more) - (BlockSize - Position(c))) \div BlockSize),
             count |-> SHA1Count(c.count, Len(more)),
             buffer |-> Copied(Copied(c.buffer, Position(c),
                                  SubSeq(more, 1, BlockSize - Position(c))), 0,
                               SubSeq(more, BlockSize - Position(c) +
                                 Offset((Len(more) - (BlockSize - Position(c))) \div BlockSize)
                                   + 1, Len(more)))]
      BY <3>1 DEF SHA1Update, SHA1Transform, Chunk, Offset
    <3>3. BlockSize - Position(c) = first /\ (Len(more) - first) \div BlockSize = whole
      <4>1. BlockSize - Position(c) = first /\ Len(more) - first = m
        BY <1>2, <1>4, <2>1, <2>2
      <4>2. whole = m \div BlockSize
        BY <2>3
      <4> QED
        BY <4>1, <4>2, Zenon
    <3>4. Repeat(LAMBDA s, k : SHA1Transform(s, Chunk(more, BlockSize - Position(c), k)),
                 Append(state, filled), whole) = end
      BY <3>3, Zenon DEF Repeat
    <3>5. c.state = state /\ c.buffer = buffer /\ Position(c) = p
      BY <1>4, <1>6
    <3>6. SHA1Count(c.count, Len(more)) = new
      BY <1>2, <1>7
    <3> HIDE DEF end
    <3> QED
      BY <3>2, <3>3, <3>4, <3>5, <3>6
  <2> HIDE DEF end, last
  <2>7. n + len = Offset((q + 1) + whole) + r
    <3>1. Offset(q + 1) = Offset(q) + BlockSize
      BY OffsetNext
    <3>2. Offset((q + 1) + whole) = Offset(q + 1) + Offset(whole)
      BY OffsetSum
    <3>3. PICK o \in Nat : o = Offset(q)
      BY OffsetType
    <3>4. n = o + p /\ len = first + (w + r) /\ p + first = BlockSize
      BY <1>2, <1>13, <2>1, <2>4, <2>9, <3>3
    <3>5. n + len = ((o + BlockSize) + w) + r
      BY <3>4, BlockSizeType
    <3> QED
      BY <2>9, <3>1, <3>2, <3>3, <3>5
  <2>8. (q + 1) + whole \in Nat
    OBVIOUS
  <2> QED
    BY <2>5, <2>6, <2>7, <2>8
<1> QED
  BY <1>11, <1>12

LEMMA SHA1Given ==
  ASSUME NEW e, NEW S, NEW bytes \in Seq(S), NEW more \in Seq(S), NEW c,
         Given(e, S, bytes, c), ~ Miscounts("sha1", Len(bytes), Len(more))
  PROVE  Given(e, S, bytes \o more, SHA1Update(c, more))
<1>1. PICK n \in Nat, len \in Nat : n = Len(bytes) /\ len = Len(more) /\ Len(bytes \o more) = n + len
  BY LenProperties, ConcatProperties
<1>2. /\ Held(e, S, bytes \o more, SHA1Update(c, more))
      /\ SHA1Update(c, more).count = SHA1Count(c.count, len)
  BY <1>1, SHA1Held DEF Given
<1>3. SHA1Count(Bits(n), len) = Bits(n + len)
  BY <1>1, SHA1Counts
<1> QED
  BY <1>1, <1>2, <1>3 DEF Given

-----------------------------------------------------------------------------
(* The operations of an engine *)

LEMMA EngineHeld ==
  ASSUME NEW mode, NEW S, NEW bytes \in Seq(S), NEW more \in Seq(S), NEW c,
         Held(Engine(mode), S, bytes, c),
         Engine(mode) = "md5" => Given(Engine(mode), S, bytes, c)
  PROVE  Held(Engine(mode), S, bytes \o more, EngineUpdate(mode, c, more))
<1>1. CASE Engine(mode) = "md5"
  BY <1>1, MD5Given DEF EngineUpdate, Given
<1>2. CASE Engine(mode) # "md5"
  BY <1>2, SHA1Held DEF EngineUpdate
<1> QED
  BY <1>1, <1>2

LEMMA EngineGiven ==
  ASSUME NEW mode, NEW S, NEW bytes \in Seq(S), NEW more \in Seq(S), NEW c,
         Given(Engine(mode), S, bytes, c),
         ~ Miscounts(Engine(mode), Len(bytes), Len(more))
  PROVE  Given(Engine(mode), S, bytes \o more, EngineUpdate(mode, c, more))
<1>1. Engine(mode) \in {"md5", "sha1"}
  BY DEF Engine
<1>2. CASE Engine(mode) = "md5"
  <2>1. EngineUpdate(mode, c, more) = MD5Update(c, more)
    BY <1>2 DEF EngineUpdate
  <2> QED
    BY <2>1, MD5Given
<1>3. CASE Engine(mode) = "sha1"
  <2>1. EngineUpdate(mode, c, more) = SHA1Update(c, more)
    BY <1>3 DEF EngineUpdate
  <2> QED
    BY <1>3, <2>1, SHA1Given
<1> QED
  BY <1>1, <1>2, <1>3

LEMMA InitGiven ==
  ASSUME NEW e, NEW S, NEW buffer \in [1..BlockSize -> S]
  PROVE  Given(e, S, <<>>, EngineInit(e, buffer))
<1>1. <<>> \in Seq(S) /\ Len(<<>>) = 0 /\ 0 \in Nat /\ 0 \in 0..(BlockSize - 1)
  BY BlockSizeType
<1>2. 0 \div BlockSize = 0 /\ 0 % BlockSize = 0
  BY <1>1, OffsetNext, CutIs
<1>3. Bits(0) = <<0, 0>> /\ Bits(0) \in Words
  <2>1. CountMod \in Nat \ {0} /\ 8 * 0 = 0
    BY WordsOfBlocks
  <2>2. 0 % CountMod = 0 /\ 0 \div CountMod = 0
    BY <2>1
  <2> QED
    BY <1>1, <2>1, <2>2, BitsAreWords DEF Bits
<1>4. PICK T : T = {e} \cup Seq(S)
  OBVIOUS
<1>5. <<e>> \in Seq(T) /\ Len(<<e>>) = 1 /\ <<e>>[1] = e
  BY <1>4
<1>6. Took(e, <<>>, 0, 0, <<e>>, buffer)
  BY <1>1, <1>5, OffsetNext DEF Took
<1> QED
  BY <1>1, <1>2, <1>3, <1>4, <1>5, <1>6 DEF Given, Held, Engines, States, EngineInit

\* The state of an engine is made of the whole blocks.
LEMMA TookBlocks ==
  ASSUME NEW e, NEW S, NEW bytes \in Seq(S), NEW state \in States(e, S), NEW buffer,
         NEW p, Took(e, bytes, Len(bytes) \div BlockSize, p, state, buffer)
  PROVE  state = <<e>> \o Blocks(bytes)
<1>1. PICK q \in Nat : /\ q = Len(bytes) \div BlockSize
                       /\ Offset(q) <= Len(bytes)
  <2>1. PICK q \in Nat, r \in 0..(BlockSize - 1) :
          q = Len(bytes) \div BlockSize /\ Len(bytes) = Offset(q) + r
    BY Cut, LenProperties
  <2>2. Len(bytes) = Offset(q) + r /\ Offset(q) \in Nat
    BY <2>1, OffsetType
  <2>3. Offset(q) <= Len(bytes)
    BY <2>2
  <2> QED
    BY <2>1, <2>3
<1>2. Len(state) = q + 1 /\ state[1] = e /\ \A j \in 0..(q - 1) : state[j + 2] = BlockAt(bytes, j)
  BY <1>1 DEF Took
<1> DEFINE b == [k \in 1..q |-> BlockAt(bytes, k - 1)]
<1>3. Blocks(bytes) = b
  <2>1. \A k \in 1..q : SubSeq(bytes, (k - 1) * BlockSize + 1, k * BlockSize)
                          = BlockAt(bytes, k - 1)
    <3> TAKE k \in 1..q
    <3>1. k - 1 \in Nat /\ (k - 1) + 1 = k
      OBVIOUS
    <3>2. Offset(k) = Offset(k - 1) + BlockSize
      BY <3>1, OffsetNext
    <3> QED
      BY <3>2 DEF BlockAt, Offset
  <2> QED
    BY <1>1, <2>1 DEF Blocks
<1>4. b \in Seq(Seq(S)) /\ Len(b) = q
  <2>1. \A k \in 1..q : BlockAt(bytes, k - 1) \in Seq(S)
    <3> TAKE k \in 1..q
    <3>1. k - 1 \in 0..(q - 1) /\ k - 1 \in Nat
      OBVIOUS
    <3>2. Offset(k - 1) + BlockSize <= Offset(q)
      BY <3>1, OffsetBefore
    <3>3. Offset(k - 1) + BlockSize <= Len(bytes)
      BY <1>1, <3>1, <3>2, OffsetType, BlockSizeType, LenProperties
    <3> QED
      BY <3>1, <3>3, BlockOf
  <2>2. b \in [1..q -> Seq(S)]
    BY <2>1
  <2> HIDE DEF b
  <2> QED
    BY <2>2, FunIsSeq
<1>5. \A k \in 1..q : b[k] = state[k + 1]
  <2> TAKE k \in 1..q
  <2>1. PICK j \in 0..(q - 1) : j = k - 1 /\ j + 2 = k + 1
    OBVIOUS
  <2> QED
    BY <1>2, <2>1
<1> HIDE DEF b
<1>6. PICK T : T = {e} \cup Seq(S)
  OBVIOUS
<1>7. PICK t \in Seq(T) : t = <<e>> \o b /\ Len(t) = q + 1 /\ t[1] = e
                          /\ \A k \in 1..q : t[k + 1] = b[k]
  <2>1. <<e>> \in Seq(T) /\ Len(<<e>>) = 1 /\ <<e>>[1] = e /\ b \in Seq(T)
    BY <1>4, <1>6
  <2>2. /\ <<e>> \o b \in Seq(T) /\ Len(<<e>> \o b) = 1 + q
        /\ \A i \in 1..(1 + q) : (<<e>> \o b)[i] = IF i <= 1 THEN <<e>>[i] ELSE b[i - 1]
    BY <1>4, <2>1, ConcatProperties
  <2>3. (<<e>> \o b)[1] = e
    BY <2>1, <2>2
  <2>4. \A k \in 1..q : (<<e>> \o b)[k + 1] = b[k]
    <3> TAKE k \in 1..q
    <3>1. k + 1 \in 1..(1 + q) /\ ~ k + 1 <= 1 /\ (k + 1) - 1 = k
      OBVIOUS
    <3> QED
      BY <2>2, <3>1
  <2>5. Len(<<e>> \o b) = q + 1
    BY <2>2
  <2> QED
    BY <2>2, <2>3, <2>4, <2>5, Zenon
<1>8. ASSUME NEW i \in 1..(q + 1) PROVE t[i] = state[i]
  <2>1. CASE i = 1
    BY <1>2, <1>7, <2>1
  <2>2. CASE i # 1
    <3>1. PICK k \in 1..q : i = k + 1
      <4>1. i - 1 \in 1..q /\ i = (i - 1) + 1
        BY <2>2
      <4> QED
        BY <4>1
    <3> QED
      BY <1>5, <1>7, <3>1
  <2> QED
    BY <2>1, <2>2
<1>9. state \in Seq(T)
  BY <1>6 DEF States
<1>10. t = state
  BY <1>2, <1>7, <1>8, <1>9, SeqEqual
<1> QED
  BY <1>3, <1>7, <1>10

-----------------------------------------------------------------------------
(* The padding *)

\* The number of zeros in the padding of n bytes, and where the length begins.
ZerosOf(n) == (BlockSize - ((n + 1 + LengthSize) % BlockSize)) % BlockSize
Room       == BlockSize - LengthSize

LEMMA RoomType == Room \in 1..(BlockSize - 1) /\ Room + LengthSize = BlockSize
                  /\ LengthSize \in Nat
BY YdigestAssumption DEF Room

LEMMA ZerosEnd ==
  ASSUME NEW n \in Nat
  PROVE  \E z \in 0..(BlockSize - 1), a \in Nat :
           /\ z = ZerosOf(n)
           /\ n + (1 + z) = Offset(a) + Room
           /\ 1 + z = IF n % BlockSize < Room THEN Room - (n % BlockSize)
                      ELSE BlockSize + Room - (n % BlockSize)
<1>1. PICK b \in Nat, l \in Nat, room \in Nat :
        /\ b = BlockSize /\ l = LengthSize /\ room = Room
        /\ room + l = b /\ room > 0 /\ l > 0
  BY RoomType, BlockSizeType, YdigestAssumption
<1>2. PICK q \in Nat, p \in 0..(BlockSize - 1) :
        p = n % BlockSize /\ q = n \div BlockSize /\ n = Offset(q) + p
  BY Cut
<1>3. PICK o \in Nat : o = Offset(q) /\ n = o + p /\ Offset(q + 1) = o + b /\ p \in Nat /\ p < b
                       /\ q + 1 \in Nat
  <2>1. Offset(q) \in Nat /\ Offset(q + 1) = Offset(q) + BlockSize /\ n = Offset(q) + p
    BY <1>2, OffsetType, OffsetNext
  <2>2. p \in Nat /\ p < BlockSize
    BY BlockSizeType
  <2> QED
    BY <1>1, <2>1, <2>2
<1>4. ASSUME NEW x \in Nat, x = n + 1 + l, NEW k \in Nat, NEW m \in 0..(BlockSize - 1),
             x = Offset(k) + m, NEW z \in 0..(BlockSize - 1), z = (b - m) % b
      PROVE  z = ZerosOf(n)
  <2>1. x % BlockSize = m
    BY <1>4, CutIs
  <2> QED
    BY <1>1, <1>4, <2>1 DEF ZerosOf
<1>5. CASE p < room
  <2>1. PICK z \in 0..(BlockSize - 1) : z = room - p - 1 /\ z \in 0..(b - 1)
    BY <1>1, <1>3, <1>5
  <2>2. n + (1 + z) = o + room /\ 1 + z = room - p
    BY <1>1, <1>3, <2>1
  <2>3. z = ZerosOf(n)
    <3>1. CASE z = 0
      <4>1. n + 1 + l = Offset(q + 1) + 0 /\ n + 1 + l \in Nat
        BY <1>1, <1>3, <2>1, <3>1
      <4>2. 0 \in 0..(BlockSize - 1) /\ z = (b - 0) % b
        BY <1>1, <3>1
      <4> QED
        BY <1>3, <1>4, <4>1, <4>2
    <3>2. CASE z # 0
      <4>1. PICK m \in 0..(BlockSize - 1) : m = p + 1 + l /\ b - m = z
        BY <1>1, <1>3, <2>1, <3>2
      <4>2. n + 1 + l = Offset(q) + m /\ n + 1 + l \in Nat
        BY <1>1, <1>3, <4>1
      <4>3. z = (b - m) % b
        BY <1>1, <2>1, <4>1
      <4> QED
        BY <1>3, <1>4, <4>2, <4>3
    <3> QED
      BY <3>1, <3>2
  <2>4. n % BlockSize = p
    BY <1>2
  <2> QED
    BY <1>1, <1>3, <1>5, <2>2, <2>3, <2>4
<1>6. CASE p >= room
  <2>1. PICK z \in 0..(BlockSize - 1) : z = b + room - p - 1 /\ z \in 0..(b - 1) /\ z # 0
    BY <1>1, <1>3, <1>6
  <2>2. n + (1 + z) = (o + b) + room /\ 1 + z = b + room - p
    BY <1>1, <1>3, <2>1
  <2>3. z = ZerosOf(n)
    <3>1. PICK m \in 0..(BlockSize - 1) : m = p + 1 + l - b /\ b - m = z
      BY <1>1, <1>3, <1>6, <2>1
    <3>2. n + 1 + l = Offset(q + 1) + m /\ n + 1 + l \in Nat
      BY <1>1, <1>3, <3>1
    <3>3. z = (b - m) % b
      BY <1>1, <2>1, <3>1
    <3> QED
      BY <1>3, <1>4, <3>2, <3>3
  <2>4. n % BlockSize = p /\ ~ p < room
    BY <1>2, <1>6
  <2> QED
    BY <1>1, <1>3, <2>2, <2>3, <2>4
<1> QED
  BY <1>1, <1>3, <1>5, <1>6

\* The bytes that are not of a message.
Marks == {Undefined, PaddingEnd, Zero}
           \cup ({"ipad", "opad"} \X {0} \X (1..BlockSize))
           \cup ({"length"} \X Words \X (1..LengthSize))

Zeros(k) == [i \in 1..k |-> Zero]

LEMMA MarksAre ==
  ASSUME NEW S, Marks \subseteq S
  PROVE  /\ Undefined \in S /\ <<PaddingEnd>> \in Seq(S) /\ <<Zero>> \in Seq(S)
         /\ \A k \in Nat : Zeros(k) \in Seq(S) /\ Len(Zeros(k)) = k
         /\ \A count \in Words : LengthField(count) \in Seq(S) /\ Len(LengthField(count)) = LengthSize
         /\ k_ipad \in Seq(S) /\ Len(k_ipad) = BlockSize
         /\ k_opad \in Seq(S) /\ Len(k_opad) = BlockSize
<1>1. Undefined \in S /\ PaddingEnd \in S /\ Zero \in S
  BY DEF Marks
<1>2. \A k \in Nat : Zeros(k) \in Seq(S) /\ Len(Zeros(k)) = k
  <2> TAKE k \in Nat
  <2>1. Zeros(k) \in [1..k -> S]
    BY <1>1 DEF Zeros
  <2> QED
    BY <2>1, FunIsSeq
<1>3. \A count \in Words : LengthField(count) \in Seq(S) /\ Len(LengthField(count)) = LengthSize
  <2> TAKE count \in Words
  <2>1. \A i \in 1..LengthSize : <<"length", count, i>> \in S
    BY DEF Marks
  <2>2. LengthField(count) \in [1..LengthSize -> S]
    BY <2>1 DEF LengthField
  <2> QED
    BY <2>2, RoomType, FunIsSeq
<1>4. k_ipad \in Seq(S) /\ Len(k_ipad) = BlockSize
  <2>1. \A i \in 1..BlockSize : <<"ipad", 0, i>> \in S
    BY DEF Marks
  <2>2. k_ipad \in [1..BlockSize -> S]
    BY <2>1 DEF k_ipad
  <2> QED
    BY <2>2, BlockSizeType, FunIsSeq
<1>5. k_opad \in Seq(S) /\ Len(k_opad) = BlockSize
  <2>1. \A i \in 1..BlockSize : <<"opad", 0, i>> \in S
    BY DEF Marks
  <2>2. k_opad \in [1..BlockSize -> S]
    BY <2>1 DEF k_opad
  <2> QED
    BY <2>2, BlockSizeType, FunIsSeq
<1> QED
  BY <1>1, <1>2, <1>3, <1>4, <1>5

\* The padding that MD5 adds at once.
LEMMA PaddingIs ==
  ASSUME NEW z \in Nat
  PROVE  [i \in 1..(1 + z) |-> IF i = 1 THEN PaddingEnd ELSE Zero] = <<PaddingEnd>> \o Zeros(z)
<1> DEFINE f == [i \in 1..(1 + z) |-> IF i = 1 THEN PaddingEnd ELSE Zero]
<1>1. PICK T : T = {PaddingEnd, Zero}
  OBVIOUS
<1>2. f \in Seq(T) /\ Len(f) = 1 + z
  <2>1. f \in [1..(1 + z) -> T] /\ 1 + z \in Nat
    BY <1>1
  <2> HIDE DEF f
  <2> QED
    BY <2>1, FunIsSeq
<1>3. PICK one \in Seq(T) : one = <<PaddingEnd>> /\ Len(one) = 1 /\ one[1] = PaddingEnd
  <2>1. PaddingEnd \in T
    BY <1>1
  <2>2. <<PaddingEnd>> \in Seq(T) /\ Len(<<PaddingEnd>>) = 1 /\ <<PaddingEnd>>[1] = PaddingEnd
    BY <2>1
  <2> QED
    BY <2>2, Zenon
<1>4. PICK zs \in Seq(T) : zs = Zeros(z) /\ Len(zs) = z /\ \A i \in 1..z : zs[i] = Zero
  <2>1. Zeros(z) \in [1..z -> T] /\ \A i \in 1..z : Zeros(z)[i] = Zero
    BY <1>1 DEF Zeros
  <2> QED
    BY <2>1, FunIsSeq
<1>5. /\ one \o zs \in Seq(T) /\ Len(one \o zs) = 1 + z
      /\ \A i \in 1..(1 + z) : (one \o zs)[i] = IF i <= 1 THEN one[i] ELSE zs[i - 1]
  <2>1. /\ one \o zs \in Seq(T) /\ Len(one \o zs) = Len(one) + Len(zs)
        /\ \A i \in 1..(Len(one) + Len(zs)) :
             (one \o zs)[i] = IF i <= Len(one) THEN one[i] ELSE zs[i - Len(one)]
    BY ConcatProperties
  <2> QED
    BY <1>3, <1>4, <2>1
<1>6. \A i \in 1..(1 + z) : f[i] = (one \o zs)[i]
  <2> TAKE i \in 1..(1 + z)
  <2>1. CASE i = 1
    BY <1>3, <1>5, <2>1
  <2>2. CASE i # 1
    <3>1. ~ i <= 1 /\ i - 1 \in 1..z
      BY <2>2
    <3> QED
      BY <1>4, <1>5, <2>2, <3>1
  <2> QED
    BY <2>1, <2>2
<1> HIDE DEF f
<1>7. f = one \o zs
  BY <1>2, <1>5, <1>6, SeqEqual
<1> QED
  BY <1>3, <1>4, <1>7 DEF f

LEMMA Associates ==
  ASSUME NEW S, NEW a \in Seq(S), NEW b \in Seq(S), NEW c \in Seq(S)
  PROVE  (a \o b) \o c = a \o (b \o c)
<1>1. /\ a \o b \in Seq(S) /\ b \o c \in Seq(S)
      /\ Len(a \o b) = Len(a) + Len(b) /\ Len(b \o c) = Len(b) + Len(c)
  BY ConcatProperties
<1> QED
  BY <1>1, ConcatAssociative

LEMMA PaddedIs ==
  ASSUME NEW S, Marks \subseteq S, NEW bytes \in Seq(S), NEW n \in Nat, n = Len(bytes),
         NEW z \in Nat, z = ZerosOf(n)
  PROVE  /\ bytes \o <<PaddingEnd>> \in Seq(S) /\ Len(bytes \o <<PaddingEnd>>) = n + 1
         /\ (bytes \o <<PaddingEnd>>) \o Zeros(z) \in Seq(S)
         /\ Len((bytes \o <<PaddingEnd>>) \o Zeros(z)) = n + (1 + z)
         /\ (bytes \o <<PaddingEnd>>) \o Zeros(z) = bytes \o (<<PaddingEnd>> \o Zeros(z))
         /\ <<PaddingEnd>> \o Zeros(z) \in Seq(S)
         /\ Padded(bytes) = ((bytes \o <<PaddingEnd>>) \o Zeros(z)) \o LengthField(Bits(n))
<1>1. PICK one \in Seq(S), zs \in Seq(S) :
        one = <<PaddingEnd>> /\ Len(one) = 1 /\ zs = Zeros(z) /\ Len(zs) = z
  BY MarksAre
<1>2. bytes \o one \in Seq(S) /\ Len(bytes \o one) = n + 1
  BY <1>1, ConcatProperties
<1>3. (bytes \o one) \o zs \in Seq(S) /\ Len((bytes \o one) \o zs) = (n + 1) + z
  BY <1>1, <1>2, ConcatProperties
<1>4. one \o zs \in Seq(S) /\ (bytes \o one) \o zs = bytes \o (one \o zs)
  <2>1. one \o zs \in Seq(S)
    BY ConcatProperties, Zenon
  <2>2. (bytes \o one) \o zs = bytes \o (one \o zs)
    BY Associates, SMTT(30)
  <2> QED
    BY <2>1, <2>2, Zenon
<1>5. Padded(bytes) = ((bytes \o one) \o zs) \o LengthField(Bits(n))
  BY <1>1 DEF Padded, ZerosOf, Zeros
<1>6. (n + 1) + z = n + (1 + z)
  BY ONLY n \in Nat, z \in Nat, SMT
<1> QED
  BY <1>1, <1>2, <1>3, <1>4, <1>5, <1>6

\* MD5Final transforms the blocks of the padded bytes.
LEMMA MD5Finished ==
  ASSUME NEW e, NEW S, Marks \subseteq S, NEW bytes \in Seq(S), NEW c, Given(e, S, bytes, c)
  PROVE  /\ MD5Final(c) \in Engines(e, S) /\ MD5Final(c).state[1] = e
         /\ MD5Final(c).state = <<e>> \o Blocks(Padded(bytes))
<1>1. PICK n \in Nat : n = Len(bytes)
  BY LenProperties
<1>2. PICK z \in 0..(BlockSize - 1), a \in Nat :
        /\ z = ZerosOf(n)
        /\ n + (1 + z) = Offset(a) + Room
        /\ 1 + z = IF n % BlockSize < Room THEN Room - (n % BlockSize)
                   ELSE BlockSize + Room - (n % BlockSize)
  BY ZerosEnd
<1>3. z \in Nat /\ z = ZerosOf(n) /\ n + (1 + z) = Offset(a) + Room
  BY <1>2
<1>4. c \in Engines(e, S) /\ c.count = Bits(n) /\ Position(c) = n % BlockSize /\ Bits(n) \in Words
  BY <1>1, PositionOf, BitsAreWords DEF Given, Held
<1>5. PICK pad \in Seq(S), text \in Seq(S) :
        /\ pad = <<PaddingEnd>> \o Zeros(z)
        /\ text = bytes \o pad /\ Len(text) = n + (1 + z)
        /\ Padded(bytes) = text \o LengthField(Bits(n))
  <2>1. <<PaddingEnd>> \o Zeros(z) \in Seq(S)
    BY <1>1, <1>3, PaddedIs
  <2>2. /\ (bytes \o <<PaddingEnd>>) \o Zeros(z) \in Seq(S)
        /\ Len((bytes \o <<PaddingEnd>>) \o Zeros(z)) = n + (1 + z)
        /\ (bytes \o <<PaddingEnd>>) \o Zeros(z) = bytes \o (<<PaddingEnd>> \o Zeros(z))
    BY <1>1, <1>3, PaddedIs, SMTT(30)
  <2>3. Padded(bytes) = ((bytes \o <<PaddingEnd>>) \o Zeros(z)) \o LengthField(Bits(n))
    BY <1>1, <1>3 DEF Padded, ZerosOf, Zeros
  <2> QED
    BY <2>1, <2>2, <2>3, Zenon
<1>6. pad = [i \in 1..(1 + z) |-> IF i = 1 THEN PaddingEnd ELSE Zero]
  BY <1>3, <1>5, PaddingIs
<1>7. PICK padded : /\ padded = MD5Update(c, pad)
                    /\ Given(e, S, text, padded)
  BY <1>5, MD5Given
<1>8. PICK state \in States(e, S), count \in Words, buffer \in [1..BlockSize -> S] :
        padded = [state |-> state, count |-> count, buffer |-> buffer]
  BY <1>7 DEF Given, Held, Engines
<1> DEFINE last == SubSeq(buffer, 1, Room) \o LengthField(Bits(n))
<1>9. MD5Final(c) = [state |-> Append(state, last), count |-> count, buffer |-> buffer]
  <2>1. MD5Final(c) = [padded EXCEPT !.state = Append(@, SubSeq(padded.buffer, 1, Room) \o
                                                       LengthField(c.count))]
    BY <1>2, <1>4, <1>6, <1>7 DEF MD5Final, MD5Transform, Room
  <2> QED
    BY <1>4, <1>8, <2>1
<1>10. PICK room \in Nat, len \in Nat : /\ room = Room /\ len = LengthSize /\ room + len = BlockSize
                                        /\ room \in 0..(BlockSize - 1) /\ room <= BlockSize
  BY RoomType, BlockSizeType
<1>11. PICK field \in Seq(S) : field = LengthField(Bits(n)) /\ Len(field) = len
  BY <1>4, <1>10, MarksAre
<1>12. PICK full \in Seq(S) :
         /\ full = Padded(bytes) /\ full = text \o field
         /\ Len(full) = (n + (1 + z)) + len
         /\ \A i \in 1..len : full[(n + (1 + z)) + i] = field[i]
  <2>1. PICK full \in Seq(S) : full = text \o field
    BY ConcatProperties
  <2>2. PICK t \in Nat : t = Len(text) /\ t = n + (1 + z)
    BY <1>5, LenProperties
  <2>3. Len(text \o field) = t + len /\ \A i \in 1..len : (text \o field)[t + i] = field[i]
    <3>1. Joined(text \o field, S, text, field)
      BY ConcatIs
    <3> QED
      BY <1>11, <2>2, <3>1 DEF Joined
  <2>4. full = Padded(bytes)
    BY <1>5, <1>11, <2>1
  <2> QED
    BY <2>1, <2>2, <2>3, <2>4
<1>13. PICK o \in Nat : /\ o = Offset(a) /\ n + (1 + z) = o + room
                        /\ Len(full) = Offset(a + 1) + 0
                        /\ Len(full) = o + BlockSize
  <2>1. PICK o \in Nat : o = Offset(a)
    BY OffsetType
  <2>2. n + (1 + z) = o + room
    BY <1>3, <1>10, <2>1
  <2>3. Len(full) = o + BlockSize
    <3>1. Len(full) = (o + room) + len
      BY <1>12, <2>2
    <3> QED
      BY <1>10, <3>1
  <2>4. Offset(a + 1) = o + BlockSize
    BY <2>1, OffsetNext
  <2>5. (o + BlockSize) + 0 = o + BlockSize
    BY BlockSizeType
  <2> QED
    BY <2>1, <2>2, <2>3, <2>4, <2>5
<1>14. Took(e, full, a, room, state, buffer)
  <2>1. Len(text) = Offset(a) + room
    BY <1>5, <1>13
  <2>2. Len(text) \div BlockSize = a /\ Len(text) % BlockSize = room
    BY <1>10, <2>1, CutIs, LenProperties
  <2>3. Took(e, text, a, room, state, buffer)
    BY <1>7, <1>8, <2>2 DEF Given, Held
  <2> QED
    BY <1>12, <2>3, TookOfMore
<1>15. last \in Seq(S) /\ last = BlockAt(full, a)
  <2>1. buffer \in Seq(S) /\ Len(buffer) = BlockSize
    BY BlockSizeType, FunIsSeq
  <2>2. PICK front \in Seq(S) : /\ front = SubSeq(buffer, 1, room) /\ Len(front) = room
                                /\ \A i \in 1..room : front[i] = buffer[i]
    <3>1. room <= Len(buffer) /\ 0 <= room /\ room - 0 = room /\ 0 + 1 = 1
      BY <1>10, <2>1
    <3>2. /\ SubSeq(buffer, 0 + 1, room) \in Seq(S)
          /\ Len(SubSeq(buffer, 0 + 1, room)) = room - 0
          /\ \A i \in 1..(room - 0) : SubSeq(buffer, 0 + 1, room)[i] = buffer[0 + i]
      BY <2>1, <3>1, SliceOf
    <3>3. \A i \in 1..room : 0 + i = i
      OBVIOUS
    <3> QED
      BY <3>1, <3>2, <3>3
  <2>3. PICK block \in Seq(S) :
          /\ block = front \o field /\ Len(block) = BlockSize
          /\ \A i \in 1..room : block[i] = front[i]
          /\ \A i \in 1..len : block[room + i] = field[i]
    <3>1. /\ front \o field \in Seq(S) /\ Len(front \o field) = room + len
          /\ \A i \in 1..room : (front \o field)[i] = front[i]
          /\ \A i \in 1..len : (front \o field)[room + i] = field[i]
      <4>1. Joined(front \o field, S, front, field)
        BY ConcatIs
      <4> QED
        BY <1>11, <2>2, <4>1 DEF Joined
    <3> QED
      BY <1>10, <3>1
  <2>4. \A i \in 1..BlockSize : block[i] = full[o + i]
    <3> TAKE i \in 1..BlockSize
    <3>1. CASE i <= room
      <4>1. i \in 1..room
        BY <3>1
      <4>2. buffer[i] = full[Offset(a) + i]
        BY <1>14, <4>1 DEF Took
      <4> QED
        BY <1>13, <2>2, <2>3, <4>1, <4>2
    <3>2. CASE ~ i <= room
      <4>1. PICK j \in 1..len : i = room + j /\ o + i = (o + room) + j
        <5>1. i - room \in 1..len /\ i = room + (i - room) /\ o + i = (o + room) + (i - room)
          BY <1>10, <3>2, BlockSizeType
        <5> QED
          BY <5>1
      <4>2. full[(n + (1 + z)) + j] = field[j]
        BY <1>12
      <4> QED
        BY <1>13, <2>3, <4>1, <4>2
    <3> QED
      BY <3>1, <3>2
  <2>5. Offset(a) + BlockSize <= Len(full) /\ \A i \in 1..BlockSize : block[i] = full[Offset(a) + i]
    <3>1. Offset(a) + BlockSize <= Len(full)
      BY ONLY <1>13, BlockSizeType, SMTT(30)
    <3> QED
      BY <1>13, <2>4, <3>1, Zenon
  <2>6. block = BlockAt(full, a)
    <3>1. Len(block) = BlockSize
      BY <2>3
    <3> QED
      BY <2>5, <3>1, IsBlock, Zenon
  <2> QED
    BY <1>10, <1>11, <2>2, <2>3, <2>6
<1> HIDE DEF last
<1>16. /\ Append(state, last) \in States(e, S)
       /\ Took(e, full, a + 1, 0, Append(state, last), buffer)
  <2>1. Offset(a) + BlockSize <= Len(full)
    BY <1>13, BlockSizeType, SMTT(30)
  <2> QED
    BY <1>10, <1>14, <1>15, <2>1, TookBlock
<1>17. Append(state, last) = <<e>> \o Blocks(full)
  <2>1. Len(full) \div BlockSize = a + 1
    <3>1. 0 \in 0..(BlockSize - 1) /\ a + 1 \in Nat /\ Len(full) \in Nat
      BY BlockSizeType, LenProperties
    <3> QED
      BY <1>13, <3>1, CutIs, SMTT(30)
  <2> QED
    BY <1>16, <2>1, TookBlocks
<1> QED
  BY <1>9, <1>12, <1>16, <1>17 DEF Engines, Took

LEMMA ZerosMore ==
  ASSUME NEW S, Marks \subseteq S, NEW text \in Seq(S), NEW k \in Nat
  PROVE  /\ text \o Zeros(k) \in Seq(S) /\ Len(text \o Zeros(k)) = Len(text) + k
         /\ (text \o Zeros(k)) \o <<Zero>> = text \o Zeros(k + 1)
<1>1. PICK zs \in Seq(S), one \in Seq(S), more \in Seq(S) :
        /\ zs = Zeros(k) /\ Len(zs) = k /\ \A i \in 1..k : zs[i] = Zero
        /\ one = <<Zero>> /\ Len(one) = 1 /\ one[1] = Zero
        /\ more = Zeros(k + 1) /\ Len(more) = k + 1 /\ \A i \in 1..(k + 1) : more[i] = Zero
  <2>1. k + 1 \in Nat /\ <<Zero>> \in Seq(S) /\ Len(<<Zero>>) = 1 /\ <<Zero>>[1] = Zero
    BY MarksAre
  <2>2. Zeros(k) \in Seq(S) /\ Len(Zeros(k)) = k /\ Zeros(k + 1) \in Seq(S)
        /\ Len(Zeros(k + 1)) = k + 1
    BY <2>1, MarksAre
  <2>3. (\A i \in 1..k : Zeros(k)[i] = Zero) /\ (\A i \in 1..(k + 1) : Zeros(k + 1)[i] = Zero)
    BY DEF Zeros
  <2> QED
    BY <2>1, <2>2, <2>3, Zenon
<1>2. Joined(zs \o one, S, zs, one)
  BY ConcatIs
<1>3. \A i \in 1..(k + 1) : (zs \o one)[i] = more[i]
  <2> TAKE i \in 1..(k + 1)
  <2>1. CASE i \in 1..k
    BY <1>1, <1>2, <2>1 DEF Joined
  <2>2. CASE i = k + 1
    <3>1. 1 \in 1..Len(one) /\ Len(zs) + 1 = k + 1
      BY <1>1
    <3>2. (zs \o one)[Len(zs) + 1] = one[1]
      BY <1>2, <3>1 DEF Joined
    <3> QED
      BY <1>1, <2>2, <3>1, <3>2
  <2>3. i \in 1..k \/ i = k + 1
    OBVIOUS
  <2> QED
    BY <2>1, <2>2, <2>3, Zenon
<1>4. zs \o one = more
  <2>1. PICK t \in Seq(S) : t = zs \o one /\ Len(t) = k + 1
    BY <1>1, <1>2 DEF Joined
  <2>2. Len(t) = Len(more) /\ \A i \in 1..Len(t) : t[i] = more[i]
    BY <1>1, <1>3, <2>1
  <2> QED
    BY <2>1, <2>2, SeqEqual
<1>5. (text \o zs) \o one = text \o more
  <2>1. (text \o zs) \o one = text \o (zs \o one)
    BY ConcatAssociative
  <2> QED
    BY <1>4, <2>1, Zenon
<1>6. Joined(text \o zs, S, text, zs)
  BY ConcatIs
<1> QED
  BY <1>1, <1>5, <1>6 DEF Joined

\* No block begins within another one.
LEMMA NotWithin ==
  ASSUME NEW a \in Nat, NEW b \in Nat, Offset(b) < Offset(a), Offset(a) < Offset(b) + BlockSize
  PROVE  FALSE
<1>1. PICK x \in Nat, y \in Nat : x = Offset(a) /\ y = Offset(b)
  BY OffsetType
<1>2. CASE b < a
  <2>1. b \in 0..(a - 1)
    BY <1>2
  <2> QED
    BY <1>1, <2>1, OffsetBefore, BlockSizeType
<1>3. CASE a < b
  <2>1. a \in 0..(b - 1)
    BY <1>3
  <2> QED
    BY <1>1, <2>1, OffsetBefore, BlockSizeType
<1> QED
  BY <1>1, <1>2, <1>3

\* A turn of the loop of SHA1Final, and the loop.
ZeroAdded(d) == IF Position(d) = BlockSize - LengthSize THEN d ELSE SHA1Update(d, <<Zero>>)

LEMMA ZerosAdded ==
  ASSUME NEW e, NEW S, Marks \subseteq S, NEW text \in Seq(S), NEW n \in Nat, n = Len(text),
         NEW z \in 0..(BlockSize - 1), NEW a \in Nat, n + z = Offset(a) + Room,
         NEW x, Held(e, S, text \o Zeros(0), x)
  PROVE  Held(e, S, text \o Zeros(z), Repeat(LAMBDA d, i : ZeroAdded(d), x, BlockSize))
<1> DEFINE R == {d \in Engines(e, S) : \E k \in Nat : Held(e, S, text \o Zeros(k), d)}
           G == [p \in (1..BlockSize) \X R |-> ZeroAdded(p[2])]
           Turns(g) == [i \in 0..BlockSize |-> IF i = 0 THEN x ELSE ZeroAdded(g[i - 1])]
           run == CHOOSE g : g = Turns(g)
<1>1. ASSUME NEW d, NEW k \in Nat, Held(e, S, text \o Zeros(k), d)
      PROVE  /\ Held(e, S, text \o Zeros(k + 1), SHA1Update(d, <<Zero>>))
             /\ d \in R /\ SHA1Update(d, <<Zero>>) \in R
             /\ Position(d) = (n + k) % BlockSize
  <2>1. PICK t \in Seq(S) : t = text \o Zeros(k) /\ Len(t) = n + k
                            /\ t \o <<Zero>> = text \o Zeros(k + 1)
    <3>1. /\ text \o Zeros(k) \in Seq(S) /\ Len(text \o Zeros(k)) = Len(text) + k
          /\ (text \o Zeros(k)) \o <<Zero>> = text \o Zeros(k + 1)
      BY ZerosMore, ZenonT(60)
    <3> QED
      BY <3>1, Zenon
  <2>2. <<Zero>> \in Seq(S) /\ Len(<<Zero>>) = 1
    BY MarksAre
  <2>4. Held(e, S, t \o <<Zero>>, SHA1Update(d, <<Zero>>))
    BY <1>1, <2>1, <2>2, SHA1Held
  <2>5. d \in Engines(e, S) /\ SHA1Update(d, <<Zero>>) \in Engines(e, S) /\ k + 1 \in Nat
    BY <1>1, <2>4 DEF Held
  <2>6. d.count[1] = Bits(n + k)[1] /\ n + k \in Nat
    BY <1>1, <2>1 DEF Held
  <2>7. Position(d) = (n + k) % BlockSize
    BY <2>6, PositionOf
  <2> QED
    BY <1>1, <2>1, <2>4, <2>5, <2>7
<1>2. x \in R /\ G \in [(1..BlockSize) \X R -> R]
  <2>1. x \in R
    BY <1>1
  <2>2. \A d \in R : ZeroAdded(d) \in R
    BY <1>1 DEF ZeroAdded
  <2> HIDE DEF R
  <2> QED
    BY <2>1, <2>2
<1>3. \E g : g = Turns(g)
  <2> HIDE DEF G, R
  <2>1. PICK f : Loops(R, x, BlockSize, G, f)
    BY <1>2, BlockSizeType, LoopExists
  <2>2. f \in [0..BlockSize -> R] /\ f[0] = x /\ \A i \in 1..BlockSize : f[i] = G[<<i, f[i - 1]>>]
    BY <2>1 DEF Loops
  <2>3. \A i \in 1..BlockSize : f[i] = ZeroAdded(f[i - 1])
    <3> TAKE i \in 1..BlockSize
    <3>1. i - 1 \in 0..BlockSize
      BY BlockSizeType
    <3>2. f[i - 1] \in R
      BY <2>2, <3>1
    <3> QED
      BY <2>2, <3>2 DEF G
  <2>4. f = Turns(f)
    BY <2>2, <2>3, BlockSizeType
  <2> QED
    BY <2>4
<1>4. run = Turns(run)
  BY <1>3
<1>5. Repeat(LAMBDA d, i : ZeroAdded(d), x, BlockSize) = run[BlockSize]
  BY DEF Repeat
<1> HIDE DEF run
<1>6. run[0] = x /\ \A i \in 1..BlockSize : run[i] = ZeroAdded(run[i - 1])
  BY <1>4, BlockSizeType
<1> HIDE DEF R, G
<1> DEFINE P == {i \in 0..BlockSize : \E j \in 0..z : (j = i \/ j = z) /\
                                          Held(e, S, text \o Zeros(j), run[i])}
<1>7. 0 \in P
  BY <1>6, BlockSizeType
<1>8. ASSUME NEW i \in 0..(BlockSize - 1), i \in P PROVE i + 1 \in P
  <2>1. PICK j \in 0..z : (j = i \/ j = z) /\ Held(e, S, text \o Zeros(j), run[i])
    BY <1>8
  <2>2. /\ i + 1 \in 1..BlockSize /\ i + 1 \in 0..BlockSize /\ (i + 1) - 1 = i
        /\ j \in Nat /\ n + j \in Nat
    BY BlockSizeType
  <2>3. run[i + 1] = ZeroAdded(run[i])
    BY <1>6, <2>2
  <2>4. Position(run[i]) = (n + j) % BlockSize
    BY <1>1, <2>1, <2>2
  <2>5. Room \in 0..(BlockSize - 1) /\ Room = BlockSize - LengthSize /\ Room \in Nat
    BY RoomType DEF Room
  <2>6. CASE j = z
    <3>1. (n + j) % BlockSize = Room
      BY <2>2, <2>5, <2>6, CutIs
    <3>2. run[i + 1] = run[i]
      BY <2>3, <2>4, <2>5, <3>1 DEF ZeroAdded
    <3> QED
      BY <2>1, <2>2, <2>6, <3>2
  <2>7. CASE j # z
    <3>1. (n + j) % BlockSize # Room
      <4>1. PICK b \in Nat, r \in 0..(BlockSize - 1) : r = (n + j) % BlockSize /\ n + j = Offset(b) + r
        BY <2>2, Cut
      <4>2. PICK u \in Nat, v \in Nat : u = Offset(a) /\ v = Offset(b)
        BY OffsetType
      <4>3. n + j = v + r /\ n + z = u + Room
        BY <4>1, <4>2
      <4>4. ASSUME r = Room PROVE FALSE
        <5>1. v < u /\ u < v + BlockSize
          BY <2>1, <2>2, <2>5, <2>7, <4>3, <4>4, BlockSizeType
        <5> QED
          BY <4>2, <5>1, NotWithin
      <4> QED
        BY <4>1, <4>4
    <3>2. run[i + 1] = SHA1Update(run[i], <<Zero>>)
      BY <2>3, <2>4, <2>5, <3>1 DEF ZeroAdded
    <3>3. Held(e, S, text \o Zeros(j + 1), run[i + 1])
      BY <1>1, <2>1, <2>2, <3>2
    <3>4. j + 1 \in 0..z /\ j = i
      BY <2>1, <2>7
    <3> QED
      BY <2>2, <3>3, <3>4
  <2> QED
    BY <2>6, <2>7
<1> HIDE DEF P
<1>9. \A i \in 0..BlockSize : i \in P
  BY <1>7, <1>8, BlockSizeType, UpTo
<1>10. PICK j \in 0..z : /\ j = BlockSize \/ j = z
                         /\ Held(e, S, text \o Zeros(j), run[BlockSize])
  <2>1. BlockSize \in P
    BY <1>9, BlockSizeType
  <2> QED
    BY <2>1 DEF P
<1>11. j = z
  BY <1>10, BlockSizeType
<1> QED
  BY <1>5, <1>10, <1>11

\* So does SHA1Final, if the count is right.
LEMMA SHA1Finished ==
  ASSUME NEW e, NEW S, Marks \subseteq S, NEW bytes \in Seq(S), NEW c, Held(e, S, bytes, c)
  PROVE  /\ SHA1Final(c) \in Engines(e, S) /\ SHA1Final(c).state[1] = e
         /\ c.count = Bits(Len(bytes)) => SHA1Final(c).state = <<e>> \o Blocks(Padded(bytes))
<1>1. PICK n \in Nat : n = Len(bytes)
  BY LenProperties
<1>2. PICK z \in 0..(BlockSize - 1), a \in Nat :
        z = ZerosOf(n) /\ n + (1 + z) = Offset(a) + Room
  BY ZerosEnd
<1>3. z \in Nat /\ z = ZerosOf(n) /\ (n + 1) + z = Offset(a) + Room /\ n + 1 \in Nat
      /\ n + (1 + z) = (n + 1) + z
  BY <1>2
<1>4. c.count \in Words
  BY DEF Held, Engines
<1>5. PICK text \in Seq(S) : text = bytes \o <<PaddingEnd>> /\ Len(text) = n + 1
  <2>1. bytes \o <<PaddingEnd>> \in Seq(S) /\ Len(bytes \o <<PaddingEnd>>) = n + 1
    BY <1>1, <1>3, PaddedIs, ZenonT(60)
  <2> QED
    BY <2>1, Zenon
<1>6. PICK marked : marked = SHA1Update(c, <<PaddingEnd>>) /\ Held(e, S, text, marked)
  <2>1. <<PaddingEnd>> \in Seq(S)
    BY MarksAre
  <2>2. PICK one \in Seq(S) : one = <<PaddingEnd>>
    BY <2>1, Zenon
  <2>3. Held(e, S, bytes \o one, SHA1Update(c, one))
    BY SHA1Held
  <2> QED
    BY <1>5, <2>2, <2>3
<1>7. Held(e, S, text \o Zeros(0), marked)
  <2>1. text \o Zeros(0) = text
    <3>1. Zeros(0) = <<>>
      BY DEF Zeros
    <3> QED
      BY <3>1, ConcatEmptySeq
  <2> QED
    BY <1>6, <2>1
<1>8. PICK padded : /\ padded = Repeat(LAMBDA d, i : ZeroAdded(d), marked, BlockSize)
                    /\ Held(e, S, text \o Zeros(z), padded)
  <2>1. n + 1 = Len(text)
    BY <1>5
  <2>2. Held(e, S, text \o Zeros(z), Repeat(LAMBDA d, i : ZeroAdded(d), marked, BlockSize))
    BY <1>3, <1>7, <2>1, ZerosAdded
  <2> QED
    BY <2>2
<1>9. PICK field \in Seq(S) : field = LengthField(c.count) /\ Len(field) = LengthSize
  BY <1>4, MarksAre
<1>10. PICK front \in Seq(S) : front = text \o Zeros(z)
  BY <1>3, ZerosMore
<1>11. Held(e, S, front \o field, SHA1Update(padded, field))
  <2>1. Held(e, S, front, padded)
    BY <1>8, <1>10
  <2> QED
    BY <2>1, SHA1Held
<1>12. SHA1Final(c) = SHA1Update(padded, field)
  BY <1>6, <1>8, <1>9 DEF SHA1Final, ZeroAdded
<1>13. PICK full \in Seq(S) : full = front \o field
  BY ConcatProperties
<1>14. PICK f : f = SHA1Final(c) /\ Held(e, S, full, f)
  BY <1>11, <1>12, <1>13
<1>15. f \in Engines(e, S)
       /\ Took(e, full, Len(full) \div BlockSize, Len(full) % BlockSize, f.state, f.buffer)
  BY <1>14 DEF Held
<1>16. f.state \in States(e, S) /\ f.state[1] = e
  BY <1>15 DEF Engines, Took
<1>17. f.state = <<e>> \o Blocks(full)
  BY <1>15, <1>16, TookBlocks
<1>18. ASSUME c.count = Bits(Len(bytes)) PROVE full = Padded(bytes)
  <2>1. Padded(bytes) = ((bytes \o <<PaddingEnd>>) \o Zeros(z)) \o LengthField(Bits(n))
    BY <1>1, <1>3 DEF Padded, ZerosOf, Zeros
  <2> QED
    BY <1>1, <1>5, <1>9, <1>10, <1>13, <1>18, <2>1
<1> QED
  BY <1>14, <1>15, <1>16, <1>17, <1>18

LEMMA EngineFinished ==
  ASSUME NEW mode, NEW S, Marks \subseteq S, NEW bytes \in Seq(S), NEW c,
         Held(Engine(mode), S, bytes, c),
         Engine(mode) = "md5" => Given(Engine(mode), S, bytes, c)
  PROVE  /\ EngineFinal(mode, c) \in Engines(Engine(mode), S)
         /\ EngineFinal(mode, c).state[1] = Engine(mode)
         /\ Given(Engine(mode), S, bytes, c) =>
              Result(EngineFinal(mode, c).state) = Digest(Engine(mode), bytes)
<1>1. /\ EngineFinal(mode, c) \in Engines(Engine(mode), S)
      /\ EngineFinal(mode, c).state[1] = Engine(mode)
      /\ Given(Engine(mode), S, bytes, c) =>
           EngineFinal(mode, c).state = <<Engine(mode)>> \o Blocks(Padded(bytes))
  <2>1. CASE Engine(mode) = "md5"
    BY <2>1, MD5Finished DEF EngineFinal
  <2>2. CASE Engine(mode) # "md5"
    BY <2>2, SHA1Finished DEF EngineFinal, Given
  <2> QED
    BY <2>1, <2>2
<1> QED
  BY <1>1 DEF Digest

\* The sets of bytes may be larger.
LEMMA EnginesIn ==
  ASSUME NEW e, NEW S, NEW T, S \subseteq T
  PROVE  Engines(e, S) \subseteq Engines(e, T)
<1>1. Seq(S) \subseteq Seq(T)
  BY SeqMonotonic
<1>2. {e} \cup Seq(S) \subseteq {e} \cup Seq(T)
  BY <1>1
<1>3. States(e, S) \subseteq States(e, T)
  BY <1>2, SeqMonotonic DEF States
<1>4. [1..BlockSize -> S] \subseteq [1..BlockSize -> T]
  OBVIOUS
<1> QED
  BY <1>3, <1>4 DEF Engines

LEMMA HeldIn ==
  ASSUME NEW e, NEW S, NEW T, S \subseteq T, NEW bytes, NEW c, Held(e, S, bytes, c)
  PROVE  Held(e, T, bytes, c)
<1>1. bytes \in Seq(T)
  BY SeqMonotonic DEF Held
<1>2. c \in Engines(e, T)
  BY EnginesIn DEF Held
<1> QED
  BY <1>1, <1>2 DEF Held

-----------------------------------------------------------------------------
(* What Ydigest_final computes *)

LEMMA LengthType == \A e : Length(e) \in Nat \ {0} /\ Length(e) \in {MD5Length, SHA1Length}
BY YdigestAssumption DEF Length

\* The bytes of a digest, with those that are known already.
LEMMA ResultType ==
  ASSUME NEW e, NEW S, NEW state, state[1] = e
  PROVE  \E T : S \subseteq T /\ Result(state) \in Seq(T) /\ Len(Result(state)) = Length(e)
<1>1. PICK l \in Nat : l = Length(e)
  BY LengthType
<1> DEFINE d == [i \in 1..l |-> <<"digest", state, i>>]
           T == S \cup {<<"digest", state, i>> : i \in 1..l}
<1>2. Result(state) = d
  BY <1>1 DEF Result
<1>3. d \in [1..l -> T] /\ S \subseteq T
  OBVIOUS
<1> HIDE DEF d, T
<1>4. d \in Seq(T) /\ Len(d) = l
  BY <1>3, FunIsSeq
<1> QED
  BY <1>1, <1>2, <1>3, <1>4

\* The blocks of a key and the digests are short.
LEMMA KeysAreShort ==
  ASSUME NEW e \in {"md5", "sha1"}, NEW n
  PROVE  ~ Miscounts(e, n, BlockSize) /\ ~ Miscounts(e, n, Length(e))
<1>1. /\ BlockSize \in Nat /\ Length(e) \in Nat
      /\ 8 * BlockSize < CountMod /\ 8 * Length(e) < CountMod
  BY YdigestAssumption DEF Length
<1> QED
  BY <1>1, ShortCounts

LEMMA FinishedIs ==
  ASSUME NEW mode, NEW S, Marks \subseteq S, NEW c, c.mode = mode,
         NEW bytes \in Seq(S), Held(Engine(mode), S, bytes, c.engine),
         Engine(mode) = "md5" => Given(Engine(mode), S, bytes, c.engine),
         c.opad \in Seq(S), Len(c.opad) = BlockSize
  PROVE  \E T, result :
           /\ S \subseteq T /\ result \in Seq(T) /\ Len(result) = Length(Engine(mode))
           /\ Finished(c) \in Engines(Engine(mode), T)
           /\ Result(Finished(c).state) = result
           /\ Given(Engine(mode), S, bytes, c.engine) =>
                result = IF mode \in MacModes
                         THEN Digest(Engine(mode), c.opad \o Digest(Engine(mode), bytes))
                         ELSE Digest(Engine(mode), bytes)
<1>1. PICK e \in {"md5", "sha1"} : e = Engine(mode)
  BY DEF Engine
<1>2. PICK inner : /\ inner = EngineFinal(mode, c.engine)
                   /\ inner \in Engines(e, S) /\ inner.state[1] = e
                   /\ Given(e, S, bytes, c.engine) => Result(inner.state) = Digest(e, bytes)
  BY <1>1, EngineFinished
<1>3. PICK T, d : /\ S \subseteq T /\ d = Result(inner.state) /\ d \in Seq(T)
                  /\ Len(d) = Length(e)
  <2>1. \E T : /\ S \subseteq T /\ Result(inner.state) \in Seq(T)
               /\ Len(Result(inner.state)) = Length(e)
    BY <1>2, ResultType
  <2> QED
    BY <2>1, Zenon
<1>4. CASE mode \notin MacModes
  <2>1. Finished(c) = inner
    BY <1>2, <1>4 DEF Finished
  <2>2. inner \in Engines(e, T)
    BY <1>2, <1>3, EnginesIn
  <2> QED
    BY <1>1, <1>2, <1>3, <1>4, <2>1, <2>2
<1>5. CASE mode \in MacModes
  <2>1. PICK first \in Seq(T), second \in Seq(T) :
          first = c.opad /\ Len(first) = BlockSize /\ second = d /\ Len(second) = Length(e)
    BY <1>3, SeqMonotonic
  <2>2. PICK outer : outer = OuterEngine(inner, e) /\ Given(e, T, <<>>, outer)
    <3>1. inner.buffer \in [1..BlockSize -> T]
      BY <1>2, <1>3 DEF Engines
    <3> QED
      BY <3>1, InitGiven DEF OuterEngine
  <2>3. PICK keyedOuter : /\ keyedOuter = EngineUpdate(mode, outer, first)
                          /\ Given(e, T, first, keyedOuter)
    <3>1. <<>> \in Seq(T) /\ <<>> \o first = first
      BY ConcatEmptySeq, EmptySeq
    <3>2. ~ Miscounts(e, Len(<<>>), Len(first))
      BY <2>1, KeysAreShort
    <3>3. Given(Engine(mode), T, <<>> \o first, EngineUpdate(mode, outer, first))
      BY <1>1, <2>2, <3>1, <3>2, EngineGiven
    <3> QED
      BY <1>1, <3>1, <3>3
  <2>4. PICK full \in Seq(T), last \in {EngineUpdate(mode, keyedOuter, second)} :
          full = first \o second /\ Given(e, T, full, last)
    <3>1. ~ Miscounts(e, Len(first), Len(second))
      BY <2>1, KeysAreShort
    <3>2. Given(Engine(mode), T, first \o second, EngineUpdate(mode, keyedOuter, second))
      BY <1>1, <2>3, <3>1, EngineGiven
    <3>3. first \o second \in Seq(T)
      BY ConcatProperties
    <3> QED
      BY <1>1, <3>2, <3>3
  <2>5. Marks \subseteq T
    BY <1>3
  <2>6. PICK final : /\ final = EngineFinal(mode, last)
                     /\ final \in Engines(e, T) /\ final.state[1] = e
                     /\ Result(final.state) = Digest(e, full)
    <3>1. Held(e, T, full, last)
      BY <2>4 DEF Given
    <3>2. /\ EngineFinal(mode, last) \in Engines(e, T) /\ EngineFinal(mode, last).state[1] = e
          /\ Result(EngineFinal(mode, last).state) = Digest(e, full)
      BY <1>1, <2>4, <2>5, <3>1, EngineFinished
    <3> QED
      BY <3>2, Zenon
  <2>7. Finished(c) = final
    BY <1>1, <1>2, <1>3, <1>5, <2>1, <2>2, <2>3, <2>4, <2>6 DEF Finished
  <2>8. PICK U : /\ T \subseteq U /\ Result(final.state) \in Seq(U)
                 /\ Len(Result(final.state)) = Length(e)
    BY <2>6, ResultType
  <2>9. final \in Engines(e, U) /\ S \subseteq U
    BY <1>3, <2>6, <2>8, EnginesIn
  <2>10. Given(e, S, bytes, c.engine) =>
           Result(final.state) = Digest(e, c.opad \o Digest(e, bytes))
    BY <1>2, <1>3, <2>1, <2>4, <2>6
  <2> QED
    BY <1>1, <1>5, <2>7, <2>8, <2>9, <2>10
<1> QED
  BY <1>4, <1>5

-----------------------------------------------------------------------------
(* The inductive invariant *)

MaxLength == Max({MD5Length, SHA1Length})

\* The contexts of a mode over the bytes of S.
Contexts(mode, S) ==
  [mode : {mode}, finalized : BOOLEAN, length : {Length(Engine(mode))},
   digest : [1..MaxLength -> S], opad : [1..BlockSize -> S],
   engine : Engines(Engine(mode), S)]

\* The context holds its message, or the digest of it once it is finalized, unless
\* SHA-1 has miscounted it.
Exact(mode, S) ==
  /\ Marks \subseteq S /\ message \in Seq(S) /\ context \in Contexts(mode, S)
  /\ keyed => mode \in MacModes /\ context.opad = k_opad
  /\ miscounted => Engine(mode) = "sha1"
  /\ ~ context.finalized => Held(Engine(mode), S, Input, context.engine)
  /\ ~ context.finalized /\ ~ miscounted => context.engine.count = Bits(Len(Input))
  /\ context.finalized /\ ~ miscounted /\ (mode \in MacModes => keyed) =>
       SubSeq(context.digest, 1, context.length) = Expected(mode, message)
  /\ out # <<>> => context.finalized /\ out = SubSeq(context.digest, 1, context.length)

DigestInv ==
  /\ keyed \in BOOLEAN /\ miscounted \in BOOLEAN /\ appended \in 0..MaxBytes
  /\ \/ context = NoContext /\ out = <<>>
     \/ \E mode \in Modes : \E S : Exact(mode, S)

LEMMA MaxLengthType == MaxLength \in Nat /\ \A e : Length(e) <= MaxLength
<1>1. MD5Length \in Nat /\ SHA1Length \in Nat
  BY YdigestAssumption
<1>2. PICK x \in {MD5Length, SHA1Length} : \A y \in {MD5Length, SHA1Length} : x >= y
  BY <1>1
<1>3. MaxLength \in {MD5Length, SHA1Length} /\ \A y \in {MD5Length, SHA1Length} : MaxLength >= y
  BY <1>2 DEF MaxLength, Max
<1> QED
  BY <1>1, <1>3, LengthType

\* A context as a record, and a created context.
LEMMA ContextIs ==
  ASSUME NEW mode \in Modes, NEW S, NEW c, c \in Contexts(mode, S)
  PROVE  /\ c.mode = mode /\ c.mode # "none" /\ c # NoContext
         /\ c.finalized \in BOOLEAN /\ c.length = Length(Engine(mode))
         /\ c.digest \in [1..MaxLength -> S] /\ c.opad \in [1..BlockSize -> S]
         /\ c.opad \in Seq(S) /\ Len(c.opad) = BlockSize
         /\ c.engine \in Engines(Engine(mode), S)
         /\ c.engine.buffer \in [1..BlockSize -> S]
         /\ c = [mode |-> mode, finalized |-> c.finalized, length |-> c.length,
                 digest |-> c.digest, opad |-> c.opad, engine |-> c.engine]
<1>1. /\ c.mode = mode /\ c.finalized \in BOOLEAN /\ c.length = Length(Engine(mode))
      /\ c.digest \in [1..MaxLength -> S] /\ c.opad \in [1..BlockSize -> S]
      /\ c.engine \in Engines(Engine(mode), S)
      /\ c = [mode |-> mode, finalized |-> c.finalized, length |-> c.length,
              digest |-> c.digest, opad |-> c.opad, engine |-> c.engine]
  BY DEF Contexts
<1>2. mode # "none"
  BY YdigestAssumption
<1>3. c # NoContext
  <2>1. NoContext.mode = "none"
    BY DEF NoContext
  <2> QED
    BY <1>1, <1>2, <2>1
<1>4. c.opad \in Seq(S) /\ Len(c.opad) = BlockSize
  BY <1>1, BlockSizeType, FunIsSeq
<1>5. c.engine.buffer \in [1..BlockSize -> S]
  BY <1>1 DEF Engines
<1> QED
  BY <1>1, <1>2, <1>3, <1>4, <1>5

\* A context that was reset is one that was given nothing.
Fresh(mode, S, c) ==
  /\ c \in Contexts(mode, S) /\ ~ c.finalized
  /\ Given(Engine(mode), S, <<>>, c.engine)

LEMMA ResetIs ==
  ASSUME NEW mode \in Modes, NEW S, NEW old, NEW finalized, NEW length,
         NEW digest \in [1..MaxLength -> S], NEW opad \in [1..BlockSize -> S],
         NEW engine, engine.buffer \in [1..BlockSize -> S],
         NEW c, c = [mode |-> old, finalized |-> finalized, length |-> length,
                     digest |-> digest, opad |-> opad, engine |-> engine]
  PROVE  Fresh(mode, S, Reset(c, mode))
<1>1. PICK init : init = EngineInit(Engine(mode), engine.buffer)
  OBVIOUS
<1>2. Given(Engine(mode), S, <<>>, init)
  BY <1>1, InitGiven
<1>3. init \in Engines(Engine(mode), S)
  BY <1>2 DEF Given, Held
<1>4. c.engine = engine
  OBVIOUS
<1>5. PICK n : n = Length(Engine(mode))
  OBVIOUS
<1>6. Reset(c, mode) = [c EXCEPT !.engine = init, !.length = n, !.mode = mode, !.finalized = FALSE]
  BY <1>1, <1>4, <1>5 DEF Reset
<1>7. Reset(c, mode) = [mode |-> mode, finalized |-> FALSE, length |-> n,
                        digest |-> digest, opad |-> opad, engine |-> init]
  BY <1>6
<1>8. PICK r : r = Reset(c, mode)
  OBVIOUS
<1>9. r \in Contexts(mode, S) /\ ~ r.finalized /\ r.engine = init
  BY <1>3, <1>5, <1>7, <1>8 DEF Contexts
<1> QED
  BY <1>2, <1>8, <1>9 DEF Fresh

LEMMA AllocatedIs ==
  ASSUME NEW mode \in Modes
  PROVE  Fresh(mode, Marks, Reset(Allocated, mode))
<1> DEFINE digest == [i \in 1..MaxLength |-> Undefined]
           opad == [i \in 1..BlockSize |-> Undefined]
<1>1. Undefined \in Marks
  BY DEF Marks
<1>2. digest \in [1..MaxLength -> Marks] /\ opad \in [1..BlockSize -> Marks]
  BY <1>1
<1>3. PICK engine : engine = EngineInit("none", opad)
  OBVIOUS
<1>4. engine.buffer \in [1..BlockSize -> Marks]
  BY <1>2, <1>3 DEF EngineInit
<1>5. Allocated = [mode |-> "none", finalized |-> FALSE, length |-> 0,
                   digest |-> digest, opad |-> opad, engine |-> engine]
  BY <1>3 DEF Allocated, MaxLength
<1> HIDE DEF digest, opad
<1> QED
  BY <1>2, <1>4, <1>5, ResetIs

LEMMA NoBytes == \A S : <<>> \in Seq(S) /\ <<>> \o <<>> = <<>>
<1> TAKE S
<1>1. <<>> \in Seq(S)
  BY EmptySeq
<1> QED
  BY <1>1, ConcatEmptySeq

LEMMA CreateExact ==
  ASSUME NEW mode \in Modes \ MacModes, Ydigest_create(mode), DigestInv
  PROVE  DigestInv'
<1>1. PICK c : c = Reset(Allocated, mode) /\ Fresh(mode, Marks, c)
  BY AllocatedIs
<1>2. /\ context' = c /\ out' = <<>> /\ message' = <<>>
      /\ keyed' = FALSE /\ miscounted' = FALSE /\ appended' = appended
  BY <1>1 DEF Ydigest_create
<1>3. Input' = <<>>
  BY <1>2, NoBytes DEF Input
<1>4. Exact(mode, Marks)'
  BY <1>1, <1>2, <1>3, NoBytes DEF Exact, Fresh, Given
<1> QED
  BY <1>2, <1>4 DEF DigestInv

LEMMA CreateMacExact ==
  ASSUME NEW mode \in Modes \cap MacModes, Ydigest_create_mac(mode), DigestInv
  PROVE  DigestInv'
<1>1. PICK c : c = Reset(Allocated, mode) /\ Fresh(mode, Marks, c)
  BY AllocatedIs
<1>2. c \in Contexts(mode, Marks) /\ ~ c.finalized /\ Given(Engine(mode), Marks, <<>>, c.engine)
  BY <1>1 DEF Fresh
<1>3. PICK pad \in Seq(Marks), opad \in Seq(Marks) :
        pad = k_ipad /\ opad = k_opad /\ Len(pad) = BlockSize
  BY MarksAre
<1>4. opad \in [1..BlockSize -> Marks]
  <2>1. \A i \in 1..BlockSize : <<"opad", 0, i>> \in Marks
    BY DEF Marks
  <2> QED
    BY <1>3, <2>1 DEF k_opad
<1>5. PICK engine : engine = EngineUpdate(mode, c.engine, pad) /\ Given(Engine(mode), Marks, pad, engine)
  <2>1. ~ Miscounts(Engine(mode), Len(<<>>), Len(pad))
    BY <1>3, KeysAreShort DEF Engine
  <2>2. <<>> \in Seq(Marks) /\ <<>> \o pad = pad
    BY NoBytes, ConcatEmptySeq
  <2>3. Given(Engine(mode), Marks, <<>> \o pad, EngineUpdate(mode, c.engine, pad))
    BY <1>2, <2>1, <2>2, EngineGiven
  <2> QED
    BY <2>2, <2>3
<1>6. engine \in Engines(Engine(mode), Marks)
  BY <1>5 DEF Given, Held
<1>7. /\ context' = [c EXCEPT !.opad = opad, !.engine = engine]
      /\ out' = <<>> /\ message' = <<>>
      /\ keyed' = TRUE /\ miscounted' = FALSE /\ appended' = appended
  BY <1>1, <1>3, <1>5 DEF Ydigest_create_mac
<1>8. /\ context' \in Contexts(mode, Marks) /\ context'.opad = k_opad /\ context'.engine = engine
      /\ ~ context'.finalized
  BY <1>2, <1>3, <1>4, <1>6, <1>7 DEF Contexts
<1>9. Input' = pad
  <2>1. pad \o <<>> = pad
    BY ConcatEmptySeq
  <2> QED
    BY <1>3, <1>7, <2>1 DEF Input
<1>10. Exact(mode, Marks)'
  BY <1>5, <1>7, <1>8, <1>9, NoBytes DEF Exact, Given
<1> QED
  BY <1>7, <1>10 DEF DigestInv

LEMMA CreatedIs ==
  ASSUME DigestInv, Created
  PROVE  \E mode \in Modes : \E S : Exact(mode, S)
BY DEF DigestInv, Created, NoContext

LEMMA ResetExact ==
  ASSUME NEW new \in Modes, Ydigest_reset(new), DigestInv
  PROVE  DigestInv'
<1>1. PICK mode \in Modes : \E S : Exact(mode, S)
  BY CreatedIs DEF Ydigest_reset
<1>2. PICK S : Exact(mode, S)
  BY <1>1
<1>3. context \in Contexts(mode, S) /\ Marks \subseteq S
  BY <1>2 DEF Exact
<1>4. PICK c : c = Reset(context, new) /\ Fresh(new, S, c)
  <2>1. /\ context.digest \in [1..MaxLength -> S] /\ context.opad \in [1..BlockSize -> S]
        /\ context.engine.buffer \in [1..BlockSize -> S]
        /\ context = [mode |-> mode, finalized |-> context.finalized, length |-> context.length,
                      digest |-> context.digest, opad |-> context.opad,
                      engine |-> context.engine]
    BY <1>3, ContextIs
  <2>2. Fresh(new, S, Reset(context, new))
    BY <2>1, ResetIs
  <2> QED
    BY <2>2
<1>5. /\ context' = c /\ out' = <<>> /\ message' = <<>>
      /\ keyed' = FALSE /\ miscounted' = FALSE /\ appended' = appended
  BY <1>4 DEF Ydigest_reset
<1>6. Input' = <<>>
  BY <1>5, NoBytes DEF Input
<1>7. Exact(new, S)'
  BY <1>3, <1>4, <1>5, <1>6, NoBytes DEF Exact, Fresh, Given
<1> QED
  BY <1>5, <1>7 DEF DigestInv

LEMMA ContextsIn ==
  ASSUME NEW mode, NEW S, NEW T, S \subseteq T
  PROVE  Contexts(mode, S) \subseteq Contexts(mode, T)
<1>1. Engines(Engine(mode), S) \subseteq Engines(Engine(mode), T)
  BY EnginesIn
<1>2. /\ [1..MaxLength -> S] \subseteq [1..MaxLength -> T]
      /\ [1..BlockSize -> S] \subseteq [1..BlockSize -> T]
  OBVIOUS
<1> QED
  BY <1>1, <1>2 DEF Contexts

LEMMA InputType ==
  ASSUME NEW S, Marks \subseteq S, message \in Seq(S)
  PROVE  \E before \in Seq(S) : /\ before = (IF keyed THEN k_ipad ELSE <<>>)
                                /\ Input = before \o message /\ Input \in Seq(S)
<1>1. k_ipad \in Seq(S) /\ <<>> \in Seq(S)
  BY MarksAre, NoBytes
<1>2. PICK before \in Seq(S) : before = (IF keyed THEN k_ipad ELSE <<>>)
  BY <1>1
<1> QED
  BY <1>2, ConcatProperties DEF Input

LEMMA UpdateExact ==
  ASSUME NEW n \in Sizes, Ydigest_update(n), DigestInv
  PROVE  DigestInv'
<1>1. PICK mode \in Modes : \E S : Exact(mode, S)
  BY CreatedIs DEF Ydigest_update
<1>2. PICK S : Exact(mode, S)
  BY <1>1
<1>3. /\ n \in Nat /\ appended' \in 0..MaxBytes /\ keyed' = keyed /\ out' = <<>>
      /\ keyed \in BOOLEAN /\ miscounted \in BOOLEAN
  BY YdigestAssumption DEF Ydigest_update, DigestInv
<1>4. context \in Contexts(mode, S) /\ context.mode = mode
  BY <1>2, ContextIs DEF Exact
<1>5. CASE context.finalized
  <2>1. context' = context /\ message' = message /\ miscounted' = miscounted
    BY <1>5 DEF Ydigest_update, Refused
  <2>2. Input' = Input
    BY <1>3, <2>1 DEF Input
  <2>3. Exact(mode, S)'
    BY <1>2, <1>3, <2>1, <2>2 DEF Exact
  <2> QED
    BY <1>3, <2>1, <2>3 DEF DigestInv
<1>6. CASE ~ context.finalized
  <2>1. PICK T : S \subseteq T /\ T = S \cup {Text(n)[i] : i \in 1..n}
    OBVIOUS
  <2>2. PICK text \in Seq(T) : text = Text(n) /\ Len(text) = n
    <3>1. Text(n) \in [1..n -> T]
      BY <2>1 DEF Text
    <3> QED
      BY <1>3, <3>1, FunIsSeq
  <2>3. PICK engine : engine = EngineUpdate(mode, context.engine, text)
    OBVIOUS
  <2>4. context' = [context EXCEPT !.engine = engine] /\ message' = message \o text
    BY <1>4, <1>6, <2>2, <2>3 DEF Ydigest_update, Refused
  <2>5. PICK before \in Seq(T) : before = (IF keyed THEN k_ipad ELSE <<>>)
                                 /\ Input = before \o message /\ Input \in Seq(T)
    <3>1. Marks \subseteq T /\ message \in Seq(T)
      BY <1>2, <2>1, SeqMonotonic DEF Exact
    <3> QED
      BY <3>1, InputType
  <2>6. message \in Seq(T) /\ message' \in Seq(T) /\ Marks \subseteq T
    <3>1. Marks \subseteq T /\ message \in Seq(T)
      BY <1>2, <2>1, SeqMonotonic DEF Exact
    <3> QED
      BY <2>4, <3>1, ConcatProperties
  <2>7. Input' = Input \o text
    <3>1. PICK m \in Seq(T) : m = message
      BY <2>6
    <3>2. Input' = before \o (m \o text)
      BY <1>3, <2>4, <2>5, <3>1 DEF Input
    <3>3. (before \o m) \o text = before \o (m \o text)
      BY ConcatAssociative
    <3>4. Input = before \o m
      BY <2>5, <3>1
    <3> QED
      BY <3>2, <3>3, <3>4, Zenon
  <2>8. /\ Held(Engine(mode), T, Input \o text, engine)
        /\ miscounted' \in BOOLEAN /\ (miscounted' => Engine(mode) = "sha1")
        /\ ~ miscounted' => engine.count = Bits(Len(Input \o text))
    <3>1. Held(Engine(mode), T, Input, context.engine)
      BY <1>2, <1>6, <2>1, HeldIn DEF Exact
    <3>2. /\ miscounted => Engine(mode) = "sha1"
          /\ ~ miscounted => Given(Engine(mode), T, Input, context.engine)
      BY <1>2, <1>6, <3>1 DEF Exact, Given
    <3>3. miscounted' = (miscounted \/ Miscounts(Engine(mode), Len(Input), Len(text)))
      BY <1>4, <1>6, <2>2 DEF Ydigest_update, Refused
    <3>4. miscounted' \in BOOLEAN /\ (miscounted' => Engine(mode) = "sha1")
      BY <1>3, <3>2, <3>3, Zenon DEF Miscounts
    <3>5. Held(Engine(mode), T, Input \o text, engine)
      <4>1. Engine(mode) = "md5" => Given(Engine(mode), T, Input, context.engine)
        BY <3>2
      <4> QED
        BY <2>3, <2>5, <3>1, <4>1, EngineHeld
    <3>6. ASSUME ~ miscounted' PROVE Given(Engine(mode), T, Input \o text, engine)
      <4>1. Given(Engine(mode), T, Input, context.engine)
            /\ ~ Miscounts(Engine(mode), Len(Input), Len(text))
        BY <3>2, <3>3, <3>6, Zenon
      <4> QED
        BY <2>3, <2>5, <4>1, EngineGiven
    <3> QED
      BY <3>4, <3>5, <3>6 DEF Given
  <2>9. engine \in Engines(Engine(mode), T)
    BY <2>8 DEF Held
  <2>10. /\ context' \in Contexts(mode, T) /\ context'.opad = context.opad
         /\ context'.engine = engine /\ ~ context'.finalized
    <3>1. context \in Contexts(mode, T)
      BY <1>4, <2>1, ContextsIn
    <3> QED
      BY <1>6, <2>4, <2>9, <3>1 DEF Contexts
  <2>11. Exact(mode, T)'
    <3>1. /\ Held(Engine(mode), T, Input', context'.engine)
          /\ miscounted' => Engine(mode) = "sha1"
          /\ ~ miscounted' => context'.engine.count = Bits(Len(Input'))
      BY <2>7, <2>8, <2>10, Zenon
    <3>2. keyed => mode \in MacModes /\ context.opad = k_opad
      BY <1>2, Zenon DEF Exact
    <3> QED
      BY <1>3, <2>6, <2>10, <3>1, <3>2 DEF Exact
  <2> QED
    BY <1>3, <2>8, <2>11 DEF DigestInv
<1> QED
  BY <1>5, <1>6

\* A finalized context with the digest of the message, if it was counted right.
Final(mode, S, f) ==
  /\ Marks \subseteq S /\ message \in Seq(S) /\ f \in Contexts(mode, S) /\ f.finalized
  /\ keyed => mode \in MacModes /\ f.opad = k_opad
  /\ miscounted => Engine(mode) = "sha1"
  /\ ~ miscounted /\ (mode \in MacModes => keyed) =>
       SubSeq(f.digest, 1, f.length) = Expected(mode, message)

\* The result overwrites the front of the digest.
LEMMA ResultIs ==
  ASSUME NEW T, NEW result \in Seq(T), NEW digest \in [1..MaxLength -> T],
         NEW l \in Nat, l = Len(result), l <= MaxLength,
         NEW new, new = result \o SubSeq(digest, l + 1, Len(digest))
  PROVE  new \in [1..MaxLength -> T] /\ SubSeq(new, 1, l) = result
<1>1. PICK old \in Seq(T) : old = digest /\ Len(old) = MaxLength
  BY MaxLengthType, FunIsSeq
<1>2. PICK max \in Nat : max = MaxLength /\ l <= max
  BY MaxLengthType
<1>3. PICK rest \in Seq(T) : rest = SubSeq(digest, l + 1, Len(digest)) /\ Len(rest) = max - l
  <2>1. l <= max /\ max <= Len(old)
    BY <1>1, <1>2
  <2>2. SubSeq(old, l + 1, max) \in Seq(T) /\ Len(SubSeq(old, l + 1, max)) = max - l
    BY <2>1, SliceOf
  <2>3. Len(digest) = max /\ old = digest
    BY <1>1, <1>2
  <2> QED
    BY <2>2, <2>3
<1>4. Joined(result \o rest, T, result, rest)
  BY ConcatIs
<1>5. PICK n \in Seq(T) : /\ n = new /\ Len(n) = max
                          /\ \A i \in 1..l : n[i] = result[i]
  <2>1. new = result \o rest
    BY <1>3
  <2>2. Len(result) + Len(rest) = max
    BY <1>2, <1>3
  <2> QED
    BY <1>4, <2>1, <2>2 DEF Joined
<1>6. n \in [1..max -> T]
  BY <1>5, LenProperties, ElementOfSeq
<1>7. PICK front \in Seq(T) : /\ front = SubSeq(n, 1, l) /\ Len(front) = l
                              /\ \A i \in 1..l : front[i] = n[i]
  <2>1. l <= Len(n) /\ 0 <= l /\ 0 + 1 = 1 /\ l - 0 = l
    BY <1>2, <1>5
  <2>2. /\ SubSeq(n, 0 + 1, l) \in Seq(T) /\ Len(SubSeq(n, 0 + 1, l)) = l - 0
        /\ \A i \in 1..(l - 0) : SubSeq(n, 0 + 1, l)[i] = n[0 + i]
    BY <2>1, SliceOf
  <2>3. \A i \in 1..l : 0 + i = i
    OBVIOUS
  <2>4. PICK front : front = SubSeq(n, 0 + 1, l) /\ front = SubSeq(n, 1, l)
    BY <2>1
  <2>5. front \in Seq(T) /\ Len(front) = l /\ \A i \in 1..l : front[i] = n[i]
    BY <2>1, <2>2, <2>3, <2>4
  <2> QED
    BY <2>4, <2>5, Zenon
<1>8. front = result
  <2>1. Len(front) = Len(result) /\ \A i \in 1..Len(front) : front[i] = result[i]
    BY <1>5, <1>7
  <2> QED
    BY <2>1, SeqEqual
<1> QED
  BY <1>2, <1>5, <1>6, <1>7, <1>8

\* Ydigest_final computes what is expected.
LEMMA FinalizedIs ==
  ASSUME NEW mode \in Modes, NEW S, Exact(mode, S)
  PROVE  \E T : Final(mode, T, Finalized(context))
<1>1. CASE context.finalized
  <2>1. Finalized(context) = context
    BY <1>1 DEF Finalized
  <2> QED
    BY <1>1, <2>1 DEF Exact, Final
<1>2. CASE ~ context.finalized
  <2>1. /\ context \in Contexts(mode, S) /\ Marks \subseteq S /\ message \in Seq(S)
        /\ keyed => mode \in MacModes /\ context.opad = k_opad
        /\ miscounted => Engine(mode) = "sha1"
    BY DEF Exact
  <2>2. /\ context.mode = mode /\ context.length = Length(Engine(mode))
        /\ context.digest \in [1..MaxLength -> S]
        /\ context.opad \in Seq(S) /\ Len(context.opad) = BlockSize
    BY <2>1, ContextIs
  <2>3. PICK bytes \in Seq(S) : bytes = Input
    BY <2>1, InputType
  <2>4. Held(Engine(mode), S, bytes, context.engine)
    BY <1>2, <2>3 DEF Exact
  <2>5. ~ miscounted => Given(Engine(mode), S, bytes, context.engine)
    BY <1>2, <2>3, <2>4 DEF Exact, Given
  <2>6. PICK T, result :
          /\ S \subseteq T /\ result \in Seq(T) /\ Len(result) = Length(Engine(mode))
          /\ Finished(context) \in Engines(Engine(mode), T)
          /\ Result(Finished(context).state) = result
          /\ ~ miscounted =>
               result = IF mode \in MacModes
                        THEN Digest(Engine(mode), context.opad \o Digest(Engine(mode), bytes))
                        ELSE Digest(Engine(mode), bytes)
    <3>1. Engine(mode) = "md5" => Given(Engine(mode), S, bytes, context.engine)
      BY <2>1, <2>5
    <3> QED
      BY <2>1, <2>2, <2>4, <2>5, <3>1, FinishedIs
  <2>7. PICK l \in Nat : l = Len(result) /\ l = Length(Engine(mode)) /\ l <= MaxLength
    BY <2>6, LengthType, MaxLengthType
  <2>8. PICK engine : engine = Finished(context)
    OBVIOUS
  <2>9. PICK new : new = result \o SubSeq(context.digest, l + 1, Len(context.digest))
    OBVIOUS
  <2>10. Finalized(context) = [context EXCEPT !.engine = engine, !.digest = new, !.finalized = TRUE]
    BY <1>2, <2>6, <2>7, <2>8, <2>9 DEF Finalized
  <2>11. new \in [1..MaxLength -> T] /\ SubSeq(new, 1, l) = result
    <3>1. context.digest \in [1..MaxLength -> T]
      <4>1. S \subseteq T /\ context.digest \in [1..MaxLength -> S]
        BY <2>2, <2>6
      <4> QED
        BY <4>1
    <3>2. result \in Seq(T) /\ l = Len(result) /\ l <= MaxLength
      BY <2>6, <2>7
    <3>3. PICK digest \in [1..MaxLength -> T] : digest = context.digest
      BY <3>1
    <3>4. new = result \o SubSeq(digest, l + 1, Len(digest))
      BY <2>9, <3>3, Zenon
    <3>5. new \in [1..MaxLength -> T]
      BY <3>2, <3>4, ResultIs
    <3>6. SubSeq(new, 1, l) = result
      BY <3>2, <3>4, ResultIs
    <3> QED
      BY <3>5, <3>6
  <2>12. context \in Contexts(mode, T)
    BY <2>1, <2>6, ContextsIn
  <2>13. PICK f : f = Finalized(context)
    OBVIOUS
  <2>14. /\ f \in Contexts(mode, T) /\ f.finalized /\ f.opad = context.opad
         /\ f.digest = new /\ f.length = l
    BY <2>2, <2>6, <2>7, <2>8, <2>10, <2>11, <2>12, <2>13 DEF Contexts
  <2>15. ASSUME ~ miscounted, mode \in MacModes => keyed
         PROVE  result = Expected(mode, message)
    <3>1. CASE mode \in MacModes
      <4>1. context.opad = k_opad /\ bytes = k_ipad \o message
        BY <2>1, <2>3, <2>15, <3>1 DEF Input
      <4>2. result = Digest(Engine(mode), k_opad \o Digest(Engine(mode), k_ipad \o message))
        BY <2>6, <2>15, <3>1, <4>1, Zenon
      <4> QED
        BY <3>1, <4>2 DEF Expected, Mac
    <3>2. CASE mode \notin MacModes
      <4>1. bytes = <<>> \o message
        BY <2>1, <2>3, <3>2 DEF Input
      <4>2. <<>> \o message = message
        BY <2>1, ConcatEmptySeq
      <4>3. result = Digest(Engine(mode), message)
        BY <2>6, <2>15, <3>2, <4>1, <4>2, Zenon
      <4> QED
        BY <3>2, <4>3 DEF Expected
    <3> QED
      BY <3>1, <3>2
  <2>16. Marks \subseteq T /\ message \in Seq(T)
    BY <2>1, <2>6, SeqMonotonic
  <2> QED
    BY <2>1, <2>11, <2>13, <2>14, <2>15, <2>16 DEF Final
<1> QED
  BY <1>1, <1>2

LEMMA FinalExact ==
  ASSUME DigestInv, Created, context' = Finalized(context),
         UNCHANGED <<message, keyed, miscounted, appended>>,
         \/ UNCHANGED out
         \/ out' = SubSeq(context'.digest, 1, context.length)
  PROVE  DigestInv'
<1>1. PICK mode \in Modes : \E S : Exact(mode, S)
  BY CreatedIs
<1>2. PICK S : Exact(mode, S)
  BY <1>1
<1>3. PICK f, T : f = Finalized(context) /\ Final(mode, T, f)
  BY <1>2, FinalizedIs
<1>4. /\ Marks \subseteq T /\ message \in Seq(T) /\ f \in Contexts(mode, T) /\ f.finalized
      /\ keyed => mode \in MacModes /\ f.opad = k_opad
      /\ miscounted => Engine(mode) = "sha1"
      /\ ~ miscounted /\ (mode \in MacModes => keyed) =>
           SubSeq(f.digest, 1, f.length) = Expected(mode, message)
  BY <1>3 DEF Final
<1>5. /\ context' = f /\ message' = message /\ keyed' = keyed
      /\ miscounted' = miscounted /\ appended' = appended
  BY <1>3
<1>6. f.length = context.length
  BY <1>2, <1>4, ContextIs DEF Exact
<1>7. out' # <<>> => out' = SubSeq(f.digest, 1, f.length)
  <2>1. CASE out' = SubSeq(context'.digest, 1, context.length)
    BY <1>5, <1>6, <2>1, Zenon
  <2>2. CASE out' = out
    <3>1. out # <<>> => context.finalized /\ out = SubSeq(context.digest, 1, context.length)
      BY <1>2 DEF Exact
    <3>2. context.finalized => f = context
      BY <1>3 DEF Finalized
    <3> QED
      BY <2>2, <3>1, <3>2, Zenon
  <2> QED
    BY <2>1, <2>2
<1>8. Exact(mode, T)'
  BY <1>4, <1>5, <1>7 DEF Exact
<1> QED
  BY <1>5, <1>8 DEF DigestInv

LEMMA ReleaseExact ==
  ASSUME DigestInv, Ydigest_release
  PROVE  DigestInv'
BY DEF DigestInv, Ydigest_release

LEMMA InitExact ==
  ASSUME Init
  PROVE  DigestInv
<1>1. MaxBytes \in Nat
  BY YdigestAssumption
<1>2. /\ keyed \in BOOLEAN /\ miscounted \in BOOLEAN
      /\ context = NoContext /\ out = <<>> /\ appended = 0
  BY Zenon DEF Init
<1>3. appended \in 0..MaxBytes
  BY <1>1, <1>2
<1> QED
  BY <1>2, <1>3 DEF DigestInv

LEMMA StepExact ==
  ASSUME DigestInv, [Next]_vars
  PROVE  DigestInv'
<1>1. ASSUME NEW mode \in Modes \ MacModes, Ydigest_create(mode) PROVE DigestInv'
  BY <1>1, CreateExact
<1>2. ASSUME NEW mode \in Modes \cap MacModes, Ydigest_create_mac(mode) PROVE DigestInv'
  BY <1>2, CreateMacExact
<1>3. ASSUME NEW mode \in Modes, Ydigest_reset(mode) PROVE DigestInv'
  BY <1>3, ResetExact
<1>4. ASSUME NEW n \in Sizes, Ydigest_update(n) PROVE DigestInv'
  BY <1>4, UpdateExact
<1>5. CASE Ydigest_final
  BY <1>5, FinalExact DEF Ydigest_final
<1>6. CASE Ydigest_digest
  BY <1>6, FinalExact DEF Ydigest_digest
<1>7. CASE Ydigest_release
  BY <1>7, ReleaseExact
<1>8. CASE UNCHANGED vars
  BY <1>8 DEF vars, DigestInv, Exact, Input
<1>9. CASE Next
  BY <1>1, <1>2, <1>3, <1>4, <1>5, <1>6, <1>7, <1>9, Zenon DEF Next
<1> QED
  BY <1>8, <1>9

-----------------------------------------------------------------------------
(* What follows from the invariant *)

LEMMA InvType ==
  ASSUME DigestInv
  PROVE  TypeOK
<1>1. ASSUME NEW mode \in Modes, NEW S, Exact(mode, S)
      PROVE  /\ context.mode \in Modes /\ context.finalized \in BOOLEAN
             /\ context.length = Length(Engine(context.mode))
             /\ Len(context.digest) = Max({MD5Length, SHA1Length})
             /\ Len(context.engine.buffer) = BlockSize
             /\ \A w \in 1..2 : context.engine.count[w] \in 0..(CountMod - 1)
  <2>1. context \in Contexts(mode, S)
    BY <1>1 DEF Exact
  <2>2. /\ context.mode = mode /\ context.finalized \in BOOLEAN
        /\ context.length = Length(Engine(mode)) /\ context.digest \in [1..MaxLength -> S]
        /\ context.engine \in Engines(Engine(mode), S)
    BY <2>1, ContextIs
  <2>3. Len(context.digest) = MaxLength
    BY <2>2, MaxLengthType, FunIsSeq
  <2>4. /\ context.engine.buffer \in [1..BlockSize -> S]
        /\ context.engine.count \in Words
    BY <2>2 DEF Engines
  <2>5. Len(context.engine.buffer) = BlockSize
    BY <2>4, BlockSizeType, FunIsSeq
  <2>6. \A w \in 1..2 : context.engine.count[w] \in 0..(CountMod - 1)
    BY <2>4 DEF Words
  <2> QED
    BY <2>2, <2>3, <2>5, <2>6 DEF MaxLength
<1> QED
  BY <1>1, CreatedIs DEF TypeOK, DigestInv

LEMMA InvEngine ==
  ASSUME DigestInv
  PROVE  EngineHoldsMessage
<1>1. ASSUME Created, ~ context.finalized
      PROVE  LET rest == Len(Input) % BlockSize
             IN  /\ context.engine.state = <<Engine(context.mode)>> \o Blocks(Input)
                 /\ context.engine.count[1] = Bits(Len(Input))[1]
                 /\ ~ miscounted => context.engine.count = Bits(Len(Input))
                 /\ SubSeq(context.engine.buffer, 1, rest) =
                      SubSeq(Input, Len(Input) - rest + 1, Len(Input))
  <2>1. PICK mode \in Modes : \E S : Exact(mode, S)
    BY <1>1, CreatedIs
  <2>2. PICK S : Exact(mode, S)
    BY <2>1
  <2>3. PICK e : e = Engine(context.mode) /\ e = Engine(mode)
    BY <2>2, ContextIs DEF Exact
  <2>4. PICK bytes \in Seq(S) : bytes = Input
    BY <2>2, InputType DEF Exact
  <2>5. PICK c : /\ c = context.engine /\ Held(e, S, bytes, c)
                 /\ ~ miscounted => c.count = Bits(Len(bytes))
    BY <1>1, <2>2, <2>3, <2>4 DEF Exact
  <2>6. PICK n \in Nat : n = Len(bytes)
    BY LenProperties
  <2>7. PICK q \in Nat, p \in 0..(BlockSize - 1) :
          q = n \div BlockSize /\ p = n % BlockSize /\ n = Offset(q) + p
    BY Cut
  <2>8. /\ c.count[1] = Bits(n)[1] /\ c.state \in States(e, S) /\ c.buffer \in [1..BlockSize -> S]
        /\ Took(e, bytes, Len(bytes) \div BlockSize, p, c.state, c.buffer)
        /\ Took(e, bytes, q, p, c.state, c.buffer)
    BY <2>5, <2>6, <2>7 DEF Held, Engines
  <2>9. c.state = <<e>> \o Blocks(bytes)
    BY <2>8, TookBlocks
  <2>10. PICK o \in Nat : o = Offset(q) /\ n = o + p /\ n - p = o /\ p \in Nat /\ p <= n
    <3>1. n = Offset(q) + p /\ Offset(q) \in Nat /\ p \in Nat
      BY <2>7, OffsetType
    <3> QED
      BY <3>1
  <2>11. \A i \in 1..p : c.buffer[i] = bytes[o + i]
    BY <2>8, <2>10 DEF Took
  <2>12. SubSeq(c.buffer, 1, p) = SubSeq(bytes, o + 1, n)
    <3>1. PICK b \in Seq(S) : b = c.buffer /\ Len(b) = BlockSize
      BY <2>8, BlockSizeType, FunIsSeq
    <3>2. PICK s \in Seq(S) : s = SubSeq(bytes, o + 1, n) /\ Len(s) = p
                              /\ \A i \in 1..p : s[i] = bytes[o + i]
      <4>1. o <= n /\ n <= Len(bytes)
        BY <2>6, <2>10
      <4>3. n - o = p
        BY <2>10
      <4>2. /\ SubSeq(bytes, o + 1, n) \in Seq(S) /\ Len(SubSeq(bytes, o + 1, n)) = n - o
            /\ \A i \in 1..(n - o) : SubSeq(bytes, o + 1, n)[i] = bytes[o + i]
        BY <4>1, SliceOf
      <4> QED
        BY <4>2, <4>3
    <3>3. PICK t \in Seq(S) : t = SubSeq(b, 1, p) /\ Len(t) = p
                              /\ \A i \in 1..p : t[i] = b[i]
      <4>1. 0 <= p /\ p <= Len(b) /\ p - 0 = p /\ 0 + 1 = 1 /\ \A i \in 1..p : 0 + i = i
        BY <2>10, <3>1
      <4>2. /\ SubSeq(b, 0 + 1, p) \in Seq(S) /\ Len(SubSeq(b, 0 + 1, p)) = p - 0
            /\ \A i \in 1..(p - 0) : SubSeq(b, 0 + 1, p)[i] = b[0 + i]
        BY <2>10, <3>1, <4>1, SliceOf, SMTT(30)
      <4>3. PICK t : t = SubSeq(b, 0 + 1, p) /\ t = SubSeq(b, 1, p)
        BY <4>1
      <4>4. t \in Seq(S) /\ Len(t) = p /\ \A i \in 1..p : t[i] = b[i]
        BY <4>1, <4>2, <4>3
      <4> QED
        BY <4>3, <4>4, Zenon
    <3>4. s = t
      <4>1. Len(s) = Len(t) /\ \A i \in 1..Len(s) : s[i] = t[i]
        BY <2>11, <3>1, <3>2, <3>3
      <4> QED
        BY <4>1, SeqEqual
    <3> QED
      BY <3>1, <3>2, <3>3, <3>4
  <2>13. Len(Input) % BlockSize = p /\ Len(Input) = n
    BY <2>4, <2>6, <2>7
  <2> QED
    BY <2>3, <2>4, <2>5, <2>8, <2>9, <2>10, <2>12, <2>13
<1>2. TypeOK
  BY InvType
<1> QED
  BY <1>1, <1>2 DEF EngineHoldsMessage

LEMMA InvOutput ==
  ASSUME DigestInv
  PROVE  OutputIsDigest
<1> SUFFICES ASSUME out # <<>>, context.mode \in MacModes => keyed, ~ miscounted
             PROVE  out = Expected(context.mode, message)
  BY DEF OutputIsDigest
<1>1. PICK mode \in Modes : \E S : Exact(mode, S)
  BY DEF DigestInv
<1>2. PICK S : Exact(mode, S)
  BY <1>1
<1>3. context.mode = mode
  BY <1>2, ContextIs DEF Exact
<1> QED
  BY <1>2, <1>3 DEF Exact

-----------------------------------------------------------------------------
(* The theorems *)

\* Whatever the calls, a context has the type of its mode: the buffer of a block,
\* counters of a word, and room for the longest digest.
THEOREM DigestTypeCorrect == Spec => []TypeOK
<1>1. Init => DigestInv
  BY InitExact
<1>2. DigestInv /\ [Next]_vars => DigestInv'
  BY StepExact
<1>3. DigestInv => TypeOK
  BY InvType
<1> QED
  BY <1>1, <1>2, <1>3, PTL DEF Spec

\* Until Ydigest_final the engines of MD5 and of SHA-1 have transformed exactly
\* the whole blocks of what Ydigest_update gave them, hold exactly the rest and
\* count all of it in the low word, for every size of block, word and update; the
\* high word is right too, except in SHA-1 after an update of 2^29 bytes or more
\* that leaves the low word without overflow.
THEOREM EngineExact == Spec => []EngineHoldsMessage
<1>1. Init => DigestInv
  BY InitExact
<1>2. DigestInv /\ [Next]_vars => DigestInv'
  BY StepExact
<1>3. DigestInv => EngineHoldsMessage
  BY InvEngine
<1> QED
  BY <1>1, <1>2, <1>3, PTL DEF Spec

\* What Ydigest_digest returns is the digest of the message as one piece, or its
\* MAC: cutting, padding, key blocks, buffers that were used before and counters
\* that overflow make no difference, unless SHA-1 has miscounted the message or a
\* MAC context was reset.
THEOREM OutputExact == Spec => []OutputIsDigest
<1>1. Init => DigestInv
  BY InitExact
<1>2. DigestInv /\ [Next]_vars => DigestInv'
  BY StepExact
<1>3. DigestInv => OutputIsDigest
  BY InvOutput
<1> QED
  BY <1>1, <1>2, <1>3, PTL DEF Spec

=============================================================================

--------------------------- MODULE Ybase64Proofs ----------------------------
(***************************************************************************)
(* Whatever the blocks of memory, the sizes, alignments, texts and         *)
(* messages, and whichever allocations fail: every block has one owner, is *)
(* as long and as aligned as was asked for, a buffer holds what was        *)
(* appended, the code of a message is that of the reference, and decoding  *)
(* it gives the message back.                                              *)
(***************************************************************************)
EXTENDS Ybase64, SequenceTheorems, FiniteSetTheorems, WellFoundedInduction, TLAPS

MemByte == -1..255
Heap    == [Block -> Seq(MemByte)]
Code    == Seq(0..255)

-----------------------------------------------------------------------------
(* The invariant of the memory *)

BufferRecord ==
  [self : Block, data : Block \cup {NULL}, datalen : Nat, dataincr : Nat, pos : Nat,
   status : {"ok", "error"}]

MemType ==
  /\ heap \in Heap
  /\ held \subseteq [ptr : Block, at : Nat, size : Nat, alignment : Nat \ {0}]
  /\ lost \subseteq Block
  /\ detached \in Block \cup {NULL}
  /\ text \in Code

HeldBlocks == {m.ptr : m \in held}

\* The blocks of the heap h are those at H, those at L, that of the buffer b, that of
\* its data, and that at d.
Owns(h, H, L, b, d) ==
  /\ H \subseteq Block /\ L \subseteq Block
  /\ {b.self, b.data, d} \subseteq Block \cup {NULL}
  /\ \A p \in Block :
       h[p] # <<>> <=> p \in H \/ p \in L \/ p = b.self \/ p = b.data \/ p = d
  /\ \A p \in H : p \notin L /\ p # b.self /\ p # b.data /\ p # d
  /\ \A p \in L : p # b.self /\ p # b.data /\ p # d
  /\ b.self # NULL => b.self # b.data /\ b.self # d
  /\ b.data # NULL => b.data # d

Owned == Owns(heap, HeldBlocks, lost, buffer, detached)

HeldOnce == \A m, n \in held : m.ptr = n.ptr => m = n

\* The text t is in the memory of the buffer b in the heap h.
Filled(b, h, t) ==
  /\ b \in BufferRecord
  /\ b.pos = Len(t) /\ b.pos <= b.datalen
  /\ b.data = NULL => b.datalen = 0
  /\ b.data # NULL => Len(h[b.data]) = b.datalen
  /\ \A i \in 1..Len(t) : h[b.data][i] = t[i]

\* After the text, or after an error somewhere behind it, a NUL ends the string.
Holds(b, h, t) ==
  /\ Filled(b, h, t)
  /\ t # <<>> /\ b.status = "ok" => b.pos < b.datalen /\ h[b.data][b.pos + 1] = NUL
  /\ t # <<>> => \E i \in (b.pos + 1)..b.datalen : h[b.data][i] = NUL

\* The inductive invariant of Ymem and Ybuffer.
MInv ==
  /\ MemType
  /\ Owned
  /\ HeldOnce
  /\ HoldsWhatWasAsked
  /\ buffer # NoBuffer => detached = NULL /\ Holds(buffer, heap, text)

-----------------------------------------------------------------------------
(* The invariants of the encoder and of the decoder *)

\* The characters that are written when k bytes of a message have been encoded, those
\* that a message of n bytes has without its padding, and the bytes that k of them
\* give.
Written(k)    == k + k \div 3
Characters(n) == n + (n + 2) \div 3
Decoded(k)    == k - (k + 3) \div 4

\* How many of the first k characters are not the padding.
Clip(n, k) == IF k <= Characters(n) THEN k ELSE Characters(n)

\* The encoder after k bytes of m.
EncoderAt(s, m, k) ==
  /\ s.step = CASE k % 3 = 0 -> "A" [] k % 3 = 1 -> "B" [] k % 3 = 2 -> "C"
  /\ k % 3 = 1 => s.result = (m[k] % 4) * 16
  /\ k % 3 = 2 => s.result = (m[k] % 16) * 4

\* The decoder before the character number j, from 0, of the four that the bytes x, y and
\* z make, and the digit that the character stands for.
Place(d, j, x, y, z) ==
  /\ j = 0 => d.step = "a"
  /\ j = 1 => d.step = "b" /\ d.plain = (x \div 4) * 4
  /\ j = 2 => d.step = "c" /\ d.plain = (y \div 16) * 16
  /\ j = 3 => d.step = "d" /\ d.plain = (z \div 64) * 64

Sextet(j, x, y, z) ==
  CASE j = 0 -> x \div 4
    [] j = 1 -> (x % 4) * 16 + y \div 16
    [] j = 2 -> (y % 16) * 4 + z \div 64
    [] j = 3 -> z % 64

\* The decoder after k characters of the code of m.
DecoderAt(d, m, k) ==
  LET q == k \div 4
  IN  Place(d, k % 4, Byte(m, 3 * q + 1), Byte(m, 3 * q + 2), Byte(m, 3 * q + 3))

\* The text t is at p, with a NUL behind it; before the first text there is no NUL.
StringAt(h, p, t) ==
  /\ t = <<>> => \A i \in 1..Len(h[p]) : h[p][i] # NUL
  /\ t # <<>> => /\ Len(t) < Len(h[p]) /\ h[p][Len(t) + 1] = NUL
                 /\ \A i \in 1..Len(t) : h[p][i] = t[i]

Starts(t, c) == Len(t) <= Len(c) /\ \A i \in 1..Len(t) : t[i] = c[i]

EncodingType ==
  /\ encoding \in [pc : {"idle", "blocks", "end"},
                   state : [step : {"A", "B", "C"}, result : 0..63, out : {<<>>}],
                   rest : Code]
  /\ message \in Code
  /\ complete \in BOOLEAN
  /\ encoding.pc = "idle" => encoding = Idle

\* Ybase64_encode under way.
Encodes ==
  LET k == Len(message) - Len(encoding.rest)
  IN  /\ buffer # NoBuffer /\ buffer.data # NULL
      /\ k >= 0 /\ \A i \in 1..Len(encoding.rest) : encoding.rest[i] = message[k + i]
      /\ EncoderAt(encoding.state, message, k)
      /\ StringAt(heap, buffer.data, text)
      /\ Starts(text, Base64(message))
      /\ encoding.pc = "blocks" /\ buffer.status = "ok" => Len(text) = Written(k)
      /\ encoding.pc = "end" =>
           encoding.rest = <<>> /\ (buffer.status = "ok" => text = Base64(message))

\* Its result, while the caller has it.
Result ==
  /\ StringAt(heap, detached, text)
  /\ Starts(text, Base64(message))
  /\ complete => text = Base64(message)

EInv ==
  /\ EncodingType
  /\ encoding.pc # "idle" => Encodes
  /\ encoding.pc = "idle" /\ (buffer # NoBuffer \/ detached = NULL) => message = <<>>
  /\ Encoded => Result

\* The decoding of the result.
Decodes ==
  LET k == Len(text) - Len(decoding.code)
      c == Clip(Len(message), k)
  IN  /\ Encoded /\ text # <<>>
      /\ k >= 0 /\ \A i \in 1..Len(decoding.code) : decoding.code[i] = text[k + i]
      /\ DecoderAt(decoding.state, message, c)
      /\ Starts(decoding.out, message)
      /\ Len(decoding.out) = Decoded(c)

DInv ==
  /\ decoding \in [state : [step : {"a", "b", "c", "d"}, plain : -1..255, out : {<<>>}],
                   out : Code, code : Code]
  /\ decoding # NoCode => Decodes

-----------------------------------------------------------------------------
(* Induction, and what a fold over a sequence is *)

\* A set of numbers that is not empty has a smallest one.
LEMMA Smallest ==
  ASSUME NEW S \in SUBSET Nat, S # {}
  PROVE  \E x \in S : \A y \in S : x <= y
<1> DEFINE Below == {0..x : x \in S}
           Less == StrictSubsetOrdering(Nat)
<1>1. IsWellFoundedOn(Less, FiniteSubsetsOf(Nat))
  BY FS_StrictSubsetOrderingWellFounded
<1>2. Below \subseteq FiniteSubsetsOf(Nat) /\ Below # {}
  <2>1. \A x \in S : IsFiniteSet(0..x) /\ 0..x \in SUBSET Nat
    BY FS_Interval
  <2> QED
    BY <2>1 DEF FiniteSubsetsOf
<1> HIDE DEF Less, Below
<1>3. PICK B \in Below : \A C \in Below : ~ (<<C, B>> \in Less)
  BY <1>1, <1>2, WFMin
<1>4. PICK x \in S : B = 0..x
  BY DEF Below
<1>5. ASSUME NEW y \in S, y < x PROVE FALSE
  <2>1. 0..y \in SUBSET Nat /\ 0..x \in SUBSET Nat /\ 0..y \subseteq 0..x
    BY <1>5
  <2>2. x \in 0..x /\ x \notin 0..y
    BY <1>5
  <2>3. <<0..y, B>> \in Less
    BY <1>4, <2>1, <2>2 DEF Less, StrictSubsetOrdering
  <2> QED
    BY <1>3, <2>3 DEF Below
<1> QED
  BY <1>5

\* What holds of 0, and of i + 1 if of i, holds of all numbers up to n.
LEMMA UpTo ==
  ASSUME NEW n \in Nat, NEW S, 0 \in S, \A i \in 0..(n - 1) : i \in S => i + 1 \in S
  PROVE  \A i \in 0..n : i \in S
<1> DEFINE Out == {i \in 0..n : i \notin S}
<1>1. ASSUME Out # {} PROVE FALSE
  <2>1. Out \in SUBSET Nat
    OBVIOUS
  <2>2. PICK x \in Out : \A y \in Out : x <= y
    BY <1>1, <2>1, Smallest
  <2>3. x # 0 /\ x \in 0..n
    BY <2>2
  <2>4. x - 1 \in 0..(n - 1) /\ x - 1 \notin Out
    BY <2>2, <2>3
  <2> QED
    BY <2>2, <2>3, <2>4
<1> QED
  BY <1>1

LEMMA MaxOfSet ==
  ASSUME NEW n \in Nat, NEW s \in SUBSET (1..(n + 1)), n + 1 \in s
  PROVE  Max(s) = n + 1
<1>1. \A y \in s : n + 1 >= y
  OBVIOUS
<1>2. Max(s) \in s /\ \A y \in s : Max(s) >= y
  BY <1>1 DEF Max
<1>3. Max(s) \in 1..(n + 1)
  BY <1>2
<1> QED
  BY <1>2, <1>3

\* The equation of a fold over the subsets of 1..m, from the start x with the step G.
Folds(R, x, G, m, f) ==
  /\ f \in [SUBSET (1..m) -> R]
  /\ f[{}] = x
  /\ \A s \in SUBSET (1..m) :
       s # {} => Max(s) \in s /\ f[s] = G[<<Max(s), f[s \ {Max(s)}]>>]

LEMMA FoldExists ==
  ASSUME NEW R, NEW x \in R, NEW n \in Nat, NEW G \in [(1..n) \X R -> R]
  PROVE  \E f : Folds(R, x, G, n, f)
<1> DEFINE S == {m \in 0..n : \E f : Folds(R, x, G, m, f)}
<1>1. 0 \in S
  <2> DEFINE f == [s \in {{}} |-> x]
  <2>1. SUBSET (1..0) = {{}}
    OBVIOUS
  <2>2. f \in [SUBSET (1..0) -> R] /\ f[{}] = x
    BY <2>1
  <2>3. Folds(R, x, G, 0, f)
    BY <2>1, <2>2 DEF Folds
  <2> QED
    BY <2>3
<1>2. ASSUME NEW m \in 0..(n - 1), m \in S PROVE m + 1 \in S
  <2>1. PICK f : Folds(R, x, G, m, f)
    BY <1>2
  <2> DEFINE g == [s \in SUBSET (1..(m + 1)) |->
                     IF m + 1 \in s THEN G[<<m + 1, f[s \ {m + 1}]>>] ELSE f[s]]
  <2>2. \A s \in SUBSET (1..(m + 1)) : s \ {m + 1} \in SUBSET (1..m)
    OBVIOUS
  <2>3. m + 1 \in 1..n /\ m + 1 \in 0..n /\ m \in Nat
    BY <1>2
  <2>4. \A s \in SUBSET (1..m) : f[s] \in R
    BY <2>1 DEF Folds
  <2>5. \A s \in SUBSET (1..(m + 1)) : m + 1 \notin s => s \in SUBSET (1..m)
    OBVIOUS
  <2>6. \A s \in SUBSET (1..(m + 1)) : g[s] \in R
    BY <2>2, <2>3, <2>4, <2>5
  <2>7. g \in [SUBSET (1..(m + 1)) -> R]
    BY <2>6
  <2>8. g[{}] = x
    BY <2>1 DEF Folds
  <2>9. ASSUME NEW s \in SUBSET (1..(m + 1)), s # {}
        PROVE Max(s) \in s /\ g[s] = G[<<Max(s), g[s \ {Max(s)}]>>]
    <3>1. CASE m + 1 \in s
      <4>1. Max(s) = m + 1
        BY <2>3, <3>1, MaxOfSet
      <4>2. s \ {m + 1} \in SUBSET (1..(m + 1)) /\ m + 1 \notin s \ {m + 1}
        OBVIOUS
      <4>3. g[s \ {m + 1}] = f[s \ {m + 1}]
        BY <4>2
      <4>4. g[s] = G[<<m + 1, f[s \ {m + 1}]>>]
        BY <3>1
      <4> QED
        BY <3>1, <4>1, <4>3, <4>4
    <3>2. CASE m + 1 \notin s
      <4>1. s \in SUBSET (1..m)
        BY <2>5, <3>2
      <4>2. Max(s) \in s /\ f[s] = G[<<Max(s), f[s \ {Max(s)}]>>]
        BY <2>1, <2>9, <4>1 DEF Folds
      <4>3. g[s] = f[s]
        BY <3>2
      <4>4. s \ {Max(s)} \in SUBSET (1..(m + 1)) /\ m + 1 \notin s \ {Max(s)}
        BY <3>2
      <4>5. g[s \ {Max(s)}] = f[s \ {Max(s)}]
        BY <4>4
      <4> QED
        BY <4>2, <4>3, <4>5
    <3> QED
      BY <3>1, <3>2
  <2>10. Folds(R, x, G, m + 1, g)
    BY <2>7, <2>8, <2>9 DEF Folds
  <2> QED
    BY <2>3, <2>10
<1>3. \A i \in 0..n : i \in S
  BY <1>1, <1>2, UpTo
<1> QED
  BY <1>3

LEMMA Initial ==
  ASSUME NEW n \in Nat
  PROVE  \A i \in 1..n : /\ Max(1..i) = i /\ (1..i) \ {i} = 1..(i - 1)
                          /\ 1..i \in SUBSET (1..n) /\ 1..i # {}
<1> TAKE i \in 1..n
<1>1. i - 1 \in Nat /\ (i - 1) + 1 = i /\ i \in 1..i /\ 1..i \in SUBSET (1..n)
  OBVIOUS
<1>2. (i - 1) + 1 \in 1..i /\ 1..i \in SUBSET (1..((i - 1) + 1))
  BY <1>1
<1>3. Max(1..i) = (i - 1) + 1
  BY <1>1, <1>2, MaxOfSet, Zenon
<1> QED
  BY <1>1, <1>3

\* The states of the encoder, and one for each byte that it is given.
Encoder == [step : {"A", "B", "C"}, result : 0..63, out : Code]

Running(s, bytes, g) ==
  /\ g \in [0..Len(bytes) -> Encoder]
  /\ g[0] = [s EXCEPT !.out = <<>>]
  /\ \A i \in 1..Len(bytes) : g[i] = EncodeByte(g[i - 1], bytes[i])

LEMMA ValueIsCode ==
  ASSUME NEW v \in Nat
  PROVE  base64_encode_value(v) \in 43..122 /\ base64_encode_value(v) \in 0..255
BY DEF base64_encode_value

\* The digits that a byte gives.
LEMMA Parts ==
  ASSUME NEW f \in 0..255
  PROVE  /\ f \div 4 \in 0..63 /\ (f % 4) * 16 \in 0..48
         /\ f \div 16 \in 0..15 /\ (f % 16) * 4 \in 0..60
         /\ f \div 64 \in 0..3 /\ f % 64 \in 0..63
         /\ f % 16 \in 0..15 /\ f % 4 \in 0..3
OBVIOUS

LEMMA AppendCode ==
  ASSUME NEW s \in Code, NEW c \in 0..255
  PROVE  /\ Append(s, c) \in Code /\ Len(Append(s, c)) = Len(s) + 1
         /\ Append(s, c)[Len(s) + 1] = c
         /\ \A i \in 1..Len(s) : Append(s, c)[i] = s[i]
BY AppendProperties DEF Code

LEMMA EncodeByteType ==
  ASSUME NEW s \in Encoder, NEW f \in 0..255
  PROVE  EncodeByte(s, f) \in Encoder
<1>1. s.result \in 0..63 /\ s.out \in Code /\ s.step \in {"A", "B", "C"}
  BY DEF Encoder
<1>2. CASE s.step = "A"
  <2>1. EncodeByte(s, f) = [step |-> "B", result |-> (f % 4) * 16,
                            out |-> Append(s.out, base64_encode_value(f \div 4))]
    BY <1>2 DEF EncodeByte
  <2>2. f \div 4 \in Nat
    BY Parts
  <2>3. base64_encode_value(f \div 4) \in 0..255
    BY <2>2, ValueIsCode
  <2>4. Append(s.out, base64_encode_value(f \div 4)) \in Code
    BY <1>1, <2>3, AppendCode
  <2>5. (f % 4) * 16 \in 0..63
    BY Parts
  <2> QED
    BY <2>1, <2>4, <2>5 DEF Encoder
<1>3. CASE s.step = "B"
  <2>1. EncodeByte(s, f) = [step |-> "C", result |-> (f % 16) * 4,
                            out |-> Append(s.out, base64_encode_value(s.result + f \div 16))]
    BY <1>3 DEF EncodeByte
  <2>2. s.result + f \div 16 \in Nat
    BY <1>1, Parts
  <2>3. Append(s.out, base64_encode_value(s.result + f \div 16)) \in Code
    BY <1>1, <2>2, ValueIsCode, AppendCode
  <2>4. (f % 16) * 4 \in 0..63
    BY Parts
  <2> QED
    BY <2>1, <2>3, <2>4 DEF Encoder
<1>4. CASE s.step = "C"
  <2> DEFINE v == base64_encode_value(s.result + f \div 64)
             w == base64_encode_value(f % 64)
  <2>1. EncodeByte(s, f) = [step |-> "A", result |-> f % 64, out |-> s.out \o <<v, w>>]
    BY <1>4 DEF EncodeByte
  <2>2. s.result + f \div 64 \in Nat /\ f % 64 \in 0..63
    BY <1>1, Parts
  <2>3. v \in 0..255 /\ w \in 0..255
    BY <2>2, ValueIsCode
  <2> HIDE DEF v, w
  <2>4. <<v, w>> \in Code
    BY <2>3 DEF Code
  <2>5. s.out \o <<v, w>> \in Code
    BY <1>1, <2>4, ConcatProperties DEF Code
  <2> QED
    BY <2>1, <2>2, <2>5 DEF Encoder
<1> QED
  BY <1>1, <1>2, <1>3, <1>4

\* What the fold computes, byte by byte.
LEMMA EncodeRuns ==
  ASSUME NEW s \in Encoder, NEW bytes \in Code
  PROVE  \E g : Running(s, bytes, g) /\ base64_encode_block(s, bytes) = g[Len(bytes)]
<1> DEFINE n == Len(bytes)
           base == [s EXCEPT !.out = <<>>]
           G == [p \in (1..n) \X Encoder |-> EncodeByte(p[2], bytes[p[1]])]
<1>1. n \in Nat /\ DOMAIN bytes = 1..n /\ \A i \in 1..n : bytes[i] \in 0..255
  BY LenProperties, ElementOfSeq DEF Code
<1>2. base \in Encoder
  BY EmptySeq DEF Encoder, Code
<1>3. G \in [(1..n) \X Encoder -> Encoder]
  BY <1>1, EncodeByteType
<1> HIDE DEF G
<1>4. PICK f : Folds(Encoder, base, G, n, f)
  BY <1>1, <1>2, <1>3, FoldExists
<1>5. \A t \in SUBSET (1..n) :
        /\ f[t] \in Encoder
        /\ t # {} => Max(t) \in t /\ f[t] = EncodeByte(f[t \ {Max(t)}], bytes[Max(t)])
  <2> TAKE t \in SUBSET (1..n)
  <2>1. f[t] \in Encoder /\ f[t \ {Max(t)}] \in Encoder
    BY <1>4 DEF Folds
  <2>2. t # {} => Max(t) \in t /\ f[t] = G[<<Max(t), f[t \ {Max(t)}]>>]
    BY <1>4 DEF Folds
  <2> QED
    BY <2>1, <2>2 DEF G
<1> DEFINE Body(h) == [t \in SUBSET (1..n) |->
                         IF t = {} THEN base ELSE EncodeByte(h[t \ {Max(t)}], bytes[Max(t)])]
<1>6. f = Body(f)
  <2>1. f = [t \in SUBSET (1..n) |-> f[t]] /\ f[{}] = base
    BY <1>4 DEF Folds
  <2> QED
    BY <1>5, <2>1
<1> DEFINE iter == CHOOSE h : h = Body(h)
<1>7. iter = Body(iter)
  BY <1>6
<1>8. base64_encode_block(s, bytes) = iter[1..n]
  BY <1>1 DEF base64_encode_block, FoldLeft, MapThenFoldSet
<1> HIDE DEF iter, base
<1>9. iter[{}] = base /\ \A t \in SUBSET (1..n) :
        t # {} => iter[t] = EncodeByte(iter[t \ {Max(t)}], bytes[Max(t)])
  BY <1>7, Zenon
<1>10. 1..0 = {} /\ \A i \in 1..n : iter[1..i] = EncodeByte(iter[1..(i - 1)], bytes[i])
  <2>1. n \in Nat
    BY <1>1
  <2>2. \A i \in 1..n : /\ Max(1..i) = i /\ (1..i) \ {i} = 1..(i - 1)
                        /\ 1..i \in SUBSET (1..n) /\ 1..i # {}
    BY <2>1, Initial
  <2>3. ASSUME NEW i \in 1..n PROVE iter[1..i] = EncodeByte(iter[1..(i - 1)], bytes[i])
    <3>1. iter[1..i] = EncodeByte(iter[(1..i) \ {Max(1..i)}], bytes[Max(1..i)])
      BY <1>9, <2>2
    <3> QED
      BY <2>2, <3>1
  <2>4. 1..0 = {}
    OBVIOUS
  <2> QED
    BY <2>3, <2>4
<1> DEFINE S == {i \in 0..n : iter[1..i] \in Encoder}
<1>11. \A i \in 0..n : i \in S
  <2>1. 0 \in S
    BY <1>1, <1>2, <1>9, <1>10
  <2>2. \A i \in 0..(n - 1) : i \in S => i + 1 \in S
    <3> TAKE i \in 0..(n - 1)
    <3>1. i + 1 \in 1..n /\ (i + 1) - 1 = i
      BY <1>1
    <3>2. ASSUME iter[1..i] \in Encoder PROVE iter[1..(i + 1)] \in Encoder
      <4>1. bytes[i + 1] \in 0..255 /\ iter[1..(i + 1)] = EncodeByte(iter[1..i], bytes[i + 1])
        BY <1>1, <1>10, <3>1
      <4> QED
        BY <3>2, <4>1, EncodeByteType
    <3> QED
      BY <1>1, <3>1, <3>2
  <2> HIDE DEF S
  <2> QED
    BY <1>1, <2>1, <2>2, UpTo
<1> DEFINE g == [i \in 0..n |-> iter[1..i]]
<1>12. Running(s, bytes, g)
  <2>1. g \in [0..n -> Encoder]
    BY <1>11
  <2>2. g[0] = base
    BY <1>1, <1>9, <1>10
  <2>3. \A i \in 1..n : g[i] = EncodeByte(g[i - 1], bytes[i])
    BY <1>1, <1>10
  <2> QED
    BY <2>1, <2>2, <2>3 DEF Running, base
<1>13. base64_encode_block(s, bytes) = g[n]
  BY <1>1, <1>8
<1> QED
  BY <1>12, <1>13

-----------------------------------------------------------------------------
(* The reference *)

LEMMA ByteType ==
  ASSUME NEW m \in Code, NEW i \in Nat \ {0}
  PROVE  Byte(m, i) \in 0..255
<1>1. Len(m) \in Nat /\ \A j \in 1..Len(m) : m[j] \in 0..255
  BY LenProperties, ElementOfSeq DEF Code
<1> QED
  BY <1>1 DEF Byte

\* The four digits of a number of three bytes.
LEMMA FourDigits ==
  ASSUME NEW m \in Code, NEW g \in Nat
  PROVE  LET x == Byte(m, 3 * g + 1)
             y == Byte(m, 3 * g + 2)
             z == Byte(m, 3 * g + 3)
         IN  /\ (Number(m, g) \div Places[1]) % 64 = x \div 4
             /\ (Number(m, g) \div Places[2]) % 64 = (x % 4) * 16 + y \div 16
             /\ (Number(m, g) \div Places[3]) % 64 = (y % 16) * 4 + z \div 64
             /\ (Number(m, g) \div Places[4]) % 64 = z % 64
<1>1. PICK x \in 0..255 : x = Byte(m, 3 * g + 1)
  BY ByteType
<1>2. PICK y \in 0..255 : y = Byte(m, 3 * g + 2)
  BY ByteType
<1>3. PICK z \in 0..255 : z = Byte(m, 3 * g + 3)
  BY ByteType
<1>4. PICK v \in Nat : v = x * 65536 + y * 256 + z
  OBVIOUS
<1>5. Number(m, g) = v
  BY <1>1, <1>2, <1>3, <1>4 DEF Number
<1>6. /\ Places[1] = 262144 /\ Places[2] = 4096 /\ Places[3] = 64 /\ Places[4] = 1
  BY DEF Places
<1>7. (v \div 262144) % 64 = x \div 4
  BY <1>4
<1>8. (v \div 4096) % 64 = (x % 4) * 16 + y \div 16
  <2>1. v \div 4096 = x * 16 + y \div 16
    BY <1>4
  <2>2. (x * 16 + y \div 16) % 64 = (x % 4) * 16 + y \div 16
    OBVIOUS
  <2> QED
    BY <2>1, <2>2
<1>9. (v \div 64) % 64 = (y % 16) * 4 + z \div 64
  <2>1. v \div 64 = x * 1024 + y * 4 + z \div 64
    BY <1>4
  <2>2. (x * 1024 + y * 4 + z \div 64) % 64 = (y % 16) * 4 + z \div 64
    OBVIOUS
  <2> QED
    BY <2>1, <2>2
<1>10. (v \div 1) % 64 = z % 64
  BY <1>4
<1> QED
  BY <1>1, <1>2, <1>3, <1>5, <1>6, <1>7, <1>8, <1>9, <1>10

LEMMA DigitType ==
  ASSUME NEW x \in 0..255, NEW y \in 0..255
  PROVE  /\ x \div 4 \in 0..63 /\ (x % 4) * 16 + y \div 16 \in 0..63
         /\ (x % 16) * 4 + y \div 64 \in 0..63 /\ x % 64 \in 0..63
OBVIOUS

Digit(m, i) ==
  LET g == (i - 1) \div 4
      j == i - 4 * g
  IN  IF 3 * g + j > Len(m) + 1 THEN Pad
      ELSE base64_encode_value((Number(m, g) \div Places[j]) % 64)

\* The four codes of the group of the bytes from 3 * q + 1 on.
GroupCode(m, q) ==
  LET c == Base64(m)
      n == Len(m)
      x == Byte(m, 3 * q + 1)
      y == Byte(m, 3 * q + 2)
      z == Byte(m, 3 * q + 3)
  IN  /\ 4 * q + 4 <= 4 * ((n + 2) \div 3)
      /\ c[4 * q + 1] = base64_encode_value(x \div 4)
      /\ c[4 * q + 2] = base64_encode_value((x % 4) * 16 + y \div 16)
      /\ c[4 * q + 3] = IF 3 * q + 2 > n THEN Pad
                        ELSE base64_encode_value((y % 16) * 4 + z \div 64)
      /\ c[4 * q + 4] = IF 3 * q + 3 > n THEN Pad ELSE base64_encode_value(z % 64)

LEMMA CodeAt ==
  ASSUME NEW m \in Code, NEW q \in Nat, 3 * q < Len(m)
  PROVE  GroupCode(m, q)
<1> DEFINE n == Len(m)
           x == Byte(m, 3 * q + 1)
           y == Byte(m, 3 * q + 2)
           z == Byte(m, 3 * q + 3)
           v == Number(m, q)
<1>1. n \in Nat
  BY LenProperties DEF Code
<1>2. x \in 0..255 /\ y \in 0..255 /\ z \in 0..255
  BY ByteType
<1>3. 4 * q + 4 <= 4 * ((n + 2) \div 3)
  BY <1>1
<1>4. Base64(m) = [i \in 1..(4 * ((n + 2) \div 3)) |-> Digit(m, i)]
  BY DEF Base64, Digit
<1>5. \A j \in 1..4 : ((4 * q + j) - 1) \div 4 = q /\ (4 * q + j) - 4 * q = j
  OBVIOUS
<1>6. \A j \in 1..4 : Base64(m)[4 * q + j] =
        IF 3 * q + j > n + 1 THEN Pad ELSE base64_encode_value((v \div Places[j]) % 64)
  <2> TAKE j \in 1..4
  <2>1. 4 * q + j \in 1..(4 * ((n + 2) \div 3))
    BY <1>1, <1>3
  <2>2. Base64(m)[4 * q + j] = Digit(m, 4 * q + j)
    BY <1>4, <2>1
  <2> QED
    BY <1>5, <2>2 DEF Digit
<1> HIDE DEF x, y, z, v
<1>7. /\ (v \div Places[1]) % 64 = x \div 4
      /\ (v \div Places[2]) % 64 = (x % 4) * 16 + y \div 16
      /\ (v \div Places[3]) % 64 = (y % 16) * 4 + z \div 64
      /\ (v \div Places[4]) % 64 = z % 64
  BY FourDigits, Zenon DEF v, x, y, z
<1>8. Base64(m)[4 * q + 1] = base64_encode_value(x \div 4)
  BY <1>1, <1>6, <1>7
<1>9. Base64(m)[4 * q + 2] = base64_encode_value((x % 4) * 16 + y \div 16)
  BY <1>1, <1>6, <1>7
<1>10. Base64(m)[4 * q + 3] = IF 3 * q + 2 > n THEN Pad
                              ELSE base64_encode_value((y % 16) * 4 + z \div 64)
  BY <1>1, <1>6, <1>7
<1>11. Base64(m)[4 * q + 4] = IF 3 * q + 3 > n THEN Pad ELSE base64_encode_value(z % 64)
  BY <1>1, <1>6, <1>7
<1> QED
  BY <1>3, <1>8, <1>9, <1>10, <1>11 DEF GroupCode, x, y, z

LEMMA Base64Type ==
  ASSUME NEW m \in Code
  PROVE  /\ Base64(m) \in Code
         /\ Len(Base64(m)) = 4 * ((Len(m) + 2) \div 3)
         /\ \A i \in 1..Len(Base64(m)) : Base64(m)[i] \in 43..122
<1> DEFINE n == 4 * ((Len(m) + 2) \div 3)
<1>1. Len(m) \in Nat /\ n \in Nat
  BY LenProperties DEF Code
<1>2. Base64(m) = [i \in 1..n |-> Digit(m, i)]
  BY DEF Base64, Digit
<1>3. ASSUME NEW i \in 1..n PROVE Digit(m, i) \in 43..122
  <2> DEFINE g == (i - 1) \div 4
             j == i - 4 * g
  <2>1. g \in Nat /\ j \in 1..4
    BY <1>1
  <2> HIDE DEF g, j
  <2>2. PICK v : v = (Number(m, g) \div Places[j]) % 64
    OBVIOUS
  <2>3. Byte(m, 3 * g + 1) \in 0..255 /\ Byte(m, 3 * g + 2) \in 0..255 /\ Byte(m, 3 * g + 3) \in 0..255
    BY <2>1, ByteType
  <2>4. v \in Nat
    <3>1. j = 1 \/ j = 2 \/ j = 3 \/ j = 4
      BY <2>1
    <3>2. /\ (Number(m, g) \div Places[1]) % 64 = Byte(m, 3 * g + 1) \div 4
          /\ (Number(m, g) \div Places[2]) % 64
                = (Byte(m, 3 * g + 1) % 4) * 16 + Byte(m, 3 * g + 2) \div 16
          /\ (Number(m, g) \div Places[3]) % 64
                = (Byte(m, 3 * g + 2) % 16) * 4 + Byte(m, 3 * g + 3) \div 64
          /\ (Number(m, g) \div Places[4]) % 64 = Byte(m, 3 * g + 3) % 64
      BY <2>1, FourDigits, Zenon
    <3>3. PICK x \in 0..255, y \in 0..255, z \in 0..255 :
            /\ x = Byte(m, 3 * g + 1) /\ y = Byte(m, 3 * g + 2) /\ z = Byte(m, 3 * g + 3)
      BY <2>3, Zenon
    <3>4. v = x \div 4 \/ v = (x % 4) * 16 + y \div 16
          \/ v = (y % 16) * 4 + z \div 64 \/ v = z % 64
      BY <2>2, <3>1, <3>2, <3>3, ZenonT(40)
    <3>5. x \div 4 \in Nat /\ (x % 4) * 16 + y \div 16 \in Nat
          /\ (y % 16) * 4 + z \div 64 \in Nat /\ z % 64 \in Nat
      OBVIOUS
    <3> QED
      BY <3>4, <3>5
  <2>5. base64_encode_value(v) \in 43..122 /\ Pad \in 43..122
    BY <2>4, ValueIsCode DEF Pad
  <2> QED
    BY <2>2, <2>5 DEF Digit, g, j
<1> HIDE DEF n
<1>4. \A i \in 1..n : Digit(m, i) \in 0..255
  BY <1>3
<1>5. Base64(m) \in [1..n -> 0..255]
  BY <1>2, <1>4, Zenon
<1>6. Base64(m) \in Seq(0..255) /\ Len(Base64(m)) = n
  BY <1>1, <1>5, LenProperties
<1>7. \A i \in 1..n : Base64(m)[i] \in 43..122
  BY <1>2, <1>3
<1> QED
  BY <1>6, <1>7 DEF Code, n

-----------------------------------------------------------------------------
(* The encoder *)

LEMMA SeqLength ==
  ASSUME NEW S, NEW s \in Seq(S)
  PROVE  /\ Len(s) \in Nat /\ DOMAIN s = 1..Len(s) /\ \A i \in 1..Len(s) : s[i] \in S
         /\ s = <<>> <=> Len(s) = 0
BY LenProperties, ElementOfSeq, EmptySeq

\* The elements x + 1 to y of w have been put behind t.
Adds(w, x, y, t, u) ==
  /\ u \in Code
  /\ Len(u) = Len(t) + y - x
  /\ \A i \in 1..Len(t) : u[i] = t[i]
  /\ \A i \in 1..(y - x) : u[Len(t) + i] = w[x + i]

LEMMA AddsNothing ==
  ASSUME NEW w, NEW x \in Nat, NEW t \in Code
  PROVE  Adds(w, x, x, t, t)
BY SeqLength DEF Adds, Code

LEMMA AddsOne ==
  ASSUME NEW w, NEW x \in Nat, NEW t \in Code, NEW c \in 0..255, c = w[x + 1]
  PROVE  Adds(w, x, x + 1, t, Append(t, c))
<1>1. PICK p \in Nat : p = Len(t)
  BY SeqLength DEF Code
<1>2. /\ Append(t, c) \in Code /\ Len(Append(t, c)) = p + 1
      /\ Append(t, c)[p + 1] = c
      /\ \A i \in 1..p : Append(t, c)[i] = t[i]
  BY <1>1, AppendCode, Zenon
<1>3. (x + 1) - x = 1 /\ p + (x + 1) - x = p + 1
  OBVIOUS
<1>4. \A i \in 1..1 : Append(t, c)[p + i] = w[x + i]
  BY <1>2
<1> QED
  BY <1>1, <1>2, <1>3, <1>4 DEF Adds

LEMMA AddsTogether ==
  ASSUME NEW w, NEW x \in Nat, NEW y \in Nat, NEW z \in Nat, x <= y, y <= z,
         NEW t \in Code, NEW u \in Code, NEW v \in Code,
         Adds(w, x, y, t, u), Adds(w, y, z, u, v)
  PROVE  Adds(w, x, z, t, v)
<1>1. PICK p \in Nat : p = Len(t)
  BY SeqLength DEF Code
<1>2. /\ Len(u) = p + y - x
      /\ \A i \in 1..p : u[i] = t[i]
      /\ \A i \in 1..(y - x) : u[p + i] = w[x + i]
  BY <1>1 DEF Adds
<1>3. PICK e \in Nat : e = Len(u) /\ e = p + y - x
  BY <1>2, SeqLength DEF Code
<1>4. /\ v \in Code /\ Len(v) = e + z - y
      /\ \A i \in 1..e : v[i] = u[i]
      /\ \A i \in 1..(z - y) : v[e + i] = w[y + i]
  BY <1>3 DEF Adds
<1>5. e + z - y = p + z - x
  BY <1>3
<1>6. \A i \in 1..p : v[i] = t[i]
  <2>1. \A i \in 1..p : i \in 1..e
    BY <1>3
  <2> QED
    BY <1>2, <1>4, <2>1
<1>7. ASSUME NEW i \in 1..(z - x) PROVE v[p + i] = w[x + i]
  <2>1. CASE i <= y - x
    <3>1. p + i \in 1..e /\ i \in 1..(y - x)
      BY <1>3, <2>1
    <3> QED
      BY <1>2, <1>4, <3>1
  <2>2. CASE i > y - x
    <3>1. PICK j \in 1..(z - y) : j = i - (y - x)
      BY <2>2
    <3>2. p + i = e + j /\ x + i = y + j
      BY <1>3, <3>1
    <3> QED
      BY <1>4, <3>2
  <2> QED
    BY <2>1, <2>2
<1> QED
  BY <1>1, <1>4, <1>5, <1>6, <1>7 DEF Adds

\* The encoder has put the code of the bytes k + 1 to l of m behind the text t.
Puts(m, k, l, t, u) == Adds(Base64(m), Written(k), Written(l), t, u)

LEMMA PutOne ==
  ASSUME NEW m, NEW k, NEW t \in Code, NEW c \in 0..255, NEW w \in Nat,
         Written(k) = w, Written(k + 1) = w + 1, c = Base64(m)[w + 1]
  PROVE  Puts(m, k, k + 1, t, Append(t, c))
BY AddsOne, Zenon DEF Puts

LEMMA PutTwo ==
  ASSUME NEW m, NEW k, NEW t \in Code, NEW c \in 0..255, NEW d \in 0..255, NEW w \in Nat,
         Written(k) = w, Written(k + 1) = w + 2,
         c = Base64(m)[w + 1], d = Base64(m)[w + 2]
  PROVE  Puts(m, k, k + 1, t, t \o <<c, d>>)
<1> DEFINE u == t \o <<c, d>>
<1>1. Len(t) \in Nat
  BY LenProperties DEF Code
<1>2. <<c, d>> \in Code /\ Len(<<c, d>>) = 2 /\ <<c, d>>[1] = c /\ <<c, d>>[2] = d
  BY DEF Code
<1>3. /\ u \in Code /\ Len(u) = Len(t) + 2
      /\ \A i \in 1..(Len(t) + 2) : u[i] = IF i <= Len(t) THEN t[i] ELSE <<c, d>>[i - Len(t)]
  BY <1>2, ConcatProperties DEF Code
<1>4. Written(k + 1) - Written(k) = 2 /\ Len(t) + Written(k + 1) - Written(k) = Len(t) + 2
  BY <1>1
<1> HIDE DEF u
<1>5. \A i \in 1..Len(t) : u[i] = t[i]
  BY <1>1, <1>3
<1>6. u[Len(t) + 1] = c /\ u[Len(t) + 2] = d
  <2>1. /\ Len(t) + 1 \in 1..(Len(t) + 2) /\ ~ (Len(t) + 1 <= Len(t)) /\ (Len(t) + 1) - Len(t) = 1
        /\ Len(t) + 2 \in 1..(Len(t) + 2) /\ ~ (Len(t) + 2 <= Len(t)) /\ (Len(t) + 2) - Len(t) = 2
    BY <1>1
  <2> QED
    BY <1>2, <1>3, <2>1
<1>7. \A i \in 1..2 : u[Len(t) + i] = Base64(m)[Written(k) + i]
  BY <1>6
<1>8. Puts(m, k, k + 1, t, u)
  BY <1>3, <1>4, <1>5, <1>7 DEF Puts, Adds
<1> QED
  BY <1>8 DEF u

LEMMA EncodeByteMakes ==
  ASSUME NEW m \in Code, NEW k \in 0..(Len(m) - 1), NEW s \in Encoder, EncoderAt(s, m, k),
         NEW f \in 0..255, f = m[k + 1]
  PROVE  EncoderAt(EncodeByte(s, f), m, k + 1) /\ Puts(m, k, k + 1, s.out, EncodeByte(s, f).out)
<1> DEFINE q == k \div 3
           c == Base64(m)
<1>1. Len(m) \in Nat /\ k \in Nat /\ q \in Nat /\ k + 1 \in 1..Len(m)
  BY LenProperties DEF Code
<1>2. s.out \in Code /\ s.step \in {"A", "B", "C"}
  BY DEF Encoder, Code
<1>3. PICK r \in 0..63 : r = s.result
  BY DEF Encoder
<1>4. 3 * q < Len(m)
  BY <1>1
<1>5. /\ c[4 * q + 1] = base64_encode_value(Byte(m, 3 * q + 1) \div 4)
      /\ c[4 * q + 2] = base64_encode_value((Byte(m, 3 * q + 1) % 4) * 16 + Byte(m, 3 * q + 2) \div 16)
      /\ c[4 * q + 3] = IF 3 * q + 2 > Len(m) THEN Pad
                        ELSE base64_encode_value((Byte(m, 3 * q + 2) % 16) * 4 + Byte(m, 3 * q + 3) \div 64)
      /\ c[4 * q + 4] = IF 3 * q + 3 > Len(m) THEN Pad ELSE base64_encode_value(Byte(m, 3 * q + 3) % 64)
  <2>1. \A a \in Nat : 3 * a < Len(m) => GroupCode(m, a)
    BY CodeAt
  <2>2. GroupCode(m, q)
    BY <1>1, <1>4, <2>1
  <2> QED
    BY <1>1, <1>4, <2>2 DEF GroupCode
<1>6. \A i \in Nat : i <= Len(m) => Byte(m, i) = m[i]
  BY DEF Byte
<1>7. /\ f \div 4 \in Nat /\ r + f \div 16 \in Nat /\ r + f \div 64 \in Nat /\ f % 64 \in Nat
      /\ 4 * q \in Nat /\ 4 * q + 1 \in Nat /\ 4 * q + 2 \in Nat
  <2>1. f \div 4 \in Nat /\ f \div 16 \in Nat /\ f \div 64 \in Nat /\ f % 64 \in Nat
    <3>1. /\ f \div 4 \in 0..63 /\ f \div 16 \in 0..15 /\ f \div 64 \in 0..3 /\ f % 64 \in 0..63
      BY Parts, Zenon
    <3> QED
      BY <3>1, SMTT(40)
  <2>2. \A x \in Nat : r + x \in Nat /\ 4 * x \in Nat /\ x + 1 \in Nat /\ x + 2 \in Nat
    OBVIOUS
  <2> HIDE DEF q
  <2> QED
    BY <1>1, <2>1, <2>2
<1>8. /\ base64_encode_value(f \div 4) \in 0..255
      /\ base64_encode_value(r + f \div 16) \in 0..255
      /\ base64_encode_value(r + f \div 64) \in 0..255
      /\ base64_encode_value(f % 64) \in 0..255
  <2>1. \A v \in Nat : base64_encode_value(v) \in 0..255
    BY ValueIsCode
  <2> QED
    BY <1>7, <2>1, Zenon
<1>9. CASE k % 3 = 0
  <2>1. k = 3 * q /\ (k + 1) % 3 = 1 /\ Written(k) = 4 * q /\ Written(k + 1) = 4 * q + 1
    BY <1>1, <1>9 DEF Written
  <2>2. s.step = "A"
    BY <1>9 DEF EncoderAt
  <2>3. EncodeByte(s, f) = [step |-> "B", result |-> (f % 4) * 16,
                            out |-> Append(s.out, base64_encode_value(f \div 4))]
    BY <2>2 DEF EncodeByte
  <2>4. EncoderAt(EncodeByte(s, f), m, k + 1)
    BY <1>1, <2>1, <2>3 DEF EncoderAt
  <2>5. Byte(m, 3 * q + 1) = f
    BY <1>1, <1>6, <2>1
  <2>6. base64_encode_value(f \div 4) = c[4 * q + 1]
    BY <1>5, <2>5
  <2> HIDE DEF c, q
  <2>7. Puts(m, k, k + 1, s.out, Append(s.out, base64_encode_value(f \div 4)))
    BY <1>2, <1>7, <1>8, <2>1, <2>6, PutOne, ZenonT(40) DEF c
  <2> QED
    BY <2>3, <2>4, <2>7
<1>10. CASE k % 3 = 1
  <2>1. /\ k = 3 * q + 1 /\ (k + 1) % 3 = 2
        /\ Written(k) = 4 * q + 1 /\ Written(k + 1) = (4 * q + 1) + 1
    BY <1>1, <1>10 DEF Written
  <2>2. s.step = "B" /\ r = (m[k] % 4) * 16
    BY <1>3, <1>10 DEF EncoderAt
  <2>3. EncodeByte(s, f) = [step |-> "C", result |-> (f % 16) * 4,
                            out |-> Append(s.out, base64_encode_value(r + f \div 16))]
    BY <1>3, <2>2 DEF EncodeByte
  <2>4. EncoderAt(EncodeByte(s, f), m, k + 1)
    BY <1>1, <2>1, <2>3 DEF EncoderAt
  <2>5. Byte(m, 3 * q + 2) = f /\ Byte(m, 3 * q + 1) = m[k]
    <3>1. 3 * q + 2 = k + 1 /\ 3 * q + 1 = k /\ k <= Len(m) /\ k + 1 <= Len(m) /\ k + 1 \in Nat
      BY <1>1, <2>1
    <3> HIDE DEF q
    <3> QED
      BY <1>1, <1>6, <3>1
  <2>6. base64_encode_value(r + f \div 16) = c[(4 * q + 1) + 1]
    <3>1. (4 * q + 1) + 1 = 4 * q + 2
      BY <1>1
    <3> QED
      BY <1>5, <2>2, <2>5, <3>1
  <2> HIDE DEF c, q
  <2>7. Puts(m, k, k + 1, s.out, Append(s.out, base64_encode_value(r + f \div 16)))
    BY <1>2, <1>7, <1>8, <2>1, <2>6, PutOne, ZenonT(40) DEF c
  <2> QED
    BY <2>3, <2>4, <2>7
<1>11. CASE k % 3 = 2
  <2>1. /\ k = 3 * q + 2 /\ (k + 1) % 3 = 0
        /\ Written(k) = 4 * q + 2 /\ Written(k + 1) = (4 * q + 2) + 2
    BY <1>1, <1>11 DEF Written
  <2>2. s.step = "C" /\ r = (m[k] % 16) * 4
    BY <1>3, <1>11 DEF EncoderAt
  <2>3. EncodeByte(s, f) = [step |-> "A", result |-> f % 64,
                            out |-> s.out \o <<base64_encode_value(r + f \div 64),
                                               base64_encode_value(f % 64)>>]
    BY <1>3, <2>2 DEF EncodeByte
  <2>4. EncoderAt(EncodeByte(s, f), m, k + 1)
    <3>1. EncodeByte(s, f).step = "A"
      BY <2>3
    <3> HIDE DEF q
    <3> QED
      BY <2>1, <3>1 DEF EncoderAt
  <2>5. Byte(m, 3 * q + 3) = f /\ Byte(m, 3 * q + 2) = m[k]
        /\ ~ (3 * q + 3 > Len(m)) /\ ~ (3 * q + 2 > Len(m))
    BY <1>1, <1>6, <2>1
  <2>6. /\ base64_encode_value(r + f \div 64) = c[(4 * q + 2) + 1]
        /\ base64_encode_value(f % 64) = c[(4 * q + 2) + 2]
    <3>1. (4 * q + 2) + 1 = 4 * q + 3 /\ (4 * q + 2) + 2 = 4 * q + 4
      BY <1>1
    <3> QED
      BY <1>5, <2>2, <2>5, <3>1
  <2> HIDE DEF c, q
  <2>7. Puts(m, k, k + 1, s.out, s.out \o <<base64_encode_value(r + f \div 64),
                                            base64_encode_value(f % 64)>>)
    <3>1. PICK x \in 0..255, y \in 0..255 :
            x = base64_encode_value(r + f \div 64) /\ y = base64_encode_value(f % 64)
      BY <1>8, ZenonT(40)
    <3>2. PICK w \in Nat : w = 4 * q + 2
      BY <1>7
    <3>3. Written(k) = w /\ Written(k + 1) = w + 2 /\ x = Base64(m)[w + 1] /\ y = Base64(m)[w + 2]
      BY <2>1, <2>6, <3>1, <3>2 DEF c
    <3>4. Puts(m, k, k + 1, s.out, s.out \o <<x, y>>)
      BY <1>2, <3>3, PutTwo, ZenonT(40)
    <3> QED
      BY <3>1, <3>4
  <2> QED
    BY <2>3, <2>4, <2>7
<1> QED
  BY <1>1, <1>9, <1>10, <1>11

LEMMA WrittenGrows ==
  ASSUME NEW k \in Nat, NEW l \in Nat, k <= l
  PROVE  /\ Written(k) \in Nat /\ Written(l) \in Nat
         /\ Written(k) <= Written(l) /\ k <= Written(k)
         /\ k < l => Written(k) < Written(l)
<1>1. k \div 3 \in Nat /\ l \div 3 \in Nat /\ k \div 3 <= l \div 3
  OBVIOUS
<1> QED
  BY <1>1 DEF Written

LEMMA PutsTogether ==
  ASSUME NEW m, NEW k \in Nat, NEW a \in Nat, NEW b \in Nat, k <= a, a <= b,
         NEW t \in Code, NEW u \in Code, NEW v \in Code,
         Puts(m, k, a, t, u), Puts(m, a, b, u, v)
  PROVE  Puts(m, k, b, t, v)
<1>1. Written(k) \in Nat /\ Written(a) \in Nat /\ Written(k) <= Written(a)
  BY WrittenGrows
<1>2. Written(b) \in Nat /\ Written(a) <= Written(b)
  BY WrittenGrows
<1> QED
  BY <1>1, <1>2, AddsTogether DEF Puts

LEMMA EncodeBlockMakes ==
  ASSUME NEW m \in Code, NEW k \in 0..Len(m), NEW s \in Encoder, EncoderAt(s, m, k),
         NEW bytes \in Code, k + Len(bytes) <= Len(m),
         \A i \in 1..Len(bytes) : bytes[i] = m[k + i],
         NEW r, r = base64_encode_block(s, bytes)
  PROVE  /\ r \in Encoder
         /\ EncoderAt(r, m, k + Len(bytes))
         /\ Puts(m, k, k + Len(bytes), <<>>, r.out)
<1>1. PICK n \in Nat : n = Len(bytes)
  BY LenProperties DEF Code
<1>2. PICK g : Running(s, bytes, g) /\ r = g[n]
  BY <1>1, EncodeRuns
<1>3. /\ \A i \in 0..n : g[i] \in Encoder
      /\ g[0] = [s EXCEPT !.out = <<>>]
      /\ \A i \in 1..n : g[i] = EncodeByte(g[i - 1], bytes[i])
  BY <1>1, <1>2 DEF Running
<1>4. Len(m) \in Nat /\ k \in Nat /\ k <= Len(m) /\ <<>> \in Code /\ Len(<<>>) = 0
  BY LenProperties, EmptySeq DEF Code
<1> DEFINE S == {i \in 0..n : EncoderAt(g[i], m, k + i) /\ Puts(m, k, k + i, <<>>, g[i].out)}
<1>5. 0 \in S
  <2>1. /\ g[0] = [step |-> s.step, result |-> s.result, out |-> <<>>]
    BY <1>3 DEF Encoder
  <2>2. EncoderAt(g[0], m, k)
    BY <2>1 DEF EncoderAt
  <2>3. Written(k) \in Nat
    BY <1>4, WrittenGrows
  <2>4. Puts(m, k, k, <<>>, <<>>)
    BY <1>4, <2>3, AddsNothing DEF Puts
  <2>5. k + 0 = k /\ g[0].out = <<>>
    BY <1>4, <2>1
  <2> QED
    BY <1>1, <2>2, <2>4, <2>5
<1>6. ASSUME NEW i \in 0..(n - 1), i \in S PROVE i + 1 \in S
  <2>1. PICK a \in Nat : a = k + i
    BY <1>4
  <2>2. /\ a \in 0..(Len(m) - 1) /\ i + 1 \in 1..n /\ (i + 1) - 1 = i /\ k + (i + 1) = a + 1
        /\ k <= a /\ a <= a + 1 /\ i \in 0..n /\ i + 1 \in 0..n /\ a + 1 \in Nat
    BY <1>1, <1>4, <2>1
  <2>3. EncoderAt(g[i], m, a) /\ Puts(m, k, a, <<>>, g[i].out) /\ g[i] \in Encoder
    BY <1>3, <1>6, <2>1, <2>2
  <2>4. bytes[i + 1] \in 0..255 /\ bytes[i + 1] = m[a + 1]
    BY <1>1, <2>2, ElementOfSeq DEF Code
  <2>5. g[i + 1] = EncodeByte(g[i], bytes[i + 1])
    BY <1>3, <2>2
  <2>6. EncoderAt(g[i + 1], m, a + 1) /\ Puts(m, a, a + 1, g[i].out, g[i + 1].out)
    BY <2>2, <2>3, <2>4, <2>5, EncodeByteMakes, ZenonT(40)
  <2>7. g[i].out \in Code /\ g[i + 1].out \in Code
    BY <1>3, <2>2 DEF Encoder
  <2>8. Puts(m, k, a + 1, <<>>, g[i + 1].out)
    BY <1>4, <2>2, <2>3, <2>6, <2>7, PutsTogether
  <2> QED
    BY <2>2, <2>6, <2>8
<1> HIDE DEF S
<1>7. n \in S
  <2>1. \A i \in 0..(n - 1) : i \in S => i + 1 \in S
    BY <1>6
  <2>2. \A i \in 0..n : i \in S
    BY <1>5, <2>1, UpTo
  <2> QED
    BY <2>2
<1> QED
  BY <1>1, <1>2, <1>3, <1>7 DEF S

\* The end of the code.
LEMMA EncodeEndMakes ==
  ASSUME NEW m \in Code, NEW s \in Encoder, EncoderAt(s, m, Len(m)),
         NEW r, r = base64_encode_blockend(s)
  PROVE  /\ r \in Code
         /\ Len(r) = Len(Base64(m)) - Written(Len(m))
         /\ \A i \in 1..Len(r) : r[i] = Base64(m)[Written(Len(m)) + i]
<1>1. PICK n \in Nat : n = Len(m)
  BY LenProperties DEF Code
<1>2. PICK v \in 0..63 : v = s.result
  BY DEF Encoder
<1>3. base64_encode_value(v) \in 0..255 /\ Pad \in 0..255
  <2>1. \A x \in Nat : base64_encode_value(x) \in 0..255
    BY ValueIsCode
  <2>2. v \in Nat /\ 64 \in Nat
    OBVIOUS
  <2> QED
    BY <2>1, <2>2, Zenon DEF Pad
<1>4. Len(Base64(m)) = 4 * ((n + 2) \div 3)
  BY <1>1, Base64Type
<1>5. PICK q \in Nat : q = n \div 3
  OBVIOUS
<1>6. 3 * q < n =>
      /\ Base64(m)[4 * q + 2] = base64_encode_value((Byte(m, 3 * q + 1) % 4) * 16 + Byte(m, 3 * q + 2) \div 16)
      /\ Base64(m)[4 * q + 3] = IF 3 * q + 2 > n THEN Pad
                        ELSE base64_encode_value((Byte(m, 3 * q + 2) % 16) * 4 + Byte(m, 3 * q + 3) \div 64)
      /\ Base64(m)[4 * q + 4] = IF 3 * q + 3 > n THEN Pad ELSE base64_encode_value(Byte(m, 3 * q + 3) % 64)
  <2>1. \A a \in Nat : 3 * a < Len(m) => GroupCode(m, a)
    BY CodeAt
  <2>2. 3 * q < n => GroupCode(m, q)
    BY <1>1, <2>1
  <2> QED
    BY <1>1, <2>2 DEF GroupCode
<1>7. \A i \in Nat : Byte(m, i) = IF i <= n THEN m[i] ELSE 0
  BY <1>1 DEF Byte
<1>8. CASE n % 3 = 0
  <2>1. Written(n) = 4 * q /\ 4 * ((n + 2) \div 3) = 4 * q
    BY <1>5, <1>8 DEF Written
  <2>2. s.step = "A"
    BY <1>1, <1>8 DEF EncoderAt
  <2>3. r = <<>>
    BY <2>2 DEF base64_encode_blockend
  <2>4. <<>> \in Code /\ Len(<<>>) = 0
    BY EmptySeq DEF Code
  <2> QED
    BY <1>1, <1>4, <2>1, <2>3, <2>4
<1>9. CASE n % 3 = 1
  <2>1. /\ n = 3 * q + 1 /\ Written(n) = 4 * q + 1 /\ 4 * ((n + 2) \div 3) = 4 * q + 4
    BY <1>5, <1>9 DEF Written
  <2>2. s.step = "B" /\ v = (m[n] % 4) * 16
    BY <1>1, <1>2, <1>9 DEF EncoderAt
  <2>3. r = <<base64_encode_value(v), Pad, Pad>>
    BY <1>2, <2>2 DEF base64_encode_blockend
  <2>4. Byte(m, 3 * q + 1) = m[n] /\ Byte(m, 3 * q + 2) = 0
    BY <1>7, <2>1
  <2>5. (m[n] % 4) * 16 + 0 \div 16 = v
    BY <2>2
  <2>6. /\ Base64(m)[4 * q + 2] = base64_encode_value(v)
        /\ Base64(m)[4 * q + 3] = Pad /\ Base64(m)[4 * q + 4] = Pad
    BY <1>6, <2>1, <2>4, <2>5
  <2>7. /\ r \in Code /\ Len(r) = 3
        /\ r[1] = base64_encode_value(v) /\ r[2] = Pad /\ r[3] = Pad
    BY <1>3, <2>3 DEF Code
  <2>8. (4 * q + 1) + 1 = 4 * q + 2 /\ (4 * q + 1) + 2 = 4 * q + 3 /\ (4 * q + 1) + 3 = 4 * q + 4
        /\ (4 * q + 4) - (4 * q + 1) = 3
    OBVIOUS
  <2>9. \A i \in 1..3 : r[i] = Base64(m)[(4 * q + 1) + i]
    BY <2>6, <2>7, <2>8
  <2> QED
    BY <1>1, <1>4, <2>1, <2>7, <2>8, <2>9
<1>10. CASE n % 3 = 2
  <2>1. /\ n = 3 * q + 2 /\ Written(n) = 4 * q + 2 /\ 4 * ((n + 2) \div 3) = 4 * q + 4
    BY <1>5, <1>10 DEF Written
  <2>2. s.step = "C" /\ v = (m[n] % 16) * 4
    BY <1>1, <1>2, <1>10 DEF EncoderAt
  <2>3. r = <<base64_encode_value(v), Pad>>
    BY <1>2, <2>2 DEF base64_encode_blockend
  <2>4. Byte(m, 3 * q + 2) = m[n] /\ Byte(m, 3 * q + 3) = 0
    BY <1>7, <2>1
  <2>5. (m[n] % 16) * 4 + 0 \div 64 = v
    BY <2>2
  <2>6. Base64(m)[4 * q + 3] = base64_encode_value(v) /\ Base64(m)[4 * q + 4] = Pad
    BY <1>6, <2>1, <2>4, <2>5
  <2>7. r \in Code /\ Len(r) = 2 /\ r[1] = base64_encode_value(v) /\ r[2] = Pad
    BY <1>3, <2>3 DEF Code
  <2>8. (4 * q + 2) + 1 = 4 * q + 3 /\ (4 * q + 2) + 2 = 4 * q + 4 /\ (4 * q + 4) - (4 * q + 2) = 2
    OBVIOUS
  <2>9. \A i \in 1..2 : r[i] = Base64(m)[(4 * q + 2) + i]
    BY <2>6, <2>7, <2>8
  <2> QED
    BY <1>1, <1>4, <2>1, <2>7, <2>8, <2>9
<1> QED
  BY <1>8, <1>9, <1>10

-----------------------------------------------------------------------------
(* The decoder *)

\* The states of the decoder, with room in the byte under way for what is to come, and
\* one for each character that it is given.
Decoder ==
  {d \in [step : {"a", "b", "c", "d"}, plain : -1..255, out : Code] :
     /\ d.step = "b" => d.plain \in 0..252
     /\ d.step = "c" => d.plain \in 0..240
     /\ d.step = "d" => d.plain \in 0..192}

Decoding(s, codes, g) ==
  /\ g \in [0..Len(codes) -> Decoder]
  /\ g[0] = [s EXCEPT !.out = <<>>]
  /\ \A i \in 1..Len(codes) : g[i] = DecodeChar(g[i - 1], codes[i])

\* The decoder reads what the encoder writes, and skips the rest.
LEMMA ValueReads ==
  /\ \A v \in 0..63 : base64_decode_value(base64_encode_value(v)) = v
  /\ base64_decode_value(Pad) < 0 /\ base64_decode_value(Skipped) < 0
  /\ \A c \in 0..255 : base64_decode_value(c) \in -2..63
<1>1. \A v \in 0..63 : base64_decode_value(base64_encode_value(v)) = v
  BY DEF base64_encode_value, base64_decode_value
<1>2. base64_decode_value(Pad) < 0 /\ base64_decode_value(Skipped) < 0
  <2>1. Pad = 61 /\ Skipped = 10
    BY DEF Pad, Skipped, base64_encode_value
  <2> QED
    BY <2>1 DEF base64_decode_value
<1>3. \A c \in 0..255 : base64_decode_value(c) \in -2..63
  BY DEF base64_decode_value
<1> QED
  BY <1>1, <1>2, <1>3

LEMMA SixBits ==
  ASSUME NEW f \in 0..63
  PROVE  /\ f * 4 \in 0..252 /\ f \div 16 \in 0..3 /\ (f % 16) * 16 \in 0..240
         /\ f \div 4 \in 0..15 /\ (f % 4) * 64 \in 0..192
OBVIOUS

LEMMA BaseType ==
  ASSUME NEW s \in Decoder
  PROVE  [s EXCEPT !.out = <<>>] \in Decoder
<1> DEFINE All == [step : {"a", "b", "c", "d"}, plain : -1..255, out : Code]
           c == [s EXCEPT !.out = <<>>]
<1>1. s \in All
  BY DEF Decoder
<1>2. <<>> \in Code
  BY EmptySeq DEF Code
<1>3. c \in All /\ c.step = s.step /\ c.plain = s.plain
  BY <1>1, <1>2
<1> HIDE DEF c
<1>4. c \in Decoder
  BY <1>3 DEF Decoder
<1> QED
  BY <1>4 DEF c

LEMMA InDecoder ==
  ASSUME NEW t \in {"a", "b", "c", "d"}, NEW p \in -1..255, NEW o \in Code,
         t = "b" => p \in 0..252, t = "c" => p \in 0..240, t = "d" => p \in 0..192,
         NEW d, d = [step |-> t, plain |-> p, out |-> o]
  PROVE  d \in Decoder
<1>1. d \in [step : {"a", "b", "c", "d"}, plain : -1..255, out : Code]
  OBVIOUS
<1>2. d.step = t /\ d.plain = p
  OBVIOUS
<1> QED
  BY <1>1, <1>2 DEF Decoder

LEMMA ValueRange ==
  ASSUME NEW c \in 0..255
  PROVE  base64_decode_value(c) \in -2..63
BY ValueReads, Zenon

LEMMA DecodeSkips ==
  ASSUME NEW d, NEW c \in 0..255, base64_decode_value(c) < 0
  PROVE  DecodeChar(d, c) = d
<1>1. PICK f \in -2..63 : f = base64_decode_value(c)
  BY ValueRange, Zenon
<1>2. ~ (f >= 0)
  BY <1>1
<1> QED
  BY <1>1, <1>2, Zenon DEF DecodeChar

\* A step of the decoder to r, at each of its places.
Reads(d, f, r) ==
  /\ d.step = "a" => r.step = "b" /\ r.plain = f * 4 /\ r.out = d.out
  /\ d.step = "b" => r.step = "c" /\ r.plain = (f % 16) * 16
                     /\ d.plain + f \div 16 \in 0..255 /\ r.out = Append(d.out, d.plain + f \div 16)
  /\ d.step = "c" => r.step = "d" /\ r.plain = (f % 4) * 64
                     /\ d.plain + f \div 4 \in 0..255 /\ r.out = Append(d.out, d.plain + f \div 4)
  /\ d.step = "d" => r.step = "a"
                     /\ d.plain + f \in 0..255 /\ r.out = Append(d.out, d.plain + f)

LEMMA DecodeCharReads ==
  ASSUME NEW d \in Decoder, NEW c \in 0..255, NEW f \in 0..63, f = base64_decode_value(c),
         NEW r, r = DecodeChar(d, c)
  PROVE  r \in Decoder /\ Reads(d, f, r)
<1>1. ~ (f < 0) /\ f >= 0
  OBVIOUS
<1>2. /\ d.step \in {"a", "b", "c", "d"} /\ d.out \in Code
      /\ d.step = "b" => d.plain \in 0..252
      /\ d.step = "c" => d.plain \in 0..240
      /\ d.step = "d" => d.plain \in 0..192
  BY DEF Decoder
<1>3. ASSUME NEW t \in {"a", "c", "d"}, NEW p \in -1..240, NEW x \in 0..255,
             t = "c" => p \in 0..240, t = "d" => p \in 0..192,
             r = [step |-> t, plain |-> p, out |-> Append(d.out, x)]
      PROVE  r \in Decoder
  <2>1. Append(d.out, x) \in Code
    BY <1>2, AppendCode
  <2>2. p \in -1..255 /\ t # "b"
    OBVIOUS
  <2> QED
    BY <1>3, <2>1, <2>2, InDecoder, ZenonT(40)
<1>4. /\ f * 4 \in 0..252 /\ f \div 16 \in 0..3 /\ (f % 16) * 16 \in 0..240
      /\ f \div 4 \in 0..15 /\ (f % 4) * 64 \in 0..192
  BY SixBits
<1>5. CASE d.step = "a"
  <2> DEFINE All == [step : {"a", "b", "c", "d"}, plain : -1..255, out : Code]
             e == [d EXCEPT !.step = "b"]
  <2>1. r = [e EXCEPT !.plain = f * 4]
    BY <1>1, <1>5 DEF DecodeChar
  <2>2. d \in All
    BY DEF Decoder
  <2>3. e \in All /\ e.step = "b" /\ e.out = d.out
    BY <2>2
  <2> HIDE DEF e
  <2>4. PICK p \in 0..252 : p = f * 4
    BY <1>4
  <2>5. r = [e EXCEPT !.plain = p]
    BY <2>1, <2>4
  <2>6. r \in All /\ r.step = "b" /\ r.plain = p /\ r.out = d.out
    BY <2>3, <2>5
  <2>7. r \in Decoder
    BY <2>6 DEF Decoder
  <2> QED
    BY <1>5, <2>4, <2>6, <2>7 DEF Reads
<1>6. CASE d.step = "b"
  <2>1. r = [step |-> "c", plain |-> (f % 16) * 16, out |-> Append(d.out, d.plain + f \div 16)]
    BY <1>1, <1>6 DEF DecodeChar
  <2>2. d.plain + f \div 16 \in 0..255
    <3>1. PICK x \in 0..252, y \in 0..3 : x = d.plain /\ y = f \div 16
      BY <1>2, <1>4, <1>6
    <3> QED
      BY <3>1
  <2>3. (f % 16) * 16 \in -1..240 /\ (f % 16) * 16 \in 0..240
    BY <1>4
  <2>4. r \in Decoder
    BY <1>3, <2>1, <2>2, <2>3, ZenonT(40)
  <2> QED
    BY <1>6, <2>1, <2>2, <2>4 DEF Reads
<1>7. CASE d.step = "c"
  <2>1. r = [step |-> "d", plain |-> (f % 4) * 64, out |-> Append(d.out, d.plain + f \div 4)]
    BY <1>1, <1>7 DEF DecodeChar
  <2>2. d.plain + f \div 4 \in 0..255
    <3>1. PICK x \in 0..240, y \in 0..15 : x = d.plain /\ y = f \div 4
      BY <1>2, <1>4, <1>7, ZenonT(40)
    <3> QED
      BY <3>1, SMTT(40)
  <2>3. (f % 4) * 64 \in -1..240 /\ (f % 4) * 64 \in 0..192
    BY <1>4
  <2>4. r \in Decoder
    BY <1>3, <2>1, <2>2, <2>3, ZenonT(40)
  <2> QED
    BY <1>7, <2>1, <2>2, <2>4 DEF Reads
<1>8. CASE d.step = "d"
  <2>1. r = [step |-> "a", plain |-> Junk, out |-> Append(d.out, d.plain + f)]
    BY <1>1, <1>8 DEF DecodeChar
  <2>2. d.plain + f \in 0..255
    BY <1>2, <1>8, SMTT(40)
  <2>3. Junk \in -1..240
    BY DEF Junk
  <2>4. r \in Decoder
    BY <1>3, <2>1, <2>2, <2>3, ZenonT(40)
  <2> QED
    BY <1>8, <2>1, <2>2, <2>4 DEF Reads
<1> QED
  BY <1>2, <1>5, <1>6, <1>7, <1>8

LEMMA DecodeCharType ==
  ASSUME NEW d \in Decoder, NEW c \in 0..255
  PROVE  DecodeChar(d, c) \in Decoder
<1>1. PICK f \in -2..63 : f = base64_decode_value(c)
  BY ValueRange
<1>2. CASE f < 0
  BY <1>1, <1>2, DecodeSkips
<1>3. CASE f \in 0..63
  BY <1>1, <1>3, DecodeCharReads, ZenonT(40)
<1> QED
  BY <1>2, <1>3

LEMMA DecodeRuns ==
  ASSUME NEW s \in Decoder, NEW codes \in Code
  PROVE  \E g : Decoding(s, codes, g) /\ base64_decode_block(s, codes) = g[Len(codes)]
<1> DEFINE n == Len(codes)
           base == [s EXCEPT !.out = <<>>]
           G == [p \in (1..n) \X Decoder |-> DecodeChar(p[2], codes[p[1]])]
<1>1. n \in Nat /\ DOMAIN codes = 1..n /\ \A i \in 1..n : codes[i] \in 0..255
  BY LenProperties, ElementOfSeq DEF Code
<1>2. base \in Decoder
  BY EmptySeq, BaseType DEF Code
<1>3. G \in [(1..n) \X Decoder -> Decoder]
  BY <1>1, DecodeCharType
<1> HIDE DEF G
<1>4. PICK f : Folds(Decoder, base, G, n, f)
  BY <1>1, <1>2, <1>3, FoldExists
<1>5. \A t \in SUBSET (1..n) :
        /\ f[t] \in Decoder
        /\ t # {} => Max(t) \in t /\ f[t] = DecodeChar(f[t \ {Max(t)}], codes[Max(t)])
  <2> TAKE t \in SUBSET (1..n)
  <2>1. f[t] \in Decoder /\ f[t \ {Max(t)}] \in Decoder
    BY <1>4 DEF Folds
  <2>2. t # {} => Max(t) \in t /\ f[t] = G[<<Max(t), f[t \ {Max(t)}]>>]
    BY <1>4 DEF Folds
  <2> QED
    BY <2>1, <2>2 DEF G
<1> DEFINE Body(h) == [t \in SUBSET (1..n) |->
                         IF t = {} THEN base ELSE DecodeChar(h[t \ {Max(t)}], codes[Max(t)])]
<1>6. f = Body(f)
  <2>1. f = [t \in SUBSET (1..n) |-> f[t]] /\ f[{}] = base
    BY <1>4 DEF Folds
  <2> QED
    BY <1>5, <2>1
<1> DEFINE iter == CHOOSE h : h = Body(h)
<1>7. iter = Body(iter)
  BY <1>6
<1>8. base64_decode_block(s, codes) = iter[1..n]
  BY <1>1 DEF base64_decode_block, FoldLeft, MapThenFoldSet
<1> HIDE DEF iter, base
<1>9. iter[{}] = base /\ \A t \in SUBSET (1..n) :
        t # {} => iter[t] = DecodeChar(iter[t \ {Max(t)}], codes[Max(t)])
  BY <1>7, Zenon
<1>10. 1..0 = {} /\ \A i \in 1..n : iter[1..i] = DecodeChar(iter[1..(i - 1)], codes[i])
  <2>1. n \in Nat
    BY <1>1
  <2>2. \A i \in 1..n : /\ Max(1..i) = i /\ (1..i) \ {i} = 1..(i - 1)
                        /\ 1..i \in SUBSET (1..n) /\ 1..i # {}
    BY <2>1, Initial
  <2>3. ASSUME NEW i \in 1..n PROVE iter[1..i] = DecodeChar(iter[1..(i - 1)], codes[i])
    <3>1. iter[1..i] = DecodeChar(iter[(1..i) \ {Max(1..i)}], codes[Max(1..i)])
      BY <1>9, <2>2
    <3> QED
      BY <2>2, <3>1
  <2>4. 1..0 = {}
    OBVIOUS
  <2> QED
    BY <2>3, <2>4
<1> DEFINE S == {i \in 0..n : iter[1..i] \in Decoder}
<1>11. \A i \in 0..n : i \in S
  <2>1. 0 \in S
    BY <1>1, <1>2, <1>9, <1>10
  <2>2. \A i \in 0..(n - 1) : i \in S => i + 1 \in S
    <3> TAKE i \in 0..(n - 1)
    <3>1. i + 1 \in 1..n /\ (i + 1) - 1 = i
      BY <1>1
    <3>2. ASSUME iter[1..i] \in Decoder PROVE iter[1..(i + 1)] \in Decoder
      <4>1. codes[i + 1] \in 0..255 /\ iter[1..(i + 1)] = DecodeChar(iter[1..i], codes[i + 1])
        BY <1>1, <1>10, <3>1
      <4> QED
        BY <3>2, <4>1, DecodeCharType
    <3> QED
      BY <1>1, <3>1, <3>2
  <2> HIDE DEF S
  <2> QED
    BY <1>1, <2>1, <2>2, UpTo
<1> DEFINE g == [i \in 0..n |-> iter[1..i]]
<1>12. Decoding(s, codes, g)
  <2>1. g \in [0..n -> Decoder]
    BY <1>11
  <2>2. g[0] = base
    BY <1>1, <1>9, <1>10
  <2>3. \A i \in 1..n : g[i] = DecodeChar(g[i - 1], codes[i])
    BY <1>1, <1>10
  <2> QED
    BY <2>1, <2>2, <2>3 DEF Decoding, base
<1>13. base64_decode_block(s, codes) = g[n]
  BY <1>1, <1>8
<1> QED
  BY <1>12, <1>13

\* The decoder has put the bytes behind t that the characters k + 1 to l give.
Gets(m, k, l, t, u) == Adds(m, Decoded(k), Decoded(l), t, u)

LEMMA DecodedGrows ==
  ASSUME NEW k \in Nat, NEW l \in Nat, k <= l
  PROVE  Decoded(k) \in Nat /\ Decoded(l) \in Nat /\ Decoded(k) <= Decoded(l)
<1>1. PICK a \in Nat, b \in Nat : a = (k + 3) \div 4 /\ b = (l + 3) \div 4
  OBVIOUS
<1>2. 4 * a <= k + 3 /\ k <= 4 * a /\ 4 * b <= l + 3 /\ l <= 4 * b
  BY <1>1
<1>3. k - a >= 0 /\ l - b >= 0 /\ k - a <= l - b
  BY <1>1, <1>2
<1> QED
  BY <1>1, <1>3 DEF Decoded

\* The characters of the code that are not its padding, and the bytes that they complete.
LEMMA CharacterAt ==
  ASSUME NEW m \in Code, NEW k \in Nat, k < Characters(Len(m)),
         NEW q \in Nat, NEW j \in 0..3, k = 4 * q + j
  PROVE  LET x == Byte(m, 3 * q + 1)
             y == Byte(m, 3 * q + 2)
             z == Byte(m, 3 * q + 3)
         IN  /\ Base64(m)[k + 1] = base64_encode_value(Sextet(j, x, y, z))
             /\ j = 1 => m[3 * q + 1] = x
             /\ j = 2 => m[3 * q + 2] = y
             /\ j = 3 => m[3 * q + 3] = z
<1> DEFINE x == Byte(m, 3 * q + 1)
           y == Byte(m, 3 * q + 2)
           z == Byte(m, 3 * q + 3)
<1>1. PICK n \in Nat : n = Len(m)
  BY SeqLength DEF Code
<1>2. PICK e \in Nat : e = (n + 2) \div 3 /\ 3 * e <= n + 2 /\ k < n + e
  BY <1>1 DEF Characters
<1>3. 3 * q < n /\ (j = 1 => 3 * q + 1 <= n) /\ (j = 2 => 3 * q + 2 <= n) /\ (j = 3 => 3 * q + 3 <= n)
  BY <1>2
<1>4. /\ Base64(m)[4 * q + 1] = base64_encode_value(x \div 4)
      /\ Base64(m)[4 * q + 2] = base64_encode_value((x % 4) * 16 + y \div 16)
      /\ Base64(m)[4 * q + 3] = IF 3 * q + 2 > n THEN Pad
                                ELSE base64_encode_value((y % 16) * 4 + z \div 64)
      /\ Base64(m)[4 * q + 4] = IF 3 * q + 3 > n THEN Pad ELSE base64_encode_value(z % 64)
  <2>1. \A a \in Nat : 3 * a < Len(m) => GroupCode(m, a)
    BY CodeAt
  <2>2. GroupCode(m, q)
    BY <1>1, <1>3, <2>1
  <2> QED
    BY <1>1, <1>3, <2>2 DEF GroupCode
<1>5. \A i \in Nat : i <= n => Byte(m, i) = m[i]
  BY <1>1 DEF Byte
<1>6. /\ j = 1 => m[3 * q + 1] = x
      /\ j = 2 => m[3 * q + 2] = y
      /\ j = 3 => m[3 * q + 3] = z
  BY <1>3, <1>5
<1> HIDE DEF x, y, z
<1>7. j = 0 \/ j = 1 \/ j = 2 \/ j = 3
  OBVIOUS
<1>8. /\ j = 0 => Base64(m)[k + 1] = base64_encode_value(x \div 4)
      /\ j = 1 => Base64(m)[k + 1] = base64_encode_value((x % 4) * 16 + y \div 16)
      /\ j = 2 => Base64(m)[k + 1] = base64_encode_value((y % 16) * 4 + z \div 64)
      /\ j = 3 => Base64(m)[k + 1] = base64_encode_value(z % 64)
  BY <1>3, <1>4
<1>9. Base64(m)[k + 1] = base64_encode_value(Sextet(j, x, y, z))
  BY <1>7, <1>8 DEF Sextet
<1> QED
  BY <1>6, <1>9, Zenon DEF x, y, z

LEMMA PaddingAt ==
  ASSUME NEW m \in Code, NEW k \in Nat, k >= Characters(Len(m)), k < Len(Base64(m))
  PROVE  Base64(m)[k + 1] = Pad
<1>1. PICK n \in Nat : n = Len(m)
  BY SeqLength DEF Code
<1>2. PICK e \in Nat : e = (n + 2) \div 3 /\ 3 * e <= n + 2 /\ n <= 3 * e
  OBVIOUS
<1>3. k >= n + e /\ k < 4 * e
  BY <1>1, <1>2, Base64Type DEF Characters
<1>4. PICK q \in Nat : e = q + 1
  <2>1. e - 1 \in Nat /\ e = (e - 1) + 1
    BY <1>2, <1>3
  <2> QED
    BY <2>1
<1>5. 3 * q < n /\ k \in {4 * q + 2, 4 * q + 3} /\ (k = 4 * q + 2 => 3 * q + 2 > n)
      /\ (k = 4 * q + 3 => 3 * q + 3 > n)
  BY <1>2, <1>3, <1>4
<1>6. /\ 3 * q + 2 > n => Base64(m)[4 * q + 3] = Pad
      /\ 3 * q + 3 > n => Base64(m)[4 * q + 4] = Pad
  <2>1. \A a \in Nat : 3 * a < Len(m) => GroupCode(m, a)
    BY CodeAt
  <2>2. GroupCode(m, q)
    BY <1>1, <1>5, <2>1
  <2> QED
    BY <1>1, <1>5, <2>2 DEF GroupCode
<1> QED
  BY <1>5, <1>6

\* Each character completes the byte under way and leaves the start of the next one.
Completes(d, j, x, y, z, r) ==
  /\ j < 3 => Place(r, j + 1, x, y, z)
  /\ j = 0 => r.out = d.out
  /\ j = 1 => r.out = Append(d.out, x)
  /\ j = 2 => r.out = Append(d.out, y)
  /\ j = 3 => r.out = Append(d.out, z) /\ r.step = "a"

LEMMA PlaceStep ==
  ASSUME NEW d, NEW j \in 0..3, NEW x \in 0..255, NEW y \in 0..255, NEW z \in 0..255,
         Place(d, j, x, y, z), NEW f \in 0..63, f = Sextet(j, x, y, z), NEW r, Reads(d, f, r)
  PROVE  Completes(d, j, x, y, z, r)
<1>1. CASE j = 0
  <2>1. d.step = "a" /\ f = x \div 4
    BY <1>1 DEF Place, Sextet
  <2>2. r.step = "b" /\ r.plain = (x \div 4) * 4 /\ r.out = d.out
    BY <2>1 DEF Reads
  <2> QED
    BY <1>1, <2>2 DEF Place, Completes
<1>2. CASE j = 1
  <2>1. d.step = "b" /\ d.plain = (x \div 4) * 4 /\ f = (x % 4) * 16 + y \div 16
    BY <1>2 DEF Place, Sextet
  <2>2. f \div 16 = x % 4 /\ (f % 16) * 16 = (y \div 16) * 16 /\ (x \div 4) * 4 + (x % 4) = x
    BY <2>1
  <2>3. r.step = "c" /\ r.plain = (y \div 16) * 16 /\ r.out = Append(d.out, x)
    BY <2>1, <2>2 DEF Reads
  <2> QED
    BY <1>2, <2>3 DEF Place, Completes
<1>3. CASE j = 2
  <2>1. d.step = "c" /\ d.plain = (y \div 16) * 16 /\ f = (y % 16) * 4 + z \div 64
    BY <1>3 DEF Place, Sextet
  <2>2. f \div 4 = y % 16 /\ (f % 4) * 64 = (z \div 64) * 64 /\ (y \div 16) * 16 + (y % 16) = y
    BY <2>1
  <2>3. r.step = "d" /\ r.plain = (z \div 64) * 64 /\ r.out = Append(d.out, y)
    BY <2>1, <2>2, ZenonT(40) DEF Reads
  <2> QED
    BY <1>3, <2>3 DEF Place, Completes
<1>4. CASE j = 3
  <2>1. d.step = "d" /\ d.plain = (z \div 64) * 64 /\ f = z % 64
    BY <1>4 DEF Place, Sextet
  <2>2. (z \div 64) * 64 + f = z
    BY <2>1
  <2>3. r.step = "a" /\ r.out = Append(d.out, z)
    BY <2>1, <2>2 DEF Reads
  <2> QED
    BY <1>4, <2>3 DEF Completes
<1> QED
  BY <1>1, <1>2, <1>3, <1>4

LEMMA GroupType ==
  ASSUME NEW m \in Code, NEW q \in Nat
  PROVE  /\ Byte(m, 3 * q + 1) \in 0..255 /\ Byte(m, 3 * q + 2) \in 0..255
         /\ Byte(m, 3 * q + 3) \in 0..255
BY ByteType

LEMMA SextetType ==
  ASSUME NEW j \in 0..3, NEW x \in 0..255, NEW y \in 0..255, NEW z \in 0..255
  PROVE  Sextet(j, x, y, z) \in 0..63
BY DEF Sextet

LEMMA DecodeDigit ==
  ASSUME NEW d \in Decoder, NEW j \in 0..3, NEW x \in 0..255, NEW y \in 0..255, NEW z \in 0..255,
         Place(d, j, x, y, z), NEW c, c = base64_encode_value(Sextet(j, x, y, z)),
         NEW r, r = DecodeChar(d, c)
  PROVE  r \in Decoder /\ Completes(d, j, x, y, z, r)
<1>1. PICK f \in 0..63 : f = Sextet(j, x, y, z)
  BY SextetType, Zenon
<1>2. base64_decode_value(base64_encode_value(f)) = f
  BY ValueReads
<1>3. f = base64_decode_value(c)
  BY <1>1, <1>2
<1>4. c \in 0..255
  <2>1. \A v \in Nat : base64_encode_value(v) \in 0..255
    BY ValueIsCode
  <2> QED
    BY <1>1, <2>1
<1>5. r \in Decoder /\ Reads(d, f, r)
  BY <1>3, <1>4, DecodeCharReads, ZenonT(40)
<1> QED
  BY <1>1, <1>5, PlaceStep, Zenon

LEMMA DecodeCharMakes ==
  ASSUME NEW m \in Code, NEW k \in Nat, k < Characters(Len(m)), NEW d \in Decoder,
         DecoderAt(d, m, k), NEW c, c = Base64(m)[k + 1], NEW r, r = DecodeChar(d, c)
  PROVE  r \in Decoder /\ DecoderAt(r, m, k + 1) /\ Gets(m, k, k + 1, d.out, r.out)
<1>1. PICK q \in Nat, j \in 0..3 : q = k \div 4 /\ j = k % 4 /\ k = 4 * q + j
  OBVIOUS
<1>2. PICK x \in 0..255, y \in 0..255, z \in 0..255 :
        x = Byte(m, 3 * q + 1) /\ y = Byte(m, 3 * q + 2) /\ z = Byte(m, 3 * q + 3)
  BY GroupType, ZenonT(40)
<1>3. x \in 0..255 /\ y \in 0..255 /\ z \in 0..255
  OBVIOUS
<1>4. /\ Base64(m)[k + 1] = base64_encode_value(Sextet(j, x, y, z))
      /\ j = 1 => m[3 * q + 1] = x
      /\ j = 2 => m[3 * q + 2] = y
      /\ j = 3 => m[3 * q + 3] = z
  <2>1. k = 4 * q + j
    BY <1>1
  <2> DEFINE u == Byte(m, 3 * q + 1)
             v == Byte(m, 3 * q + 2)
             w == Byte(m, 3 * q + 3)
  <2>2. /\ Base64(m)[k + 1] = base64_encode_value(Sextet(j, u, v, w))
        /\ j = 1 => m[3 * q + 1] = u
        /\ j = 2 => m[3 * q + 2] = v
        /\ j = 3 => m[3 * q + 3] = w
    BY <2>1, CharacterAt, ZenonT(40)
  <2> QED
    BY <1>2, <2>2, Zenon
<1>5. Place(d, j, x, y, z)
  BY <1>1, <1>2 DEF DecoderAt
<1>6. r \in Decoder /\ Completes(d, j, x, y, z, r)
  BY <1>4, <1>5, DecodeDigit, ZenonT(40)
<1>7. /\ j < 3 => Place(r, j + 1, x, y, z)
      /\ j = 0 => r.out = d.out
      /\ j = 1 => r.out = Append(d.out, x)
      /\ j = 2 => r.out = Append(d.out, y)
      /\ j = 3 => r.out = Append(d.out, z) /\ r.step = "a"
  BY <1>6 DEF Completes
<1>8. DecoderAt(r, m, k + 1)
  <2>1. CASE j < 3
    <3>1. (k + 1) \div 4 = q /\ (k + 1) % 4 = j + 1
      BY <1>1, <2>1
    <3> QED
      BY <1>2, <1>7, <2>1, <3>1 DEF DecoderAt
  <2>2. CASE j = 3
    <3>1. (k + 1) % 4 = 0
      BY <1>1, <2>2
    <3> QED
      BY <1>7, <2>2, <3>1 DEF DecoderAt, Place
  <2> QED
    BY <2>1, <2>2
<1>9. /\ Decoded(k) = IF j = 0 THEN 3 * q ELSE 3 * q + (j - 1)
      /\ Decoded(k + 1) = 3 * q + j
  BY <1>1 DEF Decoded
<1>10. d.out \in Code
  BY DEF Decoder
<1>11. Gets(m, k, k + 1, d.out, r.out)
  <2>1. ASSUME NEW b \in 0..255, NEW i \in Nat, b = m[i + 1], r.out = Append(d.out, b),
               Decoded(k) = i, Decoded(k + 1) = i + 1
        PROVE  Gets(m, k, k + 1, d.out, r.out)
    <3>1. Adds(m, i, i + 1, d.out, Append(d.out, b))
      BY <1>10, <2>1, AddsOne, Zenon
    <3> QED
      BY <2>1, <3>1 DEF Gets
  <2>2. CASE j = 0
    <3>1. Decoded(k) = 3 * q /\ Decoded(k + 1) = 3 * q /\ r.out = d.out
      BY <1>7, <1>9, <2>2
    <3> QED
      BY <1>10, <3>1, AddsNothing DEF Gets
  <2>3. CASE j # 0
    <3>1. PICK i \in Nat : i = 3 * q + (j - 1)
      BY <2>3
    <3>2. Decoded(k) = i /\ Decoded(k + 1) = i + 1
      BY <1>9, <2>3, <3>1
    <3>3. \/ j = 1 /\ i + 1 = 3 * q + 1
          \/ j = 2 /\ i + 1 = 3 * q + 2
          \/ j = 3 /\ i + 1 = 3 * q + 3
      BY <2>3, <3>1
    <3>4. PICK b \in 0..255 : b = m[i + 1] /\ r.out = Append(d.out, b)
      BY <1>3, <1>4, <1>7, <3>3, Zenon
    <3> QED
      BY <2>1, <3>2, <3>4, Zenon
  <2> QED
    BY <2>2, <2>3
<1> QED
  BY <1>6, <1>8, <1>11

LEMMA GetsTogether ==
  ASSUME NEW m, NEW k \in Nat, NEW a \in Nat, NEW b \in Nat, k <= a, a <= b,
         NEW t \in Code, NEW u \in Code, NEW v \in Code,
         Gets(m, k, a, t, u), Gets(m, a, b, u, v)
  PROVE  Gets(m, k, b, t, v)
<1>1. Decoded(k) \in Nat /\ Decoded(a) \in Nat /\ Decoded(k) <= Decoded(a)
  BY DecodedGrows
<1>2. Decoded(b) \in Nat /\ Decoded(a) <= Decoded(b)
  BY DecodedGrows
<1> QED
  BY <1>1, <1>2, AddsTogether DEF Gets

LEMMA ClipNext ==
  ASSUME NEW n \in Nat, NEW k \in Nat
  PROVE  /\ Clip(n, k) \in Nat /\ Characters(n) \in Nat
         /\ \A l \in Nat : Clip(n, k) <= Clip(n, k + l)
         /\ k < Characters(n) => Clip(n, k) = k /\ Clip(n, k + 1) = k + 1
         /\ ~ (k < Characters(n)) => Clip(n, k) = Characters(n) /\ Clip(n, k + 1) = Characters(n)
<1>1. PICK c \in Nat : c = Characters(n)
  BY DEF Characters
<1> QED
  BY <1>1 DEF Clip

LEMMA PlacedDecoder ==
  ASSUME NEW d \in [step : {"a", "b", "c", "d"}, plain : -1..255, out : Code],
         NEW m \in Code, NEW k \in Nat, DecoderAt(d, m, k)
  PROVE  d \in Decoder
<1>1. PICK q \in Nat, j \in 0..3 : q = k \div 4 /\ j = k % 4
  OBVIOUS
<1>2. PICK x \in 0..255, y \in 0..255, z \in 0..255 :
        x = Byte(m, 3 * q + 1) /\ y = Byte(m, 3 * q + 2) /\ z = Byte(m, 3 * q + 3)
  BY GroupType, ZenonT(40)
<1>3. Place(d, j, x, y, z)
  BY <1>1, <1>2 DEF DecoderAt
<1>4. (x \div 4) * 4 \in 0..252 /\ (y \div 16) * 16 \in 0..240 /\ (z \div 64) * 64 \in 0..192
  OBVIOUS
<1>5. /\ d.step = "b" => d.plain \in 0..252
      /\ d.step = "c" => d.plain \in 0..240
      /\ d.step = "d" => d.plain \in 0..192
  BY <1>3, <1>4 DEF Place
<1> QED
  BY <1>5 DEF Decoder

\* The decoder skips what is no code: i is the number of a character of the block.
LEMMA DecodeNext ==
  ASSUME NEW m \in Code, NEW k \in Nat, k < Len(Base64(m)), NEW n \in Nat, n = Len(m),
         NEW d \in Decoder, DecoderAt(d, m, Clip(n, k)),
         NEW c, c = Base64(m)[k + 1], NEW r, r = DecodeChar(d, c)
  PROVE  /\ r \in Decoder /\ DecoderAt(r, m, Clip(n, k + 1))
         /\ Gets(m, Clip(n, k), Clip(n, k + 1), d.out, r.out)
<1>1. CASE k < Characters(n)
  <2>1. Clip(n, k) = k /\ Clip(n, k + 1) = k + 1
    BY <1>1, ClipNext
  <2> QED
    BY <1>1, <2>1, DecodeCharMakes, Zenon
<1>2. CASE ~ (k < Characters(n))
  <2>1. Clip(n, k) = Characters(n) /\ Clip(n, k + 1) = Characters(n) /\ Characters(n) \in Nat
    BY <1>2, ClipNext
  <2>2. c = Pad
    BY <1>2, <2>1, PaddingAt
  <2>3. r = d
    <3>1. base64_decode_value(Pad) < 0 /\ Pad \in 0..255
      <4>1. Pad = 61
        BY DEF Pad, base64_encode_value
      <4> QED
        BY <4>1, ValueReads
    <3> QED
      BY <2>2, <3>1, DecodeSkips
  <2>4. Decoded(Characters(n)) \in Nat /\ d.out \in Code
    BY <2>1, DecodedGrows DEF Decoder
  <2>5. Gets(m, Characters(n), Characters(n), d.out, d.out)
    BY <2>4, AddsNothing DEF Gets
  <2> QED
    BY <2>1, <2>3, <2>5
<1> QED
  BY <1>1, <1>2

LEMMA DecodeBlockMakes ==
  ASSUME NEW m \in Code, NEW k \in Nat, NEW n \in Nat, n = Len(m),
         NEW s \in Decoder, DecoderAt(s, m, Clip(n, k)),
         NEW block \in Code, NEW l \in Nat, l = Len(block), k + l <= Len(Base64(m)),
         \A i \in 1..l : block[i] = Base64(m)[k + i],
         NEW r, r = base64_decode_block(s, <<Skipped>> \o block)
  PROVE  /\ r \in Decoder
         /\ DecoderAt(r, m, Clip(n, k + l))
         /\ Gets(m, Clip(n, k), Clip(n, k + l), <<>>, r.out)
<1>1. PICK codes : codes = <<Skipped>> \o block
  OBVIOUS
<1>2. /\ codes \in Code /\ Len(codes) = l + 1 /\ codes[1] = Skipped
      /\ \A i \in 1..l : codes[i + 1] = block[i]
  <2>1. <<Skipped>> \in Code /\ Len(<<Skipped>>) = 1 /\ <<Skipped>>[1] = Skipped
    BY DEF Skipped, Code
  <2>2. /\ codes \in Code /\ Len(codes) = 1 + l
        /\ \A i \in 1..(1 + l) : codes[i] = IF i <= 1 THEN <<Skipped>>[i] ELSE block[i - 1]
    BY <1>1, <2>1, ConcatProperties DEF Code
  <2>3. codes[1] = Skipped
    BY <2>1, <2>2
  <2>4. ASSUME NEW i \in 1..l PROVE codes[i + 1] = block[i]
    <3>1. i + 1 \in 1..(1 + l) /\ ~ (i + 1 <= 1) /\ (i + 1) - 1 = i
      OBVIOUS
    <3> QED
      BY <2>2, <3>1
  <2> QED
    BY <2>2, <2>3, <2>4
<1>3. PICK g : Decoding(s, codes, g) /\ r = g[l + 1]
  <2>1. r = base64_decode_block(s, codes)
    BY <1>1
  <2>2. codes \in Code /\ Len(codes) = l + 1
    BY <1>2
  <2>3. \E g : Decoding(s, codes, g) /\ base64_decode_block(s, codes) = g[Len(codes)]
    BY <2>2, DecodeRuns
  <2> QED
    BY <2>1, <2>2, <2>3
<1>4. /\ \A i \in 0..(l + 1) : g[i] \in Decoder
      /\ g[0] = [s EXCEPT !.out = <<>>]
      /\ \A i \in 1..(l + 1) : g[i] = DecodeChar(g[i - 1], codes[i])
  BY <1>2, <1>3 DEF Decoding
<1>5. g[1] = g[0]
  <2>1. 1 \in 1..(l + 1) /\ 1 - 1 = 0
    OBVIOUS
  <2>2. g[1] = DecodeChar(g[0], Skipped)
    BY <1>2, <1>4, <2>1
  <2>3. Skipped \in 0..255 /\ base64_decode_value(Skipped) < 0
    BY DEF Skipped, base64_decode_value
  <2>4. g[0] \in Decoder
    BY <1>4
  <2> QED
    BY <2>2, <2>3, <2>4, DecodeSkips
<1>6. PICK a \in Nat : a = Clip(n, k)
  BY ClipNext
<1>7. <<>> \in Code
  BY EmptySeq DEF Code
<1> DEFINE S == {i \in 0..l : /\ DecoderAt(g[i + 1], m, Clip(n, k + i))
                              /\ Gets(m, a, Clip(n, k + i), <<>>, g[i + 1].out)}
<1>8. 0 \in S
  <2>1. g[0].step = s.step /\ g[0].plain = s.plain /\ g[0].out = <<>>
    BY <1>4 DEF Decoder
  <2>2. DecoderAt(g[0], m, a)
    BY <1>6, <2>1 DEF DecoderAt, Place
  <2>3. Gets(m, a, a, <<>>, <<>>)
    BY <1>6, <1>7, DecodedGrows, AddsNothing DEF Gets
  <2>4. k + 0 = k /\ 0 + 1 = 1 /\ 0 \in 0..l
    OBVIOUS
  <2> QED
    BY <1>5, <1>6, <2>1, <2>2, <2>3, <2>4
<1>9. ASSUME NEW i \in 0..(l - 1), i \in S PROVE i + 1 \in S
  <2>1. PICK e \in Nat : e = k + i
    OBVIOUS
  <2>2. /\ e < Len(Base64(m)) /\ i + 1 \in 1..l /\ k + (i + 1) = e + 1 /\ i + 1 \in 0..l
        /\ i + 1 \in 0..(l + 1) /\ (i + 1) + 1 \in 1..(l + 1) /\ ((i + 1) + 1) - 1 = i + 1
        /\ (i + 1) + 1 \in 0..(l + 1)
    <3>1. Len(Base64(m)) \in Nat
      BY Base64Type, SeqLength DEF Code
    <3> QED
      BY <2>1, <3>1
  <2>3. PICK d \in Decoder : d = g[i + 1]
    BY <1>4, <2>2
  <2>4. DecoderAt(d, m, Clip(n, e)) /\ Gets(m, a, Clip(n, e), <<>>, d.out)
    BY <1>9, <2>1, <2>3
  <2>5. PICK c : c = codes[(i + 1) + 1] /\ c = Base64(m)[e + 1]
    BY <1>2, <2>2
  <2>6. PICK f \in Decoder : f = g[(i + 1) + 1] /\ f = DecodeChar(d, c)
    <3>1. g[(i + 1) + 1] = DecodeChar(g[((i + 1) + 1) - 1], codes[(i + 1) + 1])
      BY <1>4, <2>2, Zenon
    <3>2. g[(i + 1) + 1] \in Decoder
      BY <1>4, <2>2, Zenon
    <3>3. g[((i + 1) + 1) - 1] = d
      BY <2>2, <2>3
    <3> QED
      BY <2>5, <3>1, <3>2, <3>3
  <2>7. DecoderAt(f, m, Clip(n, e + 1)) /\ Gets(m, Clip(n, e), Clip(n, e + 1), d.out, f.out)
    BY <2>2, <2>4, <2>5, <2>6, DecodeNext
  <2>8. d.out \in Code /\ f.out \in Code
    BY DEF Decoder
  <2>9. PICK u \in Nat, v \in Nat : u = Clip(n, e) /\ v = Clip(n, e + 1) /\ a <= u /\ u <= v
    <3> HIDE DEF S
    <3>4. \A x \in Nat : Clip(n, x) \in Nat /\ \A y \in Nat : Clip(n, x) <= Clip(n, x + y)
      BY ClipNext
    <3>5. e + 1 \in Nat /\ 1 \in Nat /\ i \in Nat
      OBVIOUS
    <3>1. Clip(n, e) \in Nat /\ Clip(n, e) <= Clip(n, e + 1)
      BY <3>4, <3>5
    <3>2. Clip(n, e + 1) \in Nat
      BY <3>4, <3>5
    <3>3. Clip(n, k) <= Clip(n, k + i)
      BY <3>4, <3>5
    <3> QED
      BY <1>6, <2>1, <3>1, <3>2, <3>3
  <2>10. Gets(m, a, v, <<>>, f.out)
    BY <1>7, <2>4, <2>7, <2>8, <2>9, GetsTogether
  <2> QED
    BY <2>2, <2>6, <2>7, <2>9, <2>10
<1> HIDE DEF S
<1>10. l \in S
  <2>1. \A i \in 0..(l - 1) : i \in S => i + 1 \in S
    BY <1>9
  <2>2. \A i \in 0..l : i \in S
    BY <1>8, <2>1, UpTo
  <2> QED
    BY <2>2
<1> QED
  BY <1>3, <1>4, <1>6, <1>10 DEF S

LEMMA DecodedAll ==
  ASSUME NEW n \in Nat
  PROVE  Decoded(Characters(n)) = n
<1>1. PICK e \in Nat : e = (n + 2) \div 3 /\ 3 * e <= n + 2 /\ n <= 3 * e
  OBVIOUS
<1>2. (n + e + 3) \div 4 = e
  BY <1>1
<1> QED
  BY <1>1, <1>2 DEF Decoded, Characters

-----------------------------------------------------------------------------
(* The allocator *)

\* From h to g, the block at p, or none if p is NULL, has become one of n bytes at q.
Moved(h, p, g, q, n) ==
  /\ g \in Heap /\ q \in Block /\ n \in Nat \ {0}
  /\ q = p \/ h[q] = <<>>
  /\ Len(g[q]) = n
  /\ p # NULL /\ p # q => g[p] = <<>>
  /\ p # NULL => \A i \in 1..n : i <= Len(h[p]) => g[q][i] = h[p][i]
  /\ \A b \in Block : b \notin {p, q} => g[b] = h[b]

LEMMA BlockIsNumber ==
  Block \subseteq Nat \ {0} /\ NULL \notin Block
BY YmemAssumption DEF NULL

LEMMA UninitialisedType ==
  ASSUME NEW n \in Nat
  PROVE  /\ Uninitialised(n) \in Seq(MemByte) /\ Len(Uninitialised(n)) = n
         /\ \A i \in 1..n : Uninitialised(n)[i] = Junk
<1>1. Uninitialised(n) \in [1..n -> MemByte]
  BY DEF Uninitialised, MemByte, Junk
<1>2. Uninitialised(n) \in Seq(MemByte) /\ Len(Uninitialised(n)) = n
  BY <1>1, IsASeq, LenProperties
<1> QED
  BY <1>2 DEF Uninitialised

\* A block is put into the heap.
LEMMA PutBlock ==
  ASSUME NEW h \in Heap, NEW p \in Block, NEW s \in Seq(MemByte)
  PROVE  /\ [h EXCEPT ![p] = s] \in Heap /\ [h EXCEPT ![p] = s][p] = s
         /\ \A b \in Block : b # p => [h EXCEPT ![p] = s][b] = h[b]
BY DEF Heap

\* The first n elements of a sequence, and the rest.
LEMMA FirstPart ==
  ASSUME NEW S, NEW s \in Seq(S), NEW n \in 0..Len(s)
  PROVE  /\ SubSeq(s, 1, n) \in Seq(S) /\ Len(SubSeq(s, 1, n)) = n
         /\ \A i \in 1..n : SubSeq(s, 1, n)[i] = s[i]
<1>1. Len(s) \in Nat /\ \A i \in 1..Len(s) : s[i] \in S
  BY SeqLength
<1>2. n \in Nat /\ \A i \in 1..n : s[i] \in S
  BY <1>1
<1>3. /\ SubSeq(s, 1, n) \in Seq(S)
      /\ Len(SubSeq(s, 1, n)) = IF 1 <= n THEN n - 1 + 1 ELSE 0
      /\ \A i \in 1..(n - 1 + 1) : SubSeq(s, 1, n)[i] = s[1 + i - 1]
  BY <1>2, SubSeqProperties
<1> QED
  BY <1>2, <1>3

LEMMA LastPart ==
  ASSUME NEW S, NEW s \in Seq(S), NEW n \in 0..Len(s)
  PROVE  /\ SubSeq(s, n + 1, Len(s)) \in Seq(S) /\ Len(SubSeq(s, n + 1, Len(s))) = Len(s) - n
         /\ \A i \in 1..(Len(s) - n) : SubSeq(s, n + 1, Len(s))[i] = s[n + i]
<1>1. PICK l \in Nat : l = Len(s)
  BY SeqLength
<1>2. \A i \in 1..l : s[i] \in S
  BY <1>1, SeqLength
<1>3. n \in Nat /\ n <= l /\ \A i \in (n + 1)..l : s[i] \in S
  BY <1>1, <1>2
<1>4. /\ SubSeq(s, n + 1, l) \in Seq(S)
      /\ Len(SubSeq(s, n + 1, l)) = IF n + 1 <= l THEN l - (n + 1) + 1 ELSE 0
      /\ \A i \in 1..(l - (n + 1) + 1) : SubSeq(s, n + 1, l)[i] = s[(n + 1) + i - 1]
  BY <1>3, SubSeqProperties
<1>5. l - (n + 1) + 1 = l - n /\ \A i \in 1..(l - n) : (n + 1) + i - 1 = n + i
  BY <1>3
<1> QED
  BY <1>1, <1>3, <1>4, <1>5

LEMMA Malloc ==
  ASSUME NEW h \in Heap, NEW n \in Nat, NEW r \in Ymem_malloc(h, n)
  PROVE  \/ r.ptr = NULL /\ r.heap = h
         \/ Moved(h, NULL, r.heap, r.ptr, n) /\ r.heap[r.ptr] = Uninitialised(n)
<1>1. CASE r \in {Outcome(NULL, h)}
  BY <1>1 DEF Outcome
<1>2. CASE r \notin {Outcome(NULL, h)}
  <2>1. n # 0 /\ \E b \in Block \ Allocated(h) : r = Outcome(b, [h EXCEPT ![b] = Uninitialised(n)])
    BY <1>2 DEF Ymem_malloc, NoMemory
  <2>2. PICK b \in Block \ Allocated(h) : r = Outcome(b, [h EXCEPT ![b] = Uninitialised(n)])
    BY <2>1
  <2>3. r.ptr = b /\ r.heap = [h EXCEPT ![b] = Uninitialised(n)] /\ h[b] = <<>>
    BY <2>2 DEF Outcome, Allocated
  <2>4. /\ r.heap \in Heap /\ r.heap[b] = Uninitialised(n)
        /\ \A q \in Block : q # b => r.heap[q] = h[q]
    BY <2>3, UninitialisedType, PutBlock
  <2>5. Len(r.heap[b]) = n
    BY <2>4, UninitialisedType
  <2> QED
    BY <2>1, <2>3, <2>4, <2>5 DEF Moved
<1> QED
  BY <1>1, <1>2

LEMMA Realloc ==
  ASSUME NEW h \in Heap, NEW p \in Block \cup {NULL}, NEW n \in Nat, NEW r \in Ymem_realloc(h, p, n)
  PROVE  \/ r.ptr = NULL /\ r.heap = h
         \/ Moved(h, p, r.heap, r.ptr, n)
<1>1. CASE n = 0
  BY <1>1 DEF Ymem_realloc, Outcome
<1>2. CASE n # 0 /\ p = NULL
  <2>1. r \in Ymem_malloc(h, n)
    BY <1>2 DEF Ymem_realloc
  <2> QED
    BY <1>2, <2>1, Malloc
<1>3. CASE n # 0 /\ p # NULL /\ r # Outcome(NULL, h)
  <2> DEFINE bytes == SubSeq(h[p] \o Uninitialised(n), 1, n)
             all == h[p] \o Uninitialised(n)
  <2>1. \E b \in {p} \cup (Block \ Allocated(h)) :
          r = Outcome(b, [h EXCEPT ![p] = <<>>, ![b] = bytes])
    BY <1>3 DEF Ymem_realloc, NoMemory
  <2>2. PICK b \in {p} \cup (Block \ Allocated(h)) :
          r = Outcome(b, [h EXCEPT ![p] = <<>>, ![b] = bytes])
    BY <2>1
  <2>3. p \in Block /\ b \in Block /\ (b = p \/ h[b] = <<>>)
    BY <1>3, <2>2 DEF Allocated
  <2>4. h[p] \in Seq(MemByte) /\ Uninitialised(n) \in Seq(MemByte) /\ Len(Uninitialised(n)) = n
    BY <2>3, UninitialisedType DEF Heap
  <2>5. PICK k \in Nat : k = Len(h[p])
    BY <2>4, LenProperties
  <2>6. /\ all \in Seq(MemByte) /\ Len(all) = k + n
        /\ \A i \in 1..(k + n) : all[i] = IF i <= k THEN h[p][i] ELSE Uninitialised(n)[i - k]
    BY <2>4, <2>5, ConcatProperties, ZenonT(40)
  <2> HIDE DEF all
  <2>7. \A i \in 1..n : all[i] \in MemByte
    <3>1. \A i \in 1..n : i \in 1..Len(all)
      BY <2>6
    <3> QED
      BY <2>6, <3>1, ElementOfSeq
  <2>8. bytes \in Seq(MemByte) /\ Len(bytes) = n /\ \A i \in 1..n : bytes[i] = all[i]
    <3>1. bytes = SubSeq(all, 1, n)
      BY DEF all
    <3>2. n \in 0..Len(all)
      BY <2>6
    <3> QED
      BY <2>6, <3>1, <3>2, FirstPart, ZenonT(40)
  <2> HIDE DEF bytes
  <2>9. \A i \in 1..n : i <= k => bytes[i] = h[p][i]
    BY <2>6, <2>8
  <2>10. <<>> \in Seq(MemByte)
    BY EmptySeq
  <2>11. r.ptr = b /\ r.heap = [[h EXCEPT ![p] = <<>>] EXCEPT ![b] = bytes]
    BY <2>2, <2>3 DEF Outcome, Heap
  <2>12. /\ r.heap \in Heap /\ r.heap[b] = bytes
         /\ \A q \in Block : q # b => r.heap[q] = [h EXCEPT ![p] = <<>>][q]
    <3>1. PICK f \in Heap : f = [h EXCEPT ![p] = <<>>]
      BY <2>3, <2>10, PutBlock
    <3>2. r.heap = [f EXCEPT ![b] = bytes]
      BY <2>11, <3>1
    <3>3. /\ [f EXCEPT ![b] = bytes] \in Heap /\ [f EXCEPT ![b] = bytes][b] = bytes
          /\ \A q \in Block : q # b => [f EXCEPT ![b] = bytes][q] = f[q]
      BY <2>3, <2>8, PutBlock
    <3> QED
      BY <3>1, <3>2, <3>3
  <2>13. \A q \in Block : [h EXCEPT ![p] = <<>>][q] = IF q = p THEN <<>> ELSE h[q]
    BY <2>3 DEF Heap
  <2> QED
    BY <1>3, <2>3, <2>5, <2>8, <2>9, <2>11, <2>12, <2>13 DEF Moved
<1>4. CASE r = Outcome(NULL, h)
  BY <1>4 DEF Outcome
<1> QED
  BY <1>1, <1>2, <1>3, <1>4

LEMMA Strdup ==
  ASSUME NEW h \in Heap, NEW s \in Seq(1..255), NEW r \in Ymem_strdup(h, s)
  PROVE  \/ r.ptr = NULL /\ r.heap = h
         \/ Moved(h, NULL, r.heap, r.ptr, Len(s) + 1)
<1> DEFINE bytes == s \o <<NUL>>
<1>1. PICK n \in Nat : n = Len(s)
  BY LenProperties
<1>2. bytes \in Seq(MemByte) /\ Len(bytes) = n + 1
  <2>1. s \in Seq(MemByte)
    BY SeqMonotonic DEF MemByte
  <2>2. <<NUL>> \in Seq(MemByte) /\ Len(<<NUL>>) = 1
    BY DEF NUL, MemByte
  <2> QED
    BY <1>1, <2>1, <2>2, ConcatProperties
<1> HIDE DEF bytes
<1>3. PICK d \in Ymem_malloc(h, n + 1) :
        r = IF d.ptr = NULL THEN d ELSE [d EXCEPT !.heap[d.ptr] = bytes]
  BY <1>1 DEF Ymem_strdup, bytes
<1>4. CASE d.ptr = NULL
  <2>1. d.heap = h
    BY <1>1, <1>4, Malloc, BlockIsNumber DEF Moved
  <2> QED
    BY <1>3, <1>4, <2>1
<1>5. CASE d.ptr # NULL
  <2>1. Moved(h, NULL, d.heap, d.ptr, n + 1)
    BY <1>1, <1>5, Malloc
  <2>2. r.ptr = d.ptr /\ r.heap = [d.heap EXCEPT ![d.ptr] = bytes]
    <3>1. \E b \in Block : d = Outcome(b, [h EXCEPT ![b] = Uninitialised(n + 1)])
      BY <1>1, <1>5 DEF Ymem_malloc, NoMemory, Outcome
    <3> QED
      BY <1>3, <1>5, <3>1 DEF Outcome
  <2>3. /\ r.heap \in Heap /\ r.heap[d.ptr] = bytes
        /\ \A q \in Block : q # d.ptr => r.heap[q] = d.heap[q]
    BY <1>2, <2>1, <2>2, PutBlock DEF Moved
  <2> QED
    BY <1>1, <1>2, <2>1, <2>2, <2>3 DEF Moved
<1> QED
  BY <1>4, <1>5

LEMMA ProductFits ==
  ASSUME NEW M \in Nat \ {0}, NEW k \in Nat \ {0}, NEW n \in Nat, n <= (M - 1) \div k
  PROVE  k * n \in Nat /\ k * n < M /\ (k * n) % M = k * n
<1>1. PICK q \in Nat : q = (M - 1) \div k
  OBVIOUS
<1>2. k * q <= M - 1
  BY <1>1
<1>3. k * n <= k * q
  BY <1>1
<1>4. PICK p \in Nat : p = k * n
  OBVIOUS
<1>5. p < M
  BY <1>2, <1>3, <1>4
<1>6. p % M = p
  BY <1>5
<1> QED
  BY <1>4, <1>5, <1>6

LEMMA Calloc ==
  ASSUME NEW h \in Heap, NEW nmemb \in Nat \ {0}, NEW size \in Nat,
         NEW r \in Ymem_calloc(h, nmemb, size)
  PROVE  \/ r.ptr = NULL /\ r.heap = h
         \/ Moved(h, NULL, r.heap, r.ptr, nmemb * size)
<1> DEFINE l == (nmemb * size) % SizeMod
<1>1. CASE r = Outcome(NULL, h)
  BY <1>1 DEF Outcome
<1>2. CASE r # Outcome(NULL, h)
  <2>1. /\ ~ (size > (SizeMod - 1) \div nmemb)
        /\ \E d \in Ymem_malloc(h, l) :
             r = IF d.ptr = NULL THEN d ELSE [d EXCEPT !.heap[d.ptr] = [i \in 1..l |-> 0]]
    BY <1>2 DEF Ymem_calloc
  <2>2. PICK n \in Nat : n = nmemb * size /\ n = l
    <3>1. SizeMod \in Nat \ {0}
      BY YmemAssumption
    <3>2. (SizeMod - 1) \div nmemb \in Nat
      BY <3>1
    <3>3. size <= (SizeMod - 1) \div nmemb
      BY <2>1, <3>2
    <3> QED
      BY <3>1, <3>3, ProductFits
  <2> HIDE DEF l
  <2> DEFINE bytes == [i \in 1..n |-> 0]
  <2>3. PICK d \in Ymem_malloc(h, n) :
          r = IF d.ptr = NULL THEN d ELSE [d EXCEPT !.heap[d.ptr] = bytes]
    BY <2>1, <2>2
  <2>4. bytes \in Seq(MemByte) /\ Len(bytes) = n
    <3>1. bytes \in [1..n -> MemByte]
      BY DEF MemByte
    <3> HIDE DEF bytes
    <3> QED
      BY <3>1, IsASeq, LenProperties
  <2> HIDE DEF bytes
  <2>5. CASE d.ptr = NULL
    <3>1. d.heap = h
      BY <2>5, Malloc, BlockIsNumber DEF Moved
    <3> QED
      BY <2>3, <2>5, <3>1
  <2>6. CASE d.ptr # NULL
    <3>1. Moved(h, NULL, d.heap, d.ptr, n)
      BY <2>6, Malloc
    <3>2. r.ptr = d.ptr /\ r.heap = [d.heap EXCEPT ![d.ptr] = bytes]
      <4>1. \E b \in Block : d = Outcome(b, [h EXCEPT ![b] = Uninitialised(n)])
        BY <2>6 DEF Ymem_malloc, NoMemory, Outcome
      <4> QED
        BY <2>3, <2>6, <4>1 DEF Outcome
    <3>3. /\ r.heap \in Heap /\ r.heap[d.ptr] = bytes
          /\ \A q \in Block : q # d.ptr => r.heap[q] = d.heap[q]
      BY <2>4, <3>1, <3>2, PutBlock DEF Moved
    <3>4. Moved(h, NULL, r.heap, r.ptr, n)
      BY <2>4, <3>1, <3>2, <3>3 DEF Moved
    <3> QED
      BY <2>2, <3>4
  <2> QED
    BY <2>5, <2>6
<1> QED
  BY <1>1, <1>2

\* Two moves are one.
LEMMA MovedTwice ==
  ASSUME NEW h \in Heap, NEW g, NEW f, NEW p, NEW q, NEW k, NEW n,
         Moved(h, NULL, g, p, k), Moved(g, p, f, q, n)
  PROVE  Moved(h, NULL, f, q, n)
BY BlockIsNumber DEF Moved

LEMMA Alignment ==
  ASSUME NEW p \in Nat, NEW a \in Nat \ {0}
  PROVE  /\ p <= PointerAlign(p, a) /\ PointerAlign(p, a) < p + a
         /\ PointerAlign(p, a) \in Nat
         /\ Ymem_isaligned(PointerAlign(p, a), a)
<1>1. CASE PointerOffset(p, a) = 0
  BY <1>1 DEF PointerAlign, Ymem_isaligned
<1>2. CASE PointerOffset(p, a) # 0
  <2>1. PICK o \in Nat : o = p % a /\ o < a /\ o # 0
    BY <1>2 DEF PointerOffset
  <2>2. PICK d \in Nat : d = p \div a /\ p = a * d + o
    BY <2>1
  <2>3. PICK v \in Nat : v = p + (a - o)
    BY <2>1
  <2>4. PointerAlign(p, a) = v
    BY <1>2, <2>1, <2>3 DEF PointerAlign, PointerOffset
  <2>5. v = a * (d + 1)
    BY <2>2, <2>3
  <2>6. v % a = 0
    BY <2>5
  <2> QED
    BY <2>1, <2>3, <2>4, <2>6 DEF Ymem_isaligned, PointerOffset
<1> QED
  BY <1>1, <1>2

LEMMA MallocAligned ==
  ASSUME NEW h \in Heap, NEW a \in Nat \ {0}, NEW n \in Nat, n + a < SizeMod,
         NEW r \in Ymem_malloc_aligned(h, a, n)
  PROVE  \/ r.ptr = NULL /\ r.heap = h /\ r.lost = {}
         \/ r.ptr = NULL /\ \E b \in Block : r.lost = {b} /\ Moved(h, NULL, r.heap, b, n)
         \/ /\ r.lost = {} /\ r.at \in Nat /\ r.ptr <= r.at /\ Ymem_isaligned(r.at, a)
            /\ \E l \in Nat : Moved(h, NULL, r.heap, r.ptr, l) /\ r.at + n <= r.ptr + l
<1> DEFINE Good(d) == n = 0 \/ a <= 1 \/ (d.ptr # NULL /\ Ymem_isaligned(d.ptr, a))
<1>1. n + a \in Nat /\ (n + a) % SizeMod = n + a
  <2>1. SizeMod \in Nat \ {0}
    BY YmemAssumption
  <2>2. PICK v \in Nat : v = n + a
    OBVIOUS
  <2>3. v % SizeMod = v
    BY <2>1, <2>2
  <2> QED
    BY <2>2, <2>3
<1>2. \E d \in Ymem_malloc(h, n) :
        \/ Good(d) /\ r = [ptr |-> d.ptr, at |-> d.ptr, heap |-> d.heap, lost |-> {}]
        \/ ~ Good(d) /\ \E e \in Ymem_realloc(d.heap, d.ptr, n + a) :
             r = [ptr |-> e.ptr, at |-> PointerAlign(e.ptr, a), heap |-> e.heap,
                  lost |-> IF e.ptr = NULL /\ d.ptr # NULL THEN {d.ptr} ELSE {}]
  BY <1>1 DEF Ymem_malloc_aligned
<1>3. PICK d \in Ymem_malloc(h, n) :
        \/ Good(d) /\ r = [ptr |-> d.ptr, at |-> d.ptr, heap |-> d.heap, lost |-> {}]
        \/ ~ Good(d) /\ \E e \in Ymem_realloc(d.heap, d.ptr, n + a) :
             r = [ptr |-> e.ptr, at |-> PointerAlign(e.ptr, a), heap |-> e.heap,
                  lost |-> IF e.ptr = NULL /\ d.ptr # NULL THEN {d.ptr} ELSE {}]
  BY <1>2
<1>4. (d.ptr = NULL /\ d.heap = h) \/ Moved(h, NULL, d.heap, d.ptr, n)
  BY Malloc
<1>5. CASE Good(d) /\ r = [ptr |-> d.ptr, at |-> d.ptr, heap |-> d.heap, lost |-> {}]
  <2>1. ASSUME Moved(h, NULL, d.heap, d.ptr, n)
        PROVE  /\ d.ptr \in Nat /\ n # 0 /\ d.ptr <= d.ptr /\ Ymem_isaligned(d.ptr, a)
               /\ d.ptr + n <= d.ptr + n
    <3>1. d.ptr \in Nat /\ n # 0
      BY <2>1, BlockIsNumber DEF Moved
    <3>2. Ymem_isaligned(d.ptr, a)
      BY <1>5, <3>1 DEF Ymem_isaligned, PointerOffset
    <3> QED
      BY <3>1, <3>2
  <2> QED
    BY <1>4, <1>5, <2>1
<1>6. CASE ~ Good(d) /\ \E e \in Ymem_realloc(d.heap, d.ptr, n + a) :
             r = [ptr |-> e.ptr, at |-> PointerAlign(e.ptr, a), heap |-> e.heap,
                  lost |-> IF e.ptr = NULL /\ d.ptr # NULL THEN {d.ptr} ELSE {}]
  <2>1. PICK e \in Ymem_realloc(d.heap, d.ptr, n + a) :
             r = [ptr |-> e.ptr, at |-> PointerAlign(e.ptr, a), heap |-> e.heap,
                  lost |-> IF e.ptr = NULL /\ d.ptr # NULL THEN {d.ptr} ELSE {}]
    BY <1>6
  <2>2. d.heap \in Heap /\ d.ptr \in Block \cup {NULL}
    BY <1>4 DEF Moved
  <2>3. (e.ptr = NULL /\ e.heap = d.heap) \/ Moved(d.heap, d.ptr, e.heap, e.ptr, n + a)
    BY <1>1, <2>2, Realloc
  <2>4. CASE e.ptr = NULL /\ e.heap = d.heap
    <3>1. CASE d.ptr = NULL
      BY <1>4, <2>1, <2>4, <3>1, BlockIsNumber DEF Moved
    <3>2. CASE d.ptr # NULL
      BY <1>4, <2>1, <2>2, <2>4, <3>2
    <3> QED
      BY <3>1, <3>2
  <2>5. CASE Moved(d.heap, d.ptr, e.heap, e.ptr, n + a)
    <3>1. Moved(h, NULL, e.heap, e.ptr, n + a)
      <4>1. CASE d.ptr = NULL /\ d.heap = h
        BY <2>5, <4>1
      <4>2. CASE Moved(h, NULL, d.heap, d.ptr, n)
        BY <2>5, <4>2, MovedTwice
      <4> QED
        BY <1>4, <4>1, <4>2
    <3>2. PICK p \in Nat : p = e.ptr /\ p # NULL
      BY <3>1, BlockIsNumber DEF Moved
    <3>3. PICK at \in Nat : at = PointerAlign(p, a) /\ p <= at /\ at < p + a /\ Ymem_isaligned(at, a)
      BY Alignment
    <3>4. at + n <= p + (n + a)
      BY <3>3
    <3>5. r.ptr = p /\ r.at = at /\ r.heap = e.heap /\ r.lost = {}
      BY <2>1, <3>2, <3>3
    <3> QED
      BY <1>1, <3>1, <3>2, <3>3, <3>4, <3>5
  <2> QED
    BY <2>3, <2>4, <2>5
<1> QED
  BY <1>3, <1>5, <1>6

-----------------------------------------------------------------------------
(* The buffer *)

LEMMA WriteEffect ==
  ASSUME NEW h \in Heap, NEW p \in Block, NEW pos \in Nat, NEW s \in Seq(MemByte),
         NEW l \in Nat, l = Len(h[p]), NEW n \in Nat, n = Len(s)
  PROVE  /\ Write(h, p, pos, s) \in Heap
         /\ Len(Write(h, p, pos, s)[p]) = l
         /\ \A i \in 1..l : Write(h, p, pos, s)[p][i] = IF pos < i /\ i <= pos + n THEN s[i - pos]
                                                       ELSE h[p][i]
         /\ \A b \in Block : b # p => Write(h, p, pos, s)[b] = h[b]
<1> DEFINE bytes == [i \in 1..l |-> IF pos < i /\ i <= pos + n THEN s[i - pos] ELSE h[p][i]]
<1>1. /\ h[p] \in Seq(MemByte)
      /\ \A i \in 1..l : h[p][i] \in MemByte
      /\ \A i \in 1..n : s[i] \in MemByte
  BY SeqLength DEF Heap
<1>2. \A i \in 1..l : bytes[i] \in MemByte
  <2> TAKE i \in 1..l
  <2>1. CASE pos < i /\ i <= pos + n
    <3>1. i - pos \in 1..n
      BY <2>1
    <3> QED
      BY <1>1, <2>1, <3>1
  <2>2. CASE ~ (pos < i /\ i <= pos + n)
    BY <1>1, <2>2
  <2> QED
    BY <2>1, <2>2
<1>3. bytes \in [1..l -> MemByte]
  BY <1>2
<1>4. bytes \in Seq(MemByte) /\ Len(bytes) = l
  BY <1>3, IsASeq, LenProperties
<1>5. Write(h, p, pos, s) = [h EXCEPT ![p] = bytes]
  <2>1. h[p] = h[p] /\ \A i \in 1..l : i \in (pos + 1)..(pos + n) <=> pos < i /\ i <= pos + n
    OBVIOUS
  <2> QED
    BY <2>1 DEF Write
<1>6. \A i \in 1..l : bytes[i] = IF pos < i /\ i <= pos + n THEN s[i - pos] ELSE h[p][i]
  OBVIOUS
<1> HIDE DEF bytes
<1>7. /\ [h EXCEPT ![p] = bytes] \in Heap /\ [h EXCEPT ![p] = bytes][p] = bytes
      /\ \A b \in Block : b # p => [h EXCEPT ![p] = bytes][b] = h[b]
  BY <1>4, PutBlock
<1> QED
  BY <1>4, <1>5, <1>6, <1>7

\* A call has turned the buffer b in the heap h into the buffer c in the heap g.  Nothing
\* changes but its data, which may have moved.
Turned(b, h, c, g) ==
  /\ c \in BufferRecord /\ g \in Heap
  /\ c.self = b.self
  /\ b.data # NULL => c.data # NULL
  /\ c.data # NULL => g[c.data] # <<>>
  /\ c.data # b.data => h[c.data] = <<>> /\ (b.data # NULL => g[b.data] = <<>>)
  /\ \A p \in Block : p \notin {b.data, c.data} => g[p] = h[p]

\* A buffer in memory.
InMemory(b, h) ==
  /\ h \in Heap
  /\ b.data # NULL => h[b.data] # <<>>

LEMMA IncrementType ==
  DefaultIncrement \in Nat /\ InitialLengths \subseteq Int
BY YbufferAssumption, SMT

LEMMA FreshBuffer ==
  ASSUME NEW h \in Heap, NEW n \in Int, NEW o \in InitOutcomes(h, n)
  PROVE  \/ o.b = NoBuffer /\ o.h = h
         \/ /\ Holds(o.b, o.h, <<>>) /\ InMemory(o.b, o.h) /\ o.b.status = "ok"
            /\ h[o.b.self] = <<>> /\ o.h[o.b.self] # <<>>
            /\ o.b.data # NULL => o.b.data # o.b.self /\ h[o.b.data] = <<>>
            /\ \A p \in Block : p \notin {o.b.self, o.b.data} => o.h[p] = h[p]
            /\ n > 0 => o.b.data # NULL /\ StringAt(o.h, o.b.data, <<>>)
<1>1. PICK r \in Ymem_malloc(h, 1) :
        o \in IF r.ptr = NULL THEN {Left(NoBuffer, r.heap)}
              ELSE IF n <= 0 THEN {Left(New(r.ptr, NULL, 0, DefaultIncrement), r.heap)}
              ELSE WithData(r.heap, r.ptr, n)
  BY DEF InitOutcomes
<1>2. (r.ptr = NULL /\ r.heap = h) \/ Moved(h, NULL, r.heap, r.ptr, 1)
  BY Malloc
<1>3. CASE r.ptr = NULL
  BY <1>1, <1>2, <1>3, BlockIsNumber DEF Left, Moved
<1>4. CASE r.ptr # NULL
  <2>1. /\ r.heap \in Heap /\ r.ptr \in Block /\ h[r.ptr] = <<>> /\ Len(r.heap[r.ptr]) = 1
        /\ \A b \in Block : b # r.ptr => r.heap[b] = h[b]
    BY <1>2, <1>4, BlockIsNumber DEF Moved
  <2>2. r.heap[r.ptr] # <<>> /\ Len(<<>>) = 0
    <3>1. Len(<<>>) = 0
      BY EmptySeq
    <3> QED
      BY <2>1, <3>1, SMTT(40)
  <2>3. CASE n <= 0
    <3>1. o = Left(New(r.ptr, NULL, 0, DefaultIncrement), r.heap)
      BY <1>1, <1>4, <2>3
    <3>2. o.b.data = NULL /\ o.b.self = r.ptr /\ o.h = r.heap
          /\ o.b.pos = 0 /\ o.b.datalen = 0 /\ o.b.status = "ok"
      BY <3>1 DEF Left, New
    <3>3. o.b \in BufferRecord
      BY <2>1, <3>1, IncrementType DEF Left, New, BufferRecord
    <3>4. Holds(o.b, o.h, <<>>)
      BY <2>2, <3>2, <3>3 DEF Holds, Filled
    <3> QED
      BY <2>1, <2>2, <2>3, <3>2, <3>4 DEF InMemory
  <2>4. CASE ~ (n <= 0)
    <3>1. n \in Nat \ {0}
      BY <2>4
    <3>2. PICK d \in Ymem_malloc(r.heap, n) :
            o = IF d.ptr = NULL THEN Left(NoBuffer, Ymem_free(d.heap, r.ptr))
                ELSE Left(New(r.ptr, d.ptr, n, n), d.heap)
      BY <1>1, <1>4, <2>4 DEF WithData
    <3>3. \/ d.ptr = NULL /\ d.heap = r.heap
          \/ Moved(r.heap, NULL, d.heap, d.ptr, n) /\ d.heap[d.ptr] = Uninitialised(n)
      BY <2>1, <3>1, Malloc
    <3>4. CASE d.ptr = NULL
      <4>1. d.heap = r.heap
        BY <3>3, <3>4, BlockIsNumber DEF Moved
      <4>2. o.b = NoBuffer /\ o.h = [r.heap EXCEPT ![r.ptr] = <<>>]
        BY <1>4, <3>2, <3>4, <4>1 DEF Left, Ymem_free
      <4>3. [r.heap EXCEPT ![r.ptr] = <<>>] = h
        <5>1. /\ <<>> \in Seq(MemByte)
          BY EmptySeq
        <5>2. PICK f \in Heap : f = [r.heap EXCEPT ![r.ptr] = <<>>]
          BY <2>1, <5>1, PutBlock
        <5>3. \A b \in Block : f[b] = h[b]
          BY <2>1, <5>2 DEF Heap
        <5> QED
          BY <5>2, <5>3 DEF Heap
      <4> QED
        BY <4>2, <4>3
    <3>5. CASE d.ptr # NULL
      <4>1. /\ d.heap \in Heap /\ d.ptr \in Block /\ r.heap[d.ptr] = <<>> /\ Len(d.heap[d.ptr]) = n
            /\ \A b \in Block : b # d.ptr => d.heap[b] = r.heap[b]
            /\ d.heap[d.ptr] = Uninitialised(n)
        BY <3>3, <3>5, BlockIsNumber DEF Moved
      <4>2. o = Left(New(r.ptr, d.ptr, n, n), d.heap)
        BY <3>2, <3>5
      <4>3. /\ o.b.data = d.ptr /\ o.b.self = r.ptr /\ o.h = d.heap
            /\ o.b.pos = 0 /\ o.b.datalen = n /\ o.b.status = "ok"
        BY <4>2 DEF Left, New
      <4>4. o.b \in BufferRecord
        BY <2>1, <3>1, <4>1, <4>2 DEF Left, New, BufferRecord
      <4>5. Holds(o.b, o.h, <<>>)
        BY <2>2, <3>1, <3>5, <4>1, <4>3, <4>4 DEF Holds, Filled
      <4>6. \A i \in 1..Len(o.h[o.b.data]) : o.h[o.b.data][i] # NUL
        <5>1. n \in Nat /\ \A i \in 1..n : Uninitialised(n)[i] = Junk
          BY <3>1, UninitialisedType
        <5> QED
          BY <4>1, <4>3, <5>1 DEF NUL, Junk
      <4>7. d.ptr # r.ptr /\ d.heap[d.ptr] # <<>>
        BY <2>2, <3>1, <4>1, EmptySeq
      <4> QED
        BY <2>1, <2>2, <3>5, <4>1, <4>3, <4>5, <4>6, <4>7 DEF InMemory, StringAt
    <3> QED
      BY <3>4, <3>5
  <2> QED
    BY <2>3, <2>4
<1> QED
  BY <1>3, <1>4

\* There is room for n more bytes and a NUL.
Room(b, h, t, n) ==
  /\ Filled(b, h, t) /\ InMemory(b, h)
  /\ b.status = "ok" /\ b.data # NULL
  /\ b.pos + n < b.datalen

LEMMA RecordFields ==
  ASSUME NEW b \in BufferRecord
  PROVE  /\ b.self \in Block /\ b.data \in Block \cup {NULL}
         /\ b.datalen \in Nat /\ b.dataincr \in Nat /\ b.pos \in Nat
         /\ b.status \in {"ok", "error"}
BY DEF BufferRecord

LEMMA TurnedTwice ==
  ASSUME NEW b \in BufferRecord, NEW h, NEW c, NEW g, NEW d, NEW f,
         Turned(b, h, c, g), Turned(c, g, d, f), d.data = c.data
  PROVE  Turned(b, h, d, f)
BY RecordFields, BlockIsNumber DEF Turned

LEMMA NotTurned ==
  ASSUME NEW b \in BufferRecord, NEW h, InMemory(b, h)
  PROVE  Turned(b, h, b, h)
BY DEF Turned, InMemory

LEMMA NewLengthFits ==
  ASSUME NEW b \in BufferRecord, NEW n \in Nat
  PROVE  NewLength(b, n) \in Nat \ {0} /\ b.pos + n < NewLength(b, n)
BY RecordFields DEF NewLength

LEMMA GrowEffect ==
  ASSUME NEW b, NEW h, NEW t \in Code, NEW n \in Nat, NEW o \in Grow(b, h, n),
         Filled(b, h, t), InMemory(b, h), b.status = "ok"
  PROVE  \/ o.b = [b EXCEPT !.status = "error"] /\ o.h = h
         \/ Turned(b, h, o.b, o.h) /\ Room(o.b, o.h, t, n)
<1>1. b \in BufferRecord /\ b.data \in Block \cup {NULL} /\ h \in Heap
  BY RecordFields DEF Filled, InMemory
<1>2. PICK k \in Nat \ {0} : k = NewLength(b, n) /\ b.pos + n < k
  BY <1>1, NewLengthFits
<1>3. PICK r \in Ymem_realloc(h, b.data, k) :
        o = IF r.ptr = NULL THEN Left([b EXCEPT !.status = "error"], r.heap)
            ELSE Left([b EXCEPT !.data = r.ptr, !.datalen = k], r.heap)
  BY <1>2 DEF Grow
<1>4. (r.ptr = NULL /\ r.heap = h) \/ Moved(h, b.data, r.heap, r.ptr, k)
  BY <1>1, <1>2, Realloc
<1>5. CASE r.ptr = NULL
  BY <1>3, <1>4, <1>5, BlockIsNumber DEF Left, Moved
<1>6. CASE r.ptr # NULL
  <2>1. Moved(h, b.data, r.heap, r.ptr, k)
    BY <1>4, <1>6
  <2>2. r.ptr \in Block /\ r.heap \in Heap /\ Len(r.heap[r.ptr]) = k /\ r.heap[r.ptr] \in Seq(MemByte)
    BY <2>1 DEF Moved, Heap
  <2>3. o.h = r.heap /\ o.b = [b EXCEPT !.data = r.ptr, !.datalen = k]
    BY <1>3, <1>6 DEF Left
  <2>4. /\ o.b \in BufferRecord /\ o.b.self = b.self /\ o.b.data = r.ptr /\ o.b.datalen = k
        /\ o.b.pos = b.pos /\ o.b.status = "ok"
    BY <1>1, <1>2, <2>2, <2>3 DEF BufferRecord
  <2>5. r.heap[r.ptr] # <<>>
    <3>1. Len(<<>>) = 0
      BY EmptySeq
    <3> QED
      BY <1>2, <2>2, <3>1
  <2>6. Turned(b, h, o.b, o.h)
    BY <1>1, <1>6, <2>1, <2>2, <2>3, <2>4, <2>5 DEF Turned, Moved
  <2>7. PICK l \in Nat : l = Len(t)
    BY SeqLength DEF Code
  <2>8. b.pos = l /\ b.pos <= b.datalen /\ b.datalen \in Nat
    BY <1>1, <2>7, RecordFields DEF Filled
  <2>9. ASSUME NEW i \in 1..l PROVE r.heap[r.ptr][i] = t[i]
    <3>1. i <= b.datalen /\ b.datalen # 0 /\ i \in 1..k
      BY <1>2, <2>8
    <3>2. b.data # NULL /\ Len(h[b.data]) = b.datalen /\ h[b.data][i] = t[i]
      BY <2>7, <3>1 DEF Filled
    <3> QED
      BY <2>1, <3>1, <3>2 DEF Moved
  <2>10. Filled(o.b, o.h, t)
    BY <1>2, <1>6, <2>2, <2>3, <2>4, <2>7, <2>8, <2>9 DEF Filled
  <2>11. Room(o.b, o.h, t, n)
    BY <1>2, <1>6, <2>2, <2>3, <2>4, <2>5, <2>10 DEF Room, InMemory
  <2> QED
    BY <2>6, <2>11
<1> QED
  BY <1>5, <1>6

\* The text s and a NUL are written behind the text t.
LEMMA PutEndEffect ==
  ASSUME NEW g, NEW t \in Code, NEW s \in Code, Room(g.b, g.h, t, Len(s)),
         NEW o, o = PutEnd(g, s)
  PROVE  /\ Turned(g.b, g.h, o.b, o.h) /\ o.b.data = g.b.data
         /\ o.b.status = "ok" /\ Holds(o.b, o.h, t \o s)
<1> DEFINE p == g.b.data
           c == s \o <<NUL>>
<1>1. PICK k \in Nat, n \in Nat : k = Len(t) /\ n = Len(s)
  BY SeqLength DEF Code
<1>2. /\ g.b \in BufferRecord /\ p \in Block /\ g.b.datalen \in Nat /\ g.b.pos = k
      /\ g.h \in Heap /\ g.b.status = "ok" /\ k + n < g.b.datalen
  BY <1>1, RecordFields DEF Room, Filled, InMemory
<1>3. PICK l \in Nat : l = g.b.datalen /\ l = Len(g.h[p]) /\ k + n < l
  BY <1>2 DEF Room, Filled
<1>4. \A i \in 1..k : g.h[p][i] = t[i]
  BY <1>1 DEF Room, Filled
<1>5. /\ c \in Seq(MemByte) /\ Len(c) = n + 1 /\ c[n + 1] = NUL
      /\ \A i \in 1..n : c[i] = s[i]
  <2>1. s \in Seq(MemByte)
    BY SeqMonotonic DEF MemByte, Code
  <2>2. <<NUL>> \in Seq(MemByte) /\ Len(<<NUL>>) = 1 /\ <<NUL>>[1] = NUL
    BY DEF NUL, MemByte
  <2>3. /\ c \in Seq(MemByte) /\ Len(c) = n + 1
        /\ \A i \in 1..(n + 1) : c[i] = IF i <= n THEN s[i] ELSE <<NUL>>[i - n]
    BY <1>1, <2>1, <2>2, ConcatProperties
  <2>4. n + 1 \in 1..(n + 1) /\ ~ (n + 1 <= n) /\ (n + 1) - n = 1
    OBVIOUS
  <2>5. c[n + 1] = NUL
    BY <2>2, <2>3, <2>4
  <2> HIDE DEF c
  <2> QED
    BY <2>3, <2>5
<1>6. o.h = Write(g.h, p, k, c) /\ o.b = [g.b EXCEPT !.pos = k + n]
  BY <1>1, <1>2 DEF PutEnd, Left
<1> HIDE DEF c
<1>7. /\ o.h \in Heap /\ Len(o.h[p]) = l
      /\ \A i \in 1..l : o.h[p][i] = IF k < i /\ i <= k + (n + 1) THEN c[i - k] ELSE g.h[p][i]
      /\ \A b \in Block : b # p => o.h[b] = g.h[b]
  <2>1. PICK f \in Heap : f = g.h
    BY <1>2
  <2>2. PICK x \in Nat : x = n + 1
    OBVIOUS
  <2>3. p \in Block /\ l = Len(f[p]) /\ x = Len(c) /\ c \in Seq(MemByte)
    BY <1>2, <1>3, <1>5, <2>1, <2>2
  <2> HIDE DEF p
  <2>4. /\ Write(f, p, k, c) \in Heap
        /\ Len(Write(f, p, k, c)[p]) = l
        /\ \A i \in 1..l : Write(f, p, k, c)[p][i] = IF k < i /\ i <= k + x THEN c[i - k] ELSE f[p][i]
        /\ \A b \in Block : b # p => Write(f, p, k, c)[b] = f[b]
    BY <2>3, WriteEffect
  <2> QED
    BY <1>6, <2>1, <2>2, <2>4 DEF p
<1>8. /\ o.b \in BufferRecord /\ o.b.self = g.b.self /\ o.b.data = p /\ o.b.datalen = l
      /\ o.b.pos = k + n /\ o.b.status = "ok"
  <2>1. PICK x \in BufferRecord : x = g.b
    BY <1>2
  <2>2. PICK e \in Nat : e = k + n
    OBVIOUS
  <2>3. [x EXCEPT !.pos = e] \in BufferRecord
    BY <2>2 DEF BufferRecord
  <2>4. /\ [x EXCEPT !.pos = e].self = x.self /\ [x EXCEPT !.pos = e].data = x.data
        /\ [x EXCEPT !.pos = e].datalen = x.datalen /\ [x EXCEPT !.pos = e].pos = e
        /\ [x EXCEPT !.pos = e].status = x.status
    BY DEF BufferRecord
  <2> QED
    BY <1>2, <1>3, <1>6, <2>1, <2>2, <2>3, <2>4
<1> HIDE DEF p
<1>9. o.h[p] # <<>>
  <2>1. Len(<<>>) = 0
    BY EmptySeq
  <2> QED
    BY <1>3, <1>7, <2>1
<1>10. p # NULL
  BY <1>2, BlockIsNumber
<1>11. Turned(g.b, g.h, o.b, o.h)
  BY <1>2, <1>7, <1>8, <1>9, <1>10 DEF Turned, p
<1>12. /\ t \o s \in Code /\ Len(t \o s) = k + n
       /\ \A i \in 1..(k + n) : (t \o s)[i] = IF i <= k THEN t[i] ELSE s[i - k]
  BY <1>1, ConcatProperties DEF Code
<1>13. ASSUME NEW i \in 1..(k + n) PROVE o.h[p][i] = (t \o s)[i]
  <2>1. i \in 1..l
    BY <1>3
  <2>2. CASE i <= k
    <3>1. i \in 1..k /\ ~ (k < i)
      BY <2>2
    <3> QED
      BY <1>4, <1>7, <1>12, <2>1, <2>2, <3>1
  <2>3. CASE ~ (i <= k)
    <3>1. k < i /\ i <= k + (n + 1) /\ i - k \in 1..n
      BY <2>3
    <3> QED
      BY <1>5, <1>7, <1>12, <2>1, <2>3, <3>1
  <2> QED
    BY <2>2, <2>3
<1>14. o.h[p][k + n + 1] = NUL
  <2>1. k + n + 1 \in 1..l /\ k < k + n + 1 /\ k + n + 1 <= k + (n + 1) /\ (k + n + 1) - k = n + 1
    BY <1>3
  <2> QED
    BY <1>5, <1>7, <2>1
<1>15. Filled(o.b, o.h, t \o s)
  <2>1. PICK e \in Nat : e = k + n
    OBVIOUS
  <2>2. PICK u \in Code : u = t \o s /\ Len(u) = k + n
    BY <1>12
  <2>3. e <= l /\ \A i \in 1..e : o.h[p][i] = u[i]
    <3>1. \A i \in 1..(k + n) : o.h[p][i] = (t \o s)[i]
      BY <1>13
    <3> QED
      BY <1>3, <2>1, <2>2, <3>1
  <2>4. Filled(o.b, o.h, u)
    BY <1>7, <1>8, <1>10, <2>1, <2>2, <2>3 DEF Filled
  <2> QED
    BY <2>2, <2>4
<1>16. k + n + 1 \in (k + n + 1)..l
  BY <1>3
<1>17. Holds(o.b, o.h, t \o s)
  BY <1>3, <1>8, <1>14, <1>15, <1>16 DEF Holds
<1> QED
  BY <1>8, <1>11, <1>17 DEF p

\* What an append of s may make of a buffer that holds t.
Appends(b, h, t, s, c, g) ==
  /\ Turned(b, h, c, g)
  /\ Holds(c, g, IF c.status = "ok" THEN t \o s ELSE t)
  /\ b.status # "ok" => c = b /\ g = h

\* If it leaves the memory alone, it has failed or had nothing to append.
Cleanly(b, h, s, c, g) ==
  /\ c.status = "error" \/ s = <<>> => g = h /\ c.data = b.data
  /\ s # <<>> /\ c.status = "ok" => b.status = "ok"

LEMMA ErrorHolds ==
  ASSUME NEW b, NEW h, NEW t, Holds(b, h, t)
  PROVE  Holds([b EXCEPT !.status = "error"], h, t)
<1> DEFINE c == [b EXCEPT !.status = "error"]
<1>1. b \in BufferRecord
  BY DEF Holds, Filled
<1>2. /\ c \in BufferRecord /\ c.pos = b.pos /\ c.datalen = b.datalen /\ c.data = b.data
      /\ c.status = "error"
  BY <1>1 DEF BufferRecord
<1> HIDE DEF c
<1>3. Holds(c, h, t)
  BY <1>2 DEF Holds, Filled
<1> QED
  BY <1>3 DEF c

\* With room for the text, or after the buffer has grown, it is put at the end.
LEMMA PutInRoom ==
  ASSUME NEW b, NEW h, NEW t \in Code, NEW s \in Code, Room(b, h, t, Len(s)),
         NEW o, o = PutEnd(Left(b, h), s)
  PROVE  Appends(b, h, t, s, o.b, o.h) /\ o.b.status = "ok"
<1>1. Left(b, h).b = b /\ Left(b, h).h = h
  BY DEF Left
<1>2. /\ Turned(b, h, o.b, o.h) /\ o.b.status = "ok" /\ Holds(o.b, o.h, t \o s)
  BY <1>1, PutEndEffect
<1> QED
  BY <1>2 DEF Appends, Room

LEMMA PutAfterGrow ==
  ASSUME NEW b, NEW h, NEW t \in Code, NEW s \in Code, NEW g \in Grow(b, h, Len(s)),
         Filled(b, h, t), InMemory(b, h), b.status = "ok", NEW o, o = PutEnd(g, s)
  PROVE  \/ o.b = [b EXCEPT !.status = "error"] /\ o.h = h
         \/ Turned(b, h, o.b, o.h) /\ o.b.status = "ok" /\ Holds(o.b, o.h, t \o s)
<1>1. b \in BufferRecord /\ Len(s) \in Nat
  BY SeqLength DEF Filled, Code
<1>2. CASE g.b = [b EXCEPT !.status = "error"] /\ g.h = h
  <2>1. g.b.status = "error"
    BY <1>1, <1>2 DEF BufferRecord
  <2> QED
    BY <1>2, <2>1 DEF PutEnd
<1>3. CASE Turned(b, h, g.b, g.h) /\ Room(g.b, g.h, t, Len(s))
  <2>1. /\ Turned(g.b, g.h, o.b, o.h) /\ o.b.data = g.b.data
        /\ o.b.status = "ok" /\ Holds(o.b, o.h, t \o s)
    <3>1. Room(g.b, g.h, t, Len(s))
      BY <1>3
    <3>2. \A f, v : Room(f.b, f.h, t, Len(s)) /\ v = PutEnd(f, s)
                     => /\ Turned(f.b, f.h, v.b, v.h) /\ v.b.data = f.b.data
                        /\ v.b.status = "ok" /\ Holds(v.b, v.h, t \o s)
      BY PutEndEffect
    <3> QED
      BY <3>1, <3>2
  <2>2. Turned(b, h, o.b, o.h)
    BY <1>1, <1>3, <2>1, TurnedTwice
  <2> QED
    BY <2>1, <2>2
<1> QED
  BY <1>1, <1>2, <1>3, GrowEffect

LEMMA AppendStringEffect ==
  ASSUME NEW b, NEW h, NEW t \in Code, NEW s \in Code, NEW o \in AppendString(b, h, s),
         Holds(b, h, t), InMemory(b, h)
  PROVE  /\ Appends(b, h, t, s, o.b, o.h)
         /\ s # <<>> => Cleanly(b, h, s, o.b, o.h)
<1>1. b \in BufferRecord /\ b.status \in {"ok", "error"} /\ Filled(b, h, t)
  BY RecordFields DEF Holds, Filled
<1>2. CASE b.status # "ok"
  <2>1. o.b = b /\ o.h = h
    BY <1>2 DEF AppendString, Left
  <2> QED
    BY <1>1, <1>2, <2>1, NotTurned DEF Appends, Cleanly
<1>3. CASE b.status = "ok" /\ NeedsRoom(b, Len(s))
  <2>1. PICK g \in Grow(b, h, Len(s)) : o = PutEnd(g, s)
    BY <1>3 DEF AppendString
  <2>2. CASE o.b = [b EXCEPT !.status = "error"] /\ o.h = h
    <3>1. /\ o.b \in BufferRecord /\ o.b.self = b.self /\ o.b.data = b.data
          /\ o.b.status = "error"
      BY <1>1, <2>2 DEF BufferRecord
    <3>2. Holds(o.b, o.h, t)
      BY <2>2, ErrorHolds
    <3>3. Turned(b, h, o.b, o.h)
      BY <2>2, <3>1 DEF Turned, InMemory
    <3> QED
      BY <1>3, <2>2, <3>1, <3>2, <3>3 DEF Appends, Cleanly
  <2>3. CASE Turned(b, h, o.b, o.h) /\ o.b.status = "ok" /\ Holds(o.b, o.h, t \o s)
    BY <1>3, <2>3 DEF Appends, Cleanly
  <2> QED
    BY <1>1, <1>3, <2>1, <2>2, <2>3, PutAfterGrow
<1>4. CASE b.status = "ok" /\ ~ NeedsRoom(b, Len(s))
  <2>1. o = PutEnd(Left(b, h), s)
    BY <1>4 DEF AppendString
  <2>2. Room(b, h, t, Len(s))
    <3>1. PICK n \in Nat : n = Len(s)
      BY SeqLength DEF Code
    <3>2. /\ b.pos \in Nat /\ b.datalen \in Nat /\ b.pos + n < b.datalen
      BY <1>1, <1>4, <3>1, RecordFields DEF NeedsRoom
    <3>3. b.data # NULL
      BY <1>1, <3>1, <3>2 DEF Filled
    <3> QED
      BY <1>1, <1>4, <3>1, <3>2, <3>3 DEF Room
  <2>3. Appends(b, h, t, s, o.b, o.h) /\ o.b.status = "ok"
    BY <2>1, <2>2, PutInRoom
  <2> QED
    BY <1>4, <2>3 DEF Cleanly
<1> QED
  BY <1>1, <1>2, <1>3, <1>4

LEMMA AppendBytesEffect ==
  ASSUME NEW b, NEW h, NEW t \in Code, NEW s \in Code, NEW o \in AppendBytes(b, h, s),
         Holds(b, h, t), InMemory(b, h)
  PROVE  Appends(b, h, t, s, o.b, o.h) /\ Cleanly(b, h, s, o.b, o.h)
<1>1. CASE s = <<>>
  <2>1. o.b = b /\ o.h = h /\ b \in BufferRecord
    BY <1>1 DEF AppendBytes, Left, Holds, Filled
  <2>2. t \o s = t
    BY <1>1, ConcatEmptySeq DEF Code
  <2> QED
    BY <1>1, <2>1, <2>2, NotTurned DEF Appends, Cleanly
<1>2. CASE s # <<>>
  <2>1. o \in AppendString(b, h, s)
    BY <1>2 DEF AppendBytes
  <2> QED
    BY <1>2, <2>1, AppendStringEffect
<1> QED
  BY <1>1, <1>2

LEMMA TurnedLater ==
  ASSUME NEW b \in BufferRecord, NEW h, NEW g, NEW d, NEW f,
         Turned(b, h, b, g), Turned(b, g, d, f)
  PROVE  Turned(b, h, d, f)
BY RecordFields, BlockIsNumber DEF Turned

\* What vsnprintf writes before the buffer grows ends with a NUL, in the buffer.
Space(b)  == b.datalen - b.pos
Cut(s, n) == SubSeq(s, 1, n - 1) \o <<NUL>>

Truncates(b, h, t, s, g) ==
  /\ Space(b) \in Nat \ {0} /\ Space(b) <= Len(s)
  /\ Filled(b, h, t) /\ InMemory(b, h)
  /\ g = Write(h, b.data, b.pos, Cut(s, Space(b)))

LEMMA TruncatedText ==
  ASSUME NEW b, NEW h, NEW t \in Code, NEW s \in Code, NEW g, Truncates(b, h, t, s, g)
  PROVE  /\ Filled(b, g, t) /\ InMemory(b, g) /\ Turned(b, h, b, g)
         /\ \E i \in (b.pos + 1)..b.datalen : g[b.data][i] = NUL
<1> DEFINE p == b.data
<1>1. PICK space \in Nat \ {0} : space = Space(b) /\ space <= Len(s)
  BY DEF Truncates
<1> DEFINE c == Cut(s, space)
<1>2. Filled(b, h, t) /\ InMemory(b, h) /\ g = Write(h, p, b.pos, c)
  BY <1>1 DEF Truncates
<1>3. /\ b \in BufferRecord /\ b.self \in Block /\ h \in Heap
      /\ b.pos \in Nat /\ b.datalen \in Nat /\ b.pos + space = b.datalen
  BY <1>1, <1>2, RecordFields DEF Filled, InMemory, Space
<1>4. p # NULL /\ p \in Block
  BY <1>1, <1>2, <1>3, RecordFields DEF Filled
<1>5. PICK k \in Nat, l \in Nat : k = b.pos /\ l = b.datalen /\ k = Len(t) /\ l = Len(h[p]) /\ l = k + space
  BY <1>2, <1>3, <1>4 DEF Filled
<1>6. \A i \in 1..k : h[p][i] = t[i]
  BY <1>2, <1>5 DEF Filled
<1>7. c \in Seq(MemByte) /\ Len(c) = space /\ c[space] = NUL
  <2>1. PICK m \in Nat : m = space - 1
    OBVIOUS
  <2>2. m \in 0..Len(s) /\ s \in Seq(MemByte)
    <3>1. s \in Seq(MemByte)
      BY SeqMonotonic DEF MemByte, Code
    <3>2. Len(s) \in Nat
      BY SeqLength DEF Code
    <3> QED
      BY <1>1, <2>1, <3>1, <3>2
  <2>3. SubSeq(s, 1, m) \in Seq(MemByte) /\ Len(SubSeq(s, 1, m)) = m
    BY <2>2, FirstPart
  <2>4. <<NUL>> \in Seq(MemByte) /\ Len(<<NUL>>) = 1 /\ <<NUL>>[1] = NUL
    BY DEF NUL, MemByte
  <2>5. PICK a \in Seq(MemByte) : a = SubSeq(s, 1, m) /\ Len(a) = m
    BY <2>3
  <2>6. /\ a \o <<NUL>> \in Seq(MemByte) /\ Len(a \o <<NUL>>) = m + 1
        /\ \A i \in 1..(m + 1) : (a \o <<NUL>>)[i] = IF i <= m THEN a[i] ELSE <<NUL>>[i - m]
    BY <2>4, <2>5, ConcatProperties
  <2>7. m + 1 = space /\ m + 1 \in 1..(m + 1) /\ ~ (m + 1 <= m) /\ (m + 1) - m = 1
    <3>1. space = m + 1
      BY <2>1
    <3>2. \A x \in Nat : x + 1 \in 1..(x + 1) /\ ~ (x + 1 <= x) /\ (x + 1) - x = 1
      OBVIOUS
    <3> QED
      BY <3>1, <3>2
  <2>8. (a \o <<NUL>>)[space] = NUL
    BY <2>4, <2>6, <2>7
  <2>9. c = a \o <<NUL>>
    BY <2>1, <2>5 DEF Cut
  <2> HIDE DEF c
  <2> QED
    BY <2>6, <2>7, <2>8, <2>9
<1>8. g = Write(h, p, k, c)
  BY <1>2, <1>5
<1> HIDE DEF p, c
<1>9. /\ g \in Heap /\ Len(g[p]) = l
      /\ \A i \in 1..l : g[p][i] = IF k < i /\ i <= k + space THEN c[i - k] ELSE h[p][i]
      /\ \A b2 \in Block : b2 # p => g[b2] = h[b2]
  <2>1. space \in Nat /\ space = Len(c) /\ c \in Seq(MemByte) /\ l = Len(h[p])
    BY <1>5, <1>7
  <2>2. PICK f \in Heap : f = h
    BY <1>3
  <2>3. /\ Write(f, p, k, c) \in Heap /\ Len(Write(f, p, k, c)[p]) = l
        /\ \A i \in 1..l : Write(f, p, k, c)[p][i] = IF k < i /\ i <= k + space THEN c[i - k] ELSE f[p][i]
        /\ \A b2 \in Block : b2 # p => Write(f, p, k, c)[b2] = f[b2]
    BY <1>4, <2>1, <2>2, WriteEffect
  <2> QED
    BY <1>8, <2>2, <2>3
<1>10. g[p] # <<>>
  <2>1. Len(<<>>) = 0
    BY EmptySeq
  <2> QED
    BY <1>5, <1>9, <2>1
<1>11. \A i \in 1..k : g[p][i] = t[i]
  <2>1. \A i \in 1..k : i \in 1..l /\ ~ (k < i)
    BY <1>5
  <2> QED
    BY <1>6, <1>9, <2>1
<1>12. g[p][l] = NUL /\ l \in (k + 1)..l
  <2>1. l \in 1..l /\ k < l /\ l <= k + space /\ l - k = space /\ l \in (k + 1)..l
    BY <1>5
  <2> QED
    BY <1>7, <1>9, <2>1
<1>13. Filled(b, g, t)
  BY <1>3, <1>4, <1>5, <1>9, <1>11 DEF Filled, p
<1>14. InMemory(b, g) /\ Turned(b, h, b, g)
  BY <1>3, <1>9, <1>10 DEF InMemory, Turned, p
<1> QED
  BY <1>5, <1>12, <1>13, <1>14 DEF p

LEMMA AppendFormatEffect ==
  ASSUME NEW b, NEW h, NEW t \in Code, NEW s \in Code, NEW o \in AppendFormat(b, h, s),
         Holds(b, h, t), InMemory(b, h)
  PROVE  Appends(b, h, t, s, o.b, o.h)
<1>1. /\ b \in BufferRecord /\ b.status \in {"ok", "error"} /\ Filled(b, h, t)
      /\ b.pos \in Nat /\ b.datalen \in Nat
  BY RecordFields DEF Holds, Filled
<1>2. PICK n \in Nat : n = Len(s)
  BY SeqLength DEF Code
<1>3. PICK space \in Int : space = b.datalen - b.pos
  BY <1>1
<1> DEFINE truncated == IF space <= 0 THEN h
                        ELSE Write(h, b.data, b.pos, SubSeq(s, 1, space - 1) \o <<NUL>>)
<1>4. CASE b.status # "ok"
  <2>1. o.b = b /\ o.h = h
    BY <1>4 DEF AppendFormat, Left
  <2> QED
    BY <1>1, <1>4, <2>1, NotTurned DEF Appends
<1>5. CASE b.status = "ok" /\ n < space
  <2>1. o = PutEnd(Left(b, h), s)
    BY <1>2, <1>3, <1>5 DEF AppendFormat
  <2>2. Room(b, h, t, n)
    <3>1. b.pos + n < b.datalen
      BY <1>1, <1>3, <1>5
    <3>2. b.data # NULL
      BY <1>1, <3>1 DEF Filled
    <3> QED
      BY <1>1, <1>5, <3>1, <3>2 DEF Room
  <2> QED
    BY <1>2, <2>1, <2>2, PutInRoom
<1>6. CASE b.status = "ok" /\ ~ (n < space)
  <2>1. PICK g \in Grow(b, truncated, n) : o = PutEnd(g, s)
    BY <1>2, <1>3, <1>6 DEF AppendFormat
  <2>2. /\ Filled(b, truncated, t) /\ InMemory(b, truncated) /\ Turned(b, h, b, truncated)
        /\ t # <<>> => \E i \in (b.pos + 1)..b.datalen : truncated[b.data][i] = NUL
    <3>1. CASE space <= 0
      <4>1. t = <<>>
        BY <1>1, <1>3, <1>6, <3>1 DEF Holds
      <4>2. truncated = h
        BY <3>1
      <4> HIDE DEF truncated
      <4> QED
        BY <1>1, <4>1, <4>2, NotTurned
    <3>2. CASE ~ (space <= 0)
      <4>1. space \in Nat \ {0} /\ space <= Len(s)
        BY <1>2, <1>6, <3>2
      <4>2. truncated = Write(h, b.data, b.pos, SubSeq(s, 1, space - 1) \o <<NUL>>)
        BY <3>2
      <4> HIDE DEF truncated
      <4>3. Truncates(b, h, t, s, truncated)
        BY <1>1, <1>3, <4>1, <4>2 DEF Truncates, Space, Cut
      <4> QED
        BY <4>3, TruncatedText
    <3> QED
      BY <3>1, <3>2
  <2> HIDE DEF truncated
  <2>3. \/ o.b = [b EXCEPT !.status = "error"] /\ o.h = truncated
        \/ Turned(b, truncated, o.b, o.h) /\ o.b.status = "ok" /\ Holds(o.b, o.h, t \o s)
    BY <1>2, <1>6, <2>1, <2>2, PutAfterGrow
  <2>4. CASE o.b = [b EXCEPT !.status = "error"] /\ o.h = truncated
    <3>1. /\ o.b \in BufferRecord /\ o.b.self = b.self /\ o.b.data = b.data
          /\ o.b.pos = b.pos /\ o.b.datalen = b.datalen /\ o.b.status = "error"
      BY <1>1, <2>4 DEF BufferRecord
    <3>2. Holds(o.b, o.h, t)
      BY <2>2, <2>4, <3>1 DEF Holds, Filled
    <3>3. Turned(b, h, o.b, o.h)
      BY <2>2, <2>4, <3>1 DEF Turned
    <3> QED
      BY <1>6, <3>1, <3>2, <3>3 DEF Appends
  <2>5. CASE Turned(b, truncated, o.b, o.h) /\ o.b.status = "ok" /\ Holds(o.b, o.h, t \o s)
    <3>1. Turned(b, h, o.b, o.h)
      BY <1>1, <2>2, <2>5, TurnedLater
    <3> QED
      BY <1>6, <2>5, <3>1 DEF Appends
  <2> QED
    BY <2>3, <2>4, <2>5
<1> QED
  BY <1>2, <1>3, <1>4, <1>5, <1>6

LEMMA DecimalType ==
  ASSUME NEW n \in Int
  PROVE  Decimal(n) \in Code
<1>1. ASSUME NEW k \in Int PROVE Digits(k) \in Code
  <2> DEFINE all == [i \in 1..10 |-> 48 + ((k \div PowerOfTen[i]) % 10)]
             leading == {i \in 1..9 : k < PowerOfTen[i]}
  <2>1. \A i \in 1..10 : PowerOfTen[i] \in Nat \ {0}
    BY DEF PowerOfTen
  <2>2. ASSUME NEW i \in 1..10 PROVE all[i] \in 0..255
    <3>1. PICK p \in Nat \ {0} : p = PowerOfTen[i]
      BY <2>1
    <3>2. PICK d \in Int : d = k \div p
      OBVIOUS
    <3>3. d % 10 \in 0..9
      BY <3>2
    <3> QED
      BY <3>1, <3>2, <3>3
  <2>3. all \in [1..10 -> 0..255]
    BY <2>2
  <2>4. all \in Seq(0..255) /\ Len(all) = 10
    BY <2>3, IsASeq, LenProperties, SMTT(40)
  <2>5. \A i \in 1..10 : all[i] \in 0..255
    BY <2>2
  <2>6. PICK c \in Nat : c = Cardinality(leading)
    <3>1. IsFiniteSet(1..9)
      <4>1. \A x \in Nat : IsFiniteSet(1..x)
        BY FS_Interval
      <4> QED
        BY <4>1
    <3>2. leading \in SUBSET (1..9)
      OBVIOUS
    <3> HIDE DEF leading
    <3>3. IsFiniteSet(leading)
      BY <3>1, <3>2, FS_Subset
    <3> QED
      BY <3>3, FS_CardinalityType
  <2>7. Digits(k) = SubSeq(all, c + 1, 10)
    BY <2>6 DEF Digits
  <2> HIDE DEF all
  <2>8. \A i \in (c + 1)..10 : all[i] \in 0..255
    BY <2>5
  <2>9. SubSeq(all, c + 1, 10) \in Seq(0..255)
    BY <2>8, SubSeqProperties
  <2> QED
    BY <2>7, <2>9 DEF Code
<1>2. <<45>> \in Code
  BY DEF Code
<1>3. Digits(-n) \in Code /\ Digits(n) \in Code
  BY <1>1
<1>4. <<45>> \o Digits(-n) \in Code
  BY <1>2, <1>3, ConcatProperties DEF Code
<1> QED
  BY <1>3, <1>4 DEF Decimal

-----------------------------------------------------------------------------
(* Who owns a block *)

\* Every owner but those of the blocks in S finds its block unchanged.
Unchanged(h, g, S) == \A p \in Block : p \notin S /\ h[p] # <<>> => g[p] = h[p]

LEMMA OwnsTurned ==
  ASSUME NEW h, NEW H, NEW L, NEW b, NEW d, NEW c, NEW g,
         Owns(h, H, L, b, d), Turned(b, h, c, g), b \in BufferRecord
  PROVE  Owns(g, H, L, c, d) /\ Unchanged(h, g, {b.data})
<1>1. /\ b.self \in Block /\ b.data \in Block \cup {NULL} /\ NULL \notin Block
      /\ c.self = b.self /\ c.data \in Block \cup {NULL} /\ c \in BufferRecord /\ g \in Heap
  BY RecordFields, BlockIsNumber DEF Turned
<1>2. /\ b.data # NULL => c.data # NULL
      /\ c.data # NULL => g[c.data] # <<>>
      /\ c.data # b.data => h[c.data] = <<>> /\ (b.data # NULL => g[b.data] = <<>>)
      /\ \A p \in Block : p \notin {b.data, c.data} => g[p] = h[p]
  BY DEF Turned
<1>3. c.data # b.data => c.data \in Block /\ c.data \notin H /\ c.data \notin L
                          /\ c.data # b.self /\ c.data # d
  BY <1>1, <1>2 DEF Owns
<1>4. Owns(g, H, L, c, d)
  BY <1>1, <1>2, <1>3 DEF Owns
<1>5. Unchanged(h, g, {b.data})
  BY <1>1, <1>2, <1>3 DEF Unchanged
<1> QED
  BY <1>4, <1>5

LEMMA OwnsMoved ==
  ASSUME NEW h, NEW H, NEW L, NEW b, NEW d, NEW p, NEW g, NEW q, NEW n,
         Owns(h, H, L, b, d), Moved(h, p, g, q, n), p \in H
  PROVE  /\ Owns(g, (H \ {p}) \cup {q}, L, b, d) /\ Unchanged(h, g, {p})
         /\ q \notin H \ {p} /\ Len(g[q]) = n /\ q \in Block /\ p # b.data
<1>1. /\ g \in Heap /\ q \in Block /\ n \in Nat \ {0} /\ Len(g[q]) = n /\ NULL \notin Block
      /\ q = p \/ h[q] = <<>>
      /\ p # NULL /\ p # q => g[p] = <<>>
      /\ \A x \in Block : x \notin {p, q} => g[x] = h[x]
  BY BlockIsNumber DEF Moved
<1>2. g[q] # <<>>
  <2>1. Len(<<>>) = 0
    BY EmptySeq
  <2> QED
    BY <1>1, <2>1
<1>3. q # p => q \notin H /\ q \notin L /\ q # b.self /\ q # b.data /\ q # d
  BY <1>1 DEF Owns
<1>4. p \in Block /\ p # NULL /\ p \notin L /\ p # b.self /\ p # b.data /\ p # d
  BY <1>1 DEF Owns
<1>5. Owns(g, (H \ {p}) \cup {q}, L, b, d)
  BY <1>1, <1>2, <1>3, <1>4 DEF Owns
<1>6. Unchanged(h, g, {p})
  BY <1>1 DEF Unchanged
<1> QED
  BY <1>1, <1>3, <1>4, <1>5, <1>6

LEMMA OwnsNew ==
  ASSUME NEW h, NEW H, NEW L, NEW b, NEW d, NEW g, NEW q, NEW n,
         Owns(h, H, L, b, d), Moved(h, NULL, g, q, n)
  PROVE  /\ Owns(g, H \cup {q}, L, b, d) /\ Owns(g, H, L \cup {q}, b, d) /\ Unchanged(h, g, {})
         /\ q \notin H /\ Len(g[q]) = n /\ q \in Block
<1>1. /\ g \in Heap /\ q \in Block /\ n \in Nat \ {0} /\ Len(g[q]) = n /\ NULL \notin Block
      /\ h[q] = <<>>
      /\ \A x \in Block : x # q => g[x] = h[x]
  BY BlockIsNumber DEF Moved
<1>2. g[q] # <<>>
  <2>1. Len(<<>>) = 0
    BY EmptySeq
  <2> QED
    BY <1>1, <2>1
<1>3. q \notin H /\ q \notin L /\ q # b.self /\ q # b.data /\ q # d
  BY <1>1 DEF Owns
<1>4. Owns(g, H \cup {q}, L, b, d)
  BY <1>1, <1>2, <1>3 DEF Owns
<1>5. Owns(g, H, L \cup {q}, b, d)
  BY <1>1, <1>2, <1>3 DEF Owns
<1>6. Unchanged(h, g, {})
  BY <1>1 DEF Unchanged
<1> QED
  BY <1>1, <1>3, <1>4, <1>5, <1>6

\* A block is freed, which is that of p, if it is not NULL.
LEMMA FreeBlock ==
  ASSUME NEW h \in Heap, NEW p \in Block \cup {NULL}
  PROVE  /\ Ymem_free(h, p) \in Heap
         /\ p # NULL => Ymem_free(h, p)[p] = <<>>
         /\ \A x \in Block : x # p => Ymem_free(h, p)[x] = h[x]
<1>1. CASE p = NULL
  BY <1>1, BlockIsNumber DEF Ymem_free
<1>2. CASE p # NULL
  <2>1. <<>> \in Seq(MemByte)
    BY EmptySeq
  <2>2. /\ [h EXCEPT ![p] = <<>>] \in Heap /\ [h EXCEPT ![p] = <<>>][p] = <<>>
        /\ \A x \in Block : x # p => [h EXCEPT ![p] = <<>>][x] = h[x]
    BY <1>2, <2>1 DEF Heap
  <2> QED
    BY <1>2, <2>2 DEF Ymem_free
<1> QED
  BY <1>1, <1>2

LEMMA HoldsFrame ==
  ASSUME NEW b, NEW h, NEW g, NEW t, NEW S, Holds(b, h, t), InMemory(b, h),
         Unchanged(h, g, S), b.data \notin S
  PROVE  Holds(b, g, t) /\ \A s : b.data # NULL /\ StringAt(h, b.data, s) => StringAt(g, b.data, s)
<1>1. b \in BufferRecord /\ b.data \in Block \cup {NULL} /\ b.pos \in Nat /\ b.datalen \in Nat
  BY RecordFields DEF Holds, Filled
<1>2. b.data # NULL => g[b.data] = h[b.data]
  BY <1>1 DEF Unchanged, InMemory
<1>3. CASE b.data # NULL
  BY <1>2, <1>3 DEF Holds, Filled, StringAt
<1>4. CASE b.data = NULL
  <2>1. b.datalen = 0 /\ b.pos = 0 /\ Len(t) = 0
    BY <1>1, <1>4 DEF Holds, Filled
  <2>2. ASSUME t # <<>> PROVE FALSE
    <3>1. PICK i \in (b.pos + 1)..b.datalen : h[b.data][i] = NUL
      BY <2>2 DEF Holds
    <3> QED
      BY <2>1, <3>1
  <2> QED
    BY <1>4, <2>1, <2>2 DEF Holds, Filled
<1> QED
  BY <1>3, <1>4

-----------------------------------------------------------------------------
(* The callers of Ymem *)

LEMMA BufferType ==
  ASSUME MInv
  PROVE  /\ buffer.self \in Block \cup {NULL} /\ buffer.data \in Block \cup {NULL}
         /\ buffer # NoBuffer => buffer \in BufferRecord /\ InMemory(buffer, heap)
         /\ buffer = NoBuffer => buffer.self = NULL /\ buffer.data = NULL
         /\ HeldBlocks \in SUBSET Block /\ lost \in SUBSET Block
<1>1. HeldBlocks \in SUBSET Block /\ lost \in SUBSET Block
  BY DEF MInv, MemType, HeldBlocks
<1>2. buffer = NoBuffer => buffer.self = NULL /\ buffer.data = NULL
  BY DEF NoBuffer
<1>3. ASSUME buffer # NoBuffer PROVE buffer \in BufferRecord /\ InMemory(buffer, heap)
  <2>1. buffer \in BufferRecord /\ heap \in Heap /\ Owns(heap, HeldBlocks, lost, buffer, detached)
    BY <1>3 DEF MInv, MemType, Owned, Holds, Filled
  <2>2. buffer.data # NULL => heap[buffer.data] # <<>>
    BY <2>1, RecordFields DEF Owns
  <2> QED
    BY <2>1, <2>2 DEF InMemory
<1> QED
  BY <1>1, <1>2, <1>3, RecordFields

HeldType == [ptr : Block, at : Nat, size : Nat, alignment : Nat \ {0}]

\* m is as long and as aligned as was asked for.
Right(m, h) ==
  /\ Ymem_isaligned(m.at, m.alignment)
  /\ m.ptr <= m.at
  /\ m.at + m.size <= m.ptr + Len(h[m.ptr])

\* The steps of a caller of Ymem leave the blocks of the others as they are.
OthersKept == Unchanged(heap, heap', HeldBlocks)

LEMMA CallerStep ==
  ASSUME MInv, UNCHANGED <<buffer, text, detached>>, NEW S,
         heap' \in Heap, held' \subseteq HeldType, lost' \subseteq Block,
         Owns(heap', HeldBlocks', lost', buffer, detached),
         Unchanged(heap, heap', S), S \subseteq HeldBlocks,
         \A m, n \in held' : m.ptr = n.ptr => m = n,
         \A m \in held' : Right(m, heap')
  PROVE  MInv' /\ OthersKept
<1>1. MemType'
  BY DEF MInv, MemType, HeldType
<1>2. Owned'
  BY DEF Owned
<1>3. HeldOnce' /\ HoldsWhatWasAsked'
  BY DEF HeldOnce, HoldsWhatWasAsked, Right
<1>4. OthersKept /\ buffer.data \notin S
  <2>1. buffer.data \notin HeldBlocks
    BY BufferType DEF MInv, Owned, Owns
  <2> QED
    BY <2>1 DEF OthersKept, Unchanged
<1>5. ASSUME buffer # NoBuffer PROVE detached = NULL /\ Holds(buffer, heap', text)
  <2>1. detached = NULL /\ Holds(buffer, heap, text)
    BY <1>5 DEF MInv
  <2>2. InMemory(buffer, heap)
    BY <1>5, BufferType
  <2>3. Holds(buffer, heap', text)
    BY <1>4, <2>1, <2>2, HoldsFrame
  <2> QED
    BY <2>1, <2>3
<1>6. buffer' # NoBuffer => detached' = NULL /\ Holds(buffer', heap', text')
  BY <1>5
<1> QED
  BY <1>1, <1>2, <1>3, <1>6, <1>4 DEF MInv

LEMMA HeldFacts ==
  ASSUME MInv
  PROVE  /\ held \subseteq HeldType /\ Owns(heap, HeldBlocks, lost, buffer, detached)
         /\ heap \in Heap /\ detached \in Block \cup {NULL}
         /\ \A m \in held : Right(m, heap) /\ m.ptr \in HeldBlocks /\ m.ptr \in Block
                            /\ m.ptr # NULL /\ heap[m.ptr] # <<>>
         /\ \A m, n \in held : m.ptr = n.ptr => m = n
         /\ \A p \in HeldBlocks : \E m \in held : m.ptr = p
<1>1. /\ held \subseteq HeldType /\ Owns(heap, HeldBlocks, lost, buffer, detached)
      /\ heap \in Heap /\ detached \in Block \cup {NULL}
  BY DEF MInv, MemType, HeldType, Owned
<1>2. \A m \in held : Right(m, heap)
  BY DEF MInv, HoldsWhatWasAsked, Right
<1>3. \A m, n \in held : m.ptr = n.ptr => m = n
  BY DEF MInv, HeldOnce
<1>4. \A m \in held : m.ptr \in HeldBlocks /\ m.ptr \in Block
  BY <1>1 DEF HeldBlocks, HeldType
<1>5. \A p \in HeldBlocks : \E m \in held : m.ptr = p
  BY DEF HeldBlocks
<1>6. \A m \in held : m.ptr # NULL /\ heap[m.ptr] # <<>>
  BY <1>1, <1>4, BlockIsNumber DEF Owns
<1> QED
  BY <1>1, <1>2, <1>3, <1>4, <1>5, <1>6

LEMMA RightFrame ==
  ASSUME NEW m \in HeldType, NEW h, NEW g, NEW S, Right(m, h),
         Unchanged(h, g, S), m.ptr \notin S, h[m.ptr] # <<>>
  PROVE  Right(m, g)
BY DEF Right, Unchanged, HeldType

\* The caller gets a block of l bytes, and what it asked for lies in it.
LEMMA NewHeld ==
  ASSUME MInv, UNCHANGED <<lost, buffer, text, detached>>, NEW m \in HeldType, NEW l \in Nat,
         Moved(heap, NULL, heap', m.ptr, l), held' = held \cup {m},
         Ymem_isaligned(m.at, m.alignment), m.ptr <= m.at, m.at + m.size <= m.ptr + l
  PROVE  MInv' /\ OthersKept
<1>1. PICK H \in SUBSET Block : H = HeldBlocks
  BY BufferType
<1>2. PICK q \in Block : q = m.ptr
  BY DEF HeldType
<1>3. /\ held \subseteq HeldType /\ Owns(heap, H, lost, buffer, detached)
      /\ detached \in Block \cup {NULL} /\ lost \in SUBSET Block
      /\ buffer.self \in Block \cup {NULL} /\ buffer.data \in Block \cup {NULL}
  BY <1>1, HeldFacts, BufferType
<1>4. Moved(heap, NULL, heap', q, l)
  BY <1>2
<1>5. /\ Owns(heap', H \cup {q}, lost, buffer, detached)
      /\ Unchanged(heap, heap', {}) /\ q \notin H /\ Len(heap'[q]) = l
  <2>1. \A h, A, L, b, d, g : Owns(h, A, L, b, d) /\ Moved(h, NULL, g, q, l) =>
          /\ Owns(g, A \cup {q}, L, b, d)
          /\ Unchanged(h, g, {}) /\ q \notin A /\ Len(g[q]) = l
    BY OwnsNew, ZenonT(40)
  <2>2. Owns(heap, H, lost, buffer, detached)
    BY <1>3
  <2> QED
    BY <1>4, <2>1, <2>2
<1>6. heap' \in Heap
  BY <1>4 DEF Moved
<1>7. HeldBlocks' = H \cup {q}
  BY <1>1, <1>2 DEF HeldBlocks
<1>8. held' \subseteq HeldType /\ lost' \subseteq Block
  BY <1>3
<1>9. \A x, y \in held' : x.ptr = y.ptr => x = y
  BY <1>1, <1>2, <1>5, HeldFacts
<1>10. \A x \in held' : Right(x, heap')
  <2>1. Right(m, heap')
    BY <1>2, <1>5 DEF Right
  <2>2. ASSUME NEW x \in held PROVE Right(x, heap')
    <3>1. x \in HeldType /\ Right(x, heap) /\ heap[x.ptr] # <<>> /\ x.ptr \notin {}
      BY <1>3, HeldFacts
    <3> QED
      BY <1>5, <3>1, RightFrame
  <2> QED
    BY <2>1, <2>2
<1>11. Owns(heap', HeldBlocks', lost', buffer, detached)
  BY <1>5, <1>7
<1> QED
  BY <1>5, <1>6, <1>8, <1>9, <1>10, <1>11, CallerStep

\* A block that nobody can free any more.
LEMMA NewLost ==
  ASSUME MInv, UNCHANGED <<held, buffer, text, detached>>, NEW q, NEW l,
         Moved(heap, NULL, heap', q, l), lost' = lost \cup {q}
  PROVE  MInv' /\ OthersKept
<1>1. /\ held \subseteq HeldType /\ Owns(heap, HeldBlocks, lost, buffer, detached)
      /\ lost \subseteq Block
  BY HeldFacts, BufferType
<1>2. /\ Owns(heap', HeldBlocks, lost \cup {q}, buffer, detached)
      /\ Unchanged(heap, heap', {}) /\ q \in Block
  <2>1. \A g : Moved(heap, NULL, g, q, l) =>
          /\ Owns(g, HeldBlocks, lost \cup {q}, buffer, detached)
          /\ Unchanged(heap, g, {}) /\ q \in Block
    BY <1>1, OwnsNew
  <2> QED
    BY <2>1
<1>3. heap' \in Heap /\ HeldBlocks' = HeldBlocks
  BY DEF Moved, HeldBlocks
<1>4. \A x \in held : Right(x, heap')
  <2> TAKE x \in held
  <2>1. x \in HeldType /\ Right(x, heap) /\ heap[x.ptr] # <<>> /\ x.ptr \notin {}
    BY <1>1, HeldFacts
  <2> QED
    BY <1>2, <2>1, RightFrame
<1>5. \A m, n \in held' : m.ptr = n.ptr => m = n
  BY HeldFacts
<1> QED
  BY <1>1, <1>2, <1>3, <1>4, <1>5, CallerStep

LEMMA NothingHappens ==
  ASSUME MInv, UNCHANGED <<memVars, bufferVars>>
  PROVE  MInv' /\ OthersKept
BY DEF memVars, bufferVars, MInv, MemType, Owned, HeldBlocks, HeldOnce, HoldsWhatWasAsked,
    OthersKept, Unchanged

\* One of the allocations that put the memory at the start of the block.
LEMMA AllocateStep ==
  ASSUME MInv, UNCHANGED <<lost, bufferVars>>, NEW r, NEW n \in Nat,
         (r.ptr = NULL /\ r.heap = heap) \/ Moved(heap, NULL, r.heap, r.ptr, n),
         Hold(r, r.ptr, n, 1)
  PROVE  MInv' /\ OthersKept
<1>1. heap' = r.heap /\ UNCHANGED <<lost, buffer, text, detached>>
  BY DEF Hold, bufferVars
<1>2. CASE r.ptr = NULL
  <2>1. r.heap = heap
    BY <1>2, BlockIsNumber DEF Moved
  <2>2. held' = held
    BY <1>2 DEF Hold
  <2> QED
    BY <1>1, <2>1, <2>2, NothingHappens DEF memVars, bufferVars
<1>3. CASE r.ptr # NULL
  <2> DEFINE m == [ptr |-> r.ptr, at |-> r.ptr, size |-> n, alignment |-> 1]
  <2>1. Moved(heap, NULL, r.heap, r.ptr, n)
    BY <1>3
  <2>2. r.ptr \in Block /\ r.ptr \in Nat
    BY <2>1, BlockIsNumber DEF Moved
  <2>3. m \in HeldType
    BY <2>2 DEF HeldType
  <2>4. Ymem_isaligned(m.at, m.alignment) /\ m.ptr <= m.at /\ m.at + m.size <= m.ptr + n
    BY <2>2 DEF Ymem_isaligned, PointerOffset
  <2>5. held' = held \cup {m}
    BY <1>3 DEF Hold
  <2>6. Moved(heap, NULL, heap', m.ptr, n)
    BY <1>1, <2>1
  <2> HIDE DEF m
  <2> QED
    BY <1>1, <2>3, <2>4, <2>5, <2>6, NewHeld
<1> QED
  BY <1>2, <1>3

LEMMA AllocateAlignedStep ==
  ASSUME MInv, UNCHANGED bufferVars, NEW a \in Nat \ {0}, NEW n \in Nat, n + a < SizeMod,
         AllocateAligned(a, n)
  PROVE  MInv' /\ OthersKept
<1>1. PICK r \in Ymem_malloc_aligned(heap, a, n) :
        Hold(r, r.at, n, a) /\ lost' = lost \cup r.lost
  BY DEF AllocateAligned
<1>2. heap' = r.heap /\ UNCHANGED <<buffer, text, detached>> /\ heap \in Heap
  BY <1>1, HeldFacts DEF Hold, bufferVars
<1>3. \/ r.ptr = NULL /\ r.heap = heap /\ r.lost = {}
      \/ r.ptr = NULL /\ \E b \in Block : r.lost = {b} /\ Moved(heap, NULL, r.heap, b, n)
      \/ /\ r.lost = {} /\ r.at \in Nat /\ r.ptr <= r.at /\ Ymem_isaligned(r.at, a)
         /\ \E l \in Nat : Moved(heap, NULL, r.heap, r.ptr, l) /\ r.at + n <= r.ptr + l
  BY <1>2, MallocAligned
<1>4. CASE r.ptr = NULL /\ r.heap = heap /\ r.lost = {}
  <2>1. UNCHANGED <<memVars, bufferVars>>
    BY <1>1, <1>4 DEF Hold, memVars
  <2> QED
    BY <2>1, NothingHappens
<1>5. CASE r.ptr = NULL /\ \E b \in Block : r.lost = {b} /\ Moved(heap, NULL, r.heap, b, n)
  <2>1. PICK b \in Block : r.lost = {b} /\ Moved(heap, NULL, heap', b, n)
    BY <1>2, <1>5
  <2>2. UNCHANGED <<held, buffer, text, detached>> /\ lost' = lost \cup {b}
    BY <1>1, <1>2, <1>5, <2>1 DEF Hold
  <2> QED
    BY <2>1, <2>2, NewLost
<1>6. CASE /\ r.lost = {} /\ r.at \in Nat /\ r.ptr <= r.at /\ Ymem_isaligned(r.at, a)
           /\ \E l \in Nat : Moved(heap, NULL, r.heap, r.ptr, l) /\ r.at + n <= r.ptr + l
  <2> DEFINE m == [ptr |-> r.ptr, at |-> r.at, size |-> n, alignment |-> a]
  <2>1. PICK l \in Nat : Moved(heap, NULL, r.heap, r.ptr, l) /\ r.at + n <= r.ptr + l
    BY <1>6
  <2>2. r.ptr \in Block /\ r.ptr # NULL
    BY <2>1, BlockIsNumber DEF Moved
  <2>3. m \in HeldType
    BY <1>6, <2>2 DEF HeldType
  <2>4. Ymem_isaligned(m.at, m.alignment) /\ m.ptr <= m.at /\ m.at + m.size <= m.ptr + l
    BY <1>6, <2>1
  <2>5. held' = held \cup {m}
    BY <1>1, <2>2 DEF Hold
  <2>6. Moved(heap, NULL, heap', m.ptr, l)
    BY <1>2, <2>1
  <2>7. lost' = lost
    BY <1>1, <1>6
  <2> HIDE DEF m
  <2> QED
    BY <1>2, <2>3, <2>4, <2>5, <2>6, <2>7, NewHeld
<1> QED
  BY <1>3, <1>4, <1>5, <1>6

LEMMA ResizeStep ==
  ASSUME MInv, UNCHANGED bufferVars, NEW m \in held, NEW n \in Nat, Resize(m, n)
  PROVE  MInv' /\ OthersKept
<1>1. PICK r \in Ymem_realloc(heap, m.ptr, n) :
        /\ heap' = r.heap
        /\ held' = IF r.ptr = NULL THEN held
                   ELSE (held \ {m}) \cup {[m EXCEPT !.ptr = r.ptr, !.at = r.ptr, !.size = n]}
  BY DEF Resize
<1>2. m.alignment = 1 /\ UNCHANGED <<lost, buffer, text, detached>>
  BY DEF Resize, bufferVars
<1>3. /\ heap \in Heap /\ held \subseteq HeldType
      /\ Owns(heap, HeldBlocks, lost, buffer, detached)
      /\ m \in HeldType /\ m.ptr \in Block /\ m.ptr # NULL /\ m.ptr \in HeldBlocks
  BY HeldFacts
<1>4. (r.ptr = NULL /\ r.heap = heap) \/ Moved(heap, m.ptr, r.heap, r.ptr, n)
  BY <1>3, Realloc
<1>5. CASE r.ptr = NULL
  <2>1. UNCHANGED <<memVars, bufferVars>>
    BY <1>1, <1>2, <1>4, <1>5, BlockIsNumber DEF Moved, memVars, bufferVars
  <2> QED
    BY <2>1, NothingHappens
<1>6. CASE r.ptr # NULL
  <2>1. PICK q : q = r.ptr
    OBVIOUS
  <2> DEFINE new == [m EXCEPT !.ptr = q, !.at = q, !.size = n]
  <2>2. Moved(heap, m.ptr, r.heap, q, n)
    BY <1>4, <1>6, <2>1
  <2>3. /\ Owns(r.heap, (HeldBlocks \ {m.ptr}) \cup {q}, lost, buffer, detached)
        /\ Unchanged(heap, r.heap, {m.ptr}) /\ r.heap \in Heap
        /\ q \notin HeldBlocks \ {m.ptr} /\ Len(r.heap[q]) = n /\ q \in Block
        /\ m.ptr # buffer.data
    <3>1. r.heap \in Heap
      BY <2>2 DEF Moved
    <3>2. PICK g, p, H : g = r.heap /\ p = m.ptr /\ H = HeldBlocks
      OBVIOUS
    <3>3. Owns(heap, H, lost, buffer, detached) /\ Moved(heap, p, g, q, n) /\ p \in H
      BY <1>3, <2>2, <3>2
    <3>4. Owns(g, (H \ {p}) \cup {q}, lost, buffer, detached)
      BY <3>3, OwnsMoved
    <3>5. Unchanged(heap, g, {p})
      BY <3>3, OwnsMoved
    <3>6. q \notin H \ {p}
      BY <3>3, OwnsMoved
    <3>7. Len(g[q]) = n
      BY <3>3 DEF Moved
    <3>8. q \in Block /\ p # buffer.data
      BY <3>3, OwnsMoved, ZenonT(40)
    <3> QED
      BY <3>1, <3>2, <3>4, <3>5, <3>6, <3>7, <3>8
  <2>4. q \in Nat /\ new \in HeldType /\ new.ptr = q /\ new.at = q /\ new.size = n
        /\ new.alignment = 1
    BY <1>2, <1>3, <2>3, BlockIsNumber DEF HeldType
  <2>5. held' = (held \ {m}) \cup {new}
    BY <1>1, <1>6, <2>1
  <2> HIDE DEF new
  <2>6. HeldBlocks' = (HeldBlocks \ {m.ptr}) \cup {q}
    BY <1>3, <2>4, <2>5, HeldFacts DEF HeldBlocks
  <2>7. \A x, y \in held' : x.ptr = y.ptr => x = y
    <3>1. \A x \in held \ {m} : x.ptr \in HeldBlocks \ {m.ptr}
      BY HeldFacts
    <3> QED
      BY <2>3, <2>4, <2>5, <3>1, HeldFacts
  <2>8. Right(new, r.heap)
    BY <2>3, <2>4 DEF Right, Ymem_isaligned, PointerOffset
  <2>9. ASSUME NEW x \in held, x # m PROVE Right(x, r.heap)
    <3>1. x \in HeldType /\ Right(x, heap) /\ heap[x.ptr] # <<>> /\ x.ptr \notin {m.ptr}
      BY <1>3, <2>9, HeldFacts
    <3> QED
      BY <2>3, <3>1, RightFrame
  <2>10. \A x \in held' : Right(x, heap')
    BY <1>1, <2>5, <2>8, <2>9
  <2>11. held' \subseteq HeldType /\ lost' \subseteq Block
    BY <1>2, <1>3, <2>4, <2>5, BufferType
  <2>12. /\ heap' \in Heap /\ Owns(heap', HeldBlocks', lost', buffer, detached)
         /\ Unchanged(heap, heap', {m.ptr}) /\ {m.ptr} \subseteq HeldBlocks
    BY <1>1, <1>2, <1>3, <2>3, <2>6
  <2> QED
    BY <1>2, <2>7, <2>10, <2>11, <2>12, CallerStep
<1> QED
  BY <1>5, <1>6

LEMMA GiveBackStep ==
  ASSUME MInv, UNCHANGED bufferVars, NEW m \in held, GiveBack(m)
  PROVE  MInv' /\ OthersKept
<1>1. /\ heap' = Ymem_free(heap, m.ptr) /\ held' = held \ {m} /\ lost' = lost
      /\ UNCHANGED <<buffer, text, detached>>
  BY DEF GiveBack, bufferVars
<1>2. /\ heap \in Heap /\ held \subseteq HeldType
      /\ Owns(heap, HeldBlocks, lost, buffer, detached)
      /\ m.ptr \in Block /\ m.ptr # NULL /\ m.ptr \in HeldBlocks
  BY HeldFacts
<1>3. /\ heap' \in Heap /\ heap'[m.ptr] = <<>>
      /\ \A x \in Block : x # m.ptr => heap'[x] = heap[x]
  BY <1>1, <1>2, FreeBlock
<1>4. HeldBlocks' = HeldBlocks \ {m.ptr}
  BY <1>1, HeldFacts DEF HeldBlocks
<1>5. Owns(heap', HeldBlocks \ {m.ptr}, lost, buffer, detached)
  BY <1>2, <1>3 DEF Owns
<1>6. Unchanged(heap, heap', {m.ptr}) /\ {m.ptr} \subseteq HeldBlocks
  BY <1>2, <1>3 DEF Unchanged, Owns
<1>7. \A x, y \in held' : x.ptr = y.ptr => x = y
  BY <1>1, HeldFacts
<1>8. ASSUME NEW x \in held, x # m PROVE Right(x, heap')
  <2>1. x \in HeldType /\ Right(x, heap) /\ heap[x.ptr] # <<>> /\ x.ptr \notin {m.ptr}
    BY <1>2, <1>8, HeldFacts
  <2> QED
    BY <1>6, <2>1, RightFrame
<1>9. \A x \in held' : Right(x, heap')
  BY <1>1, <1>8
<1>10. held' \subseteq HeldType /\ lost' \subseteq Block
  BY <1>1, <1>2, BufferType
<1>11. Owns(heap', HeldBlocks', lost', buffer, detached)
  BY <1>1, <1>4, <1>5
<1> QED
  BY <1>1, <1>3, <1>6, <1>7, <1>9, <1>10, <1>11, CallerStep

LEMMA YmemStep ==
  ASSUME MInv, UNCHANGED bufferVars, YmemNext
  PROVE  MInv' /\ OthersKept
<1>1. /\ Sizes \subseteq Nat /\ Counts \subseteq Nat \ {0} /\ Alignments \subseteq Nat \ {0}
      /\ \A n \in Sizes, a \in Alignments : n + a < SizeMod
      /\ Texts \subseteq Seq(1..255)
  BY YmemAssumption
<1>2. heap \in Heap
  BY HeldFacts
<1>3. ASSUME NEW n \in Sizes, Allocate(n) PROVE MInv' /\ OthersKept
  <2>1. PICK r \in Ymem_malloc(heap, n) : Hold(r, r.ptr, n, 1) /\ UNCHANGED lost
    BY <1>3 DEF Allocate
  <2>2. n \in Nat
    BY <1>1
  <2>3. (r.ptr = NULL /\ r.heap = heap) \/ Moved(heap, NULL, r.heap, r.ptr, n)
    BY <1>2, <2>2, Malloc
  <2> QED
    BY <2>1, <2>2, <2>3, AllocateStep
<1>4. ASSUME NEW n \in Sizes, NEW k \in Counts, AllocateMembers(k, n) PROVE MInv' /\ OthersKept
  <2>1. PICK r \in Ymem_calloc(heap, k, n) : Hold(r, r.ptr, k * n, 1) /\ UNCHANGED lost
    BY <1>4 DEF AllocateMembers
  <2>2. n \in Nat /\ k \in Nat \ {0} /\ k * n \in Nat
    BY <1>1
  <2>3. (r.ptr = NULL /\ r.heap = heap) \/ Moved(heap, NULL, r.heap, r.ptr, k * n)
    BY <1>2, <2>2, Calloc
  <2> QED
    BY <2>1, <2>2, <2>3, AllocateStep
<1>5. ASSUME NEW n \in Sizes, NEW a \in Alignments, AllocateAligned(a, n) PROVE MInv' /\ OthersKept
  <2>1. n \in Nat /\ a \in Nat \ {0} /\ n + a < SizeMod
    BY <1>1
  <2> QED
    BY <1>5, <2>1, AllocateAlignedStep
<1>6. ASSUME NEW s \in Texts, AllocateString(s) PROVE MInv' /\ OthersKept
  <2>1. PICK r \in Ymem_strdup(heap, s) : Hold(r, r.ptr, Len(s) + 1, 1) /\ UNCHANGED lost
    BY <1>6 DEF AllocateString
  <2>2. s \in Seq(1..255)
    BY <1>1
  <2>3. Len(s) + 1 \in Nat
    BY <2>2, SeqLength
  <2>4. (r.ptr = NULL /\ r.heap = heap) \/ Moved(heap, NULL, r.heap, r.ptr, Len(s) + 1)
    BY <1>2, <2>2, Strdup
  <2> QED
    BY <2>1, <2>3, <2>4, AllocateStep
<1>7. ASSUME NEW m \in held, GiveBack(m) PROVE MInv' /\ OthersKept
  BY <1>7, GiveBackStep
<1>8. ASSUME NEW m \in held, NEW n \in Sizes, Resize(m, n) PROVE MInv' /\ OthersKept
  <2>1. n \in Nat
    BY <1>1
  <2> QED
    BY <1>8, <2>1, ResizeStep
<1> QED
  BY <1>3, <1>4, <1>5, <1>6, <1>7, <1>8 DEF YmemNext

-----------------------------------------------------------------------------
(* The callers of Ybuffer, of which Ybase64_encode is one *)

LEMMA Untouched ==
  ASSUME NEW h, NEW H, NEW L, NEW b, NEW d, NEW g, NEW S,
         Owns(h, H, L, b, d), Unchanged(h, g, S), S \subseteq {b.self, b.data, d}
  PROVE  \A p \in H : g[p] = h[p]
BY BlockIsNumber DEF Owns, Unchanged

LEMMA BufferStep ==
  ASSUME MInv, UNCHANGED <<held, lost>>, heap' \in Heap, detached' \in Block \cup {NULL},
         text' \in Code, Owns(heap', HeldBlocks, lost, buffer', detached'),
         \A p \in HeldBlocks : heap'[p] = heap[p],
         buffer' # NoBuffer => detached' = NULL /\ Holds(buffer', heap', text')
  PROVE  MInv'
<1>1. MemType'
  BY DEF MInv, MemType
<1>2. HeldBlocks' = HeldBlocks
  BY DEF HeldBlocks
<1>3. Owned'
  BY <1>2 DEF Owned
<1>4. HeldOnce'
  BY DEF MInv, HeldOnce
<1>5. HoldsWhatWasAsked'
  BY HeldFacts DEF Right, HoldsWhatWasAsked
<1> QED
  BY <1>1, <1>3, <1>4, <1>5 DEF MInv

LEMMA FreshStep ==
  ASSUME MInv, UNCHANGED <<held, lost, detached>>, buffer = NoBuffer, detached = NULL,
         NEW n \in Int, NEW o \in InitOutcomes(heap, n),
         buffer' = o.b, heap' = o.h, text' = <<>>
  PROVE  MInv'
<1>1. /\ heap \in Heap /\ Owns(heap, HeldBlocks, lost, buffer, detached)
      /\ buffer.self = NULL /\ buffer.data = NULL
  BY HeldFacts, BufferType
<1>2. <<>> \in Code
  BY EmptySeq DEF Code
<1>3. CASE o.b = NoBuffer /\ o.h = heap
  <2>1. Owns(heap', HeldBlocks, lost, buffer', detached')
    BY <1>1, <1>3
  <2> QED
    BY <1>1, <1>2, <1>3, <2>1, BufferStep DEF MInv, MemType
<1>4. CASE /\ Holds(o.b, o.h, <<>>) /\ InMemory(o.b, o.h)
           /\ heap[o.b.self] = <<>> /\ o.h[o.b.self] # <<>>
           /\ o.b.data # NULL => o.b.data # o.b.self /\ heap[o.b.data] = <<>>
           /\ \A p \in Block : p \notin {o.b.self, o.b.data} => o.h[p] = heap[p]
  <2>1. o.b.self \in Block /\ o.b.data \in Block \cup {NULL} /\ NULL \notin Block /\ o.h \in Heap
    BY <1>4, RecordFields, BlockIsNumber DEF Holds, Filled, InMemory
  <2>2. o.b.data # NULL => o.h[o.b.data] # <<>>
    BY <1>4 DEF InMemory
  <2>3. Owns(o.h, HeldBlocks, lost, o.b, NULL)
    BY <1>1, <1>4, <2>1, <2>2 DEF Owns
  <2>4. \A p \in HeldBlocks : o.h[p] = heap[p]
    BY <1>1, <1>4, <2>1 DEF Owns
  <2>5. Holds(buffer', heap', text')
    BY <1>4
  <2>6. Owns(heap', HeldBlocks, lost, buffer', detached')
    BY <2>3
  <2> QED
    BY <1>2, <2>1, <2>4, <2>5, <2>6, BufferStep
<1> QED
  BY <1>1, <1>3, <1>4, FreshBuffer

LEMMA AppendStep ==
  ASSUME MInv, UNCHANGED <<held, lost, detached>>, buffer # NoBuffer, NEW s \in Code,
         NEW o, Appends(buffer, heap, text, s, o.b, o.h),
         buffer' = o.b, heap' = o.h, text' = IF o.b.status = "ok" THEN text \o s ELSE text
  PROVE  MInv'
<1>1. /\ heap \in Heap /\ Owns(heap, HeldBlocks, lost, buffer, detached)
      /\ buffer \in BufferRecord /\ detached = NULL /\ text \in Code
  BY HeldFacts, BufferType DEF MInv, MemType
<1>2. Turned(buffer, heap, o.b, o.h) /\ Holds(o.b, o.h, text')
  BY DEF Appends
<1>3. Owns(o.h, HeldBlocks, lost, o.b, detached)
  BY <1>1, <1>2, OwnsTurned
<1>4. Unchanged(heap, o.h, {buffer.data})
  BY <1>1, <1>2, OwnsTurned
<1>5. \A p \in HeldBlocks : o.h[p] = heap[p]
  BY <1>1, <1>4, Untouched
<1>6. text' \in Code
  <2>1. text \o s \in Code
    BY <1>1, ConcatProperties DEF Code
  <2> QED
    BY <1>1, <2>1
<1>7. o.h \in Heap
  BY <1>2 DEF Turned
<1>8. Owns(heap', HeldBlocks, lost, buffer', detached') /\ Holds(buffer', heap', text')
  BY <1>2, <1>3
<1> QED
  BY <1>1, <1>5, <1>6, <1>7, <1>8, BufferStep

\* The struct of a buffer is freed, and its data becomes the caller's.
LEMMA OwnsDetached ==
  ASSUME NEW h \in Heap, NEW H, NEW L, NEW b \in BufferRecord, Owns(h, H, L, b, NULL),
         NEW g, g = Ymem_free(h, b.self)
  PROVE  /\ g \in Heap /\ Owns(g, H, L, NoBuffer, b.data)
         /\ \A p \in H : g[p] = h[p]
         /\ b.data # NULL => g[b.data] = h[b.data]
<1>1. b.self \in Block /\ b.self # NULL /\ b.data \in Block \cup {NULL} /\ NULL \notin Block
  BY RecordFields, BlockIsNumber
<1>2. /\ g \in Heap /\ g[b.self] = <<>>
      /\ \A x \in Block : x # b.self => g[x] = h[x]
  BY <1>1, FreeBlock
<1>3. NoBuffer.self = NULL /\ NoBuffer.data = NULL
  BY DEF NoBuffer
<1>4. \A p \in H \cup {b.data} : p # b.self
  BY <1>1 DEF Owns
<1>5. Owns(g, H, L, NoBuffer, b.data)
  BY <1>1, <1>2, <1>3 DEF Owns
<1>6. \A p \in H : g[p] = h[p]
  BY <1>2, <1>4 DEF Owns
<1> QED
  BY <1>1, <1>2, <1>4, <1>5, <1>6

LEMMA DetachStep ==
  ASSUME MInv, Ybuffer_detach
  PROVE  MInv'
<1>1. /\ heap \in Heap /\ buffer \in BufferRecord /\ detached = NULL
      /\ Owns(heap, HeldBlocks, lost, buffer, NULL) /\ text \in Code
      /\ buffer.data \in Block \cup {NULL}
  BY HeldFacts, BufferType DEF MInv, MemType, Ybuffer_detach
<1>2. PICK g : g = Ymem_free(heap, buffer.self)
  OBVIOUS
<1>3. /\ g \in Heap /\ Owns(g, HeldBlocks, lost, NoBuffer, buffer.data)
      /\ \A p \in HeldBlocks : g[p] = heap[p]
  BY <1>1, <1>2, OwnsDetached
<1>4. /\ heap' = g /\ buffer' = NoBuffer /\ detached' = buffer.data
      /\ UNCHANGED <<held, lost, text>>
  BY <1>2 DEF Ybuffer_detach
<1> QED
  BY <1>1, <1>3, <1>4, BufferStep

LEMMA FiniStep ==
  ASSUME MInv, Ybuffer_fini
  PROVE  MInv'
<1>1. /\ heap \in Heap /\ buffer \in BufferRecord /\ detached = NULL
      /\ Owns(heap, HeldBlocks, lost, buffer, NULL) /\ text \in Code
      /\ buffer.data \in Block \cup {NULL}
  BY HeldFacts, BufferType DEF MInv, MemType, Ybuffer_fini
<1>2. PICK g : g = Ymem_free(heap, buffer.self)
  OBVIOUS
<1>3. /\ g \in Heap /\ Owns(g, HeldBlocks, lost, NoBuffer, buffer.data)
      /\ \A p \in HeldBlocks : g[p] = heap[p]
  BY <1>1, <1>2, OwnsDetached
<1>4. PICK f : f = Ymem_free(g, buffer.data)
  OBVIOUS
<1>5. /\ f \in Heap /\ (buffer.data # NULL => f[buffer.data] = <<>>)
      /\ \A x \in Block : x # buffer.data => f[x] = g[x]
  BY <1>1, <1>3, <1>4, FreeBlock
<1>6. NoBuffer.self = NULL /\ NoBuffer.data = NULL /\ NULL \notin Block
  BY BlockIsNumber DEF NoBuffer
<1>7. Owns(f, HeldBlocks, lost, NoBuffer, NULL)
  BY <1>1, <1>3, <1>5, <1>6 DEF Owns
<1>8. \A p \in HeldBlocks : f[p] = heap[p]
  BY <1>3, <1>5 DEF Owns
<1>9. /\ heap' = f /\ buffer' = NoBuffer /\ detached' = NULL
      /\ UNCHANGED <<held, lost, text>>
  BY <1>1, <1>2, <1>4 DEF Ybuffer_fini
<1> QED
  BY <1>1, <1>5, <1>7, <1>8, <1>9, BufferStep

LEMMA FreeDetachedStep ==
  ASSUME MInv, FreeDetached
  PROVE  MInv' /\ buffer = NoBuffer /\ detached' = NULL
<1>1. /\ heap \in Heap /\ buffer = NoBuffer /\ detached \in Block
      /\ Owns(heap, HeldBlocks, lost, NoBuffer, detached) /\ text \in Code
  BY HeldFacts DEF MInv, MemType, FreeDetached
<1>2. PICK f : f = Ymem_free(heap, detached)
  OBVIOUS
<1>3. /\ f \in Heap /\ (detached # NULL => f[detached] = <<>>)
      /\ \A x \in Block : x # detached => f[x] = heap[x]
  BY <1>1, <1>2, FreeBlock
<1>4. NoBuffer.self = NULL /\ NoBuffer.data = NULL /\ NULL \notin Block
  BY BlockIsNumber DEF NoBuffer
<1>5. Owns(f, HeldBlocks, lost, NoBuffer, NULL)
  BY <1>1, <1>3, <1>4 DEF Owns
<1>6. \A p \in HeldBlocks : f[p] = heap[p]
  BY <1>1, <1>3 DEF Owns
<1>7. /\ heap' = f /\ buffer' = NoBuffer /\ detached' = NULL
      /\ UNCHANGED <<held, lost, text>>
  BY <1>1, <1>2 DEF FreeDetached
<1> QED
  BY <1>1, <1>3, <1>5, <1>6, <1>7, BufferStep

LEMMA TextType ==
  \A s \in Texts : s \in Code
<1>1. \A s \in Texts : s \in Seq(1..255)
  BY YmemAssumption
<1> QED
  BY <1>1, SeqMonotonic DEF Code

LEMMA YbufferStep ==
  ASSUME MInv, YbufferNext
  PROVE  MInv'
<1>1. ASSUME NEW n \in InitialLengths, Ybuffer_init(n) PROVE MInv'
  <2>1. n \in Int
    BY IncrementType
  <2>2. PICK o \in InitOutcomes(heap, n) : buffer' = o.b /\ heap' = o.h
    BY <1>1 DEF Ybuffer_init
  <2>3. /\ buffer = NoBuffer /\ detached = NULL /\ text' = <<>>
        /\ UNCHANGED <<held, lost, detached>>
    BY <1>1 DEF Ybuffer_init
  <2> QED
    BY <2>1, <2>2, <2>3, FreshStep
<1>2. ASSUME NEW s \in Code, NEW outcomes, Becomes(outcomes, s), buffer # NoBuffer,
             \A o \in outcomes : Appends(buffer, heap, text, s, o.b, o.h)
      PROVE  MInv'
  <2>1. PICK o \in outcomes : /\ buffer' = o.b /\ heap' = o.h
                              /\ text' = IF o.b.status = "ok" THEN text \o s ELSE text
    BY <1>2 DEF Becomes
  <2>2. UNCHANGED <<held, lost, detached>> /\ Appends(buffer, heap, text, s, o.b, o.h)
    BY <1>2 DEF Becomes
  <2> QED
    BY <1>2, <2>1, <2>2, AppendStep
<1>3. ASSUME buffer # NoBuffer
      PROVE  Holds(buffer, heap, text) /\ InMemory(buffer, heap) /\ text \in Code
  BY <1>3, BufferType DEF MInv, MemType
<1>4. ASSUME NEW s \in Texts, Ybuffer_append(s) PROVE MInv'
  <2>1. s \in Code
    BY TextType
  <2>2. buffer # NoBuffer /\ Becomes(AppendBytes(buffer, heap, s) \cup AppendString(buffer, heap, s), s)
    BY <1>4 DEF Ybuffer_append, HasRoom
  <2>3. \A o \in AppendBytes(buffer, heap, s) : Appends(buffer, heap, text, s, o.b, o.h)
    BY <1>3, <2>1, <2>2, AppendBytesEffect
  <2>4. \A o \in AppendString(buffer, heap, s) : Appends(buffer, heap, text, s, o.b, o.h)
    BY <1>3, <2>1, <2>2, AppendStringEffect
  <2> QED
    BY <1>2, <2>1, <2>2, <2>3, <2>4
<1>5. ASSUME NEW s \in Texts, Ybuffer_append_format(s) PROVE MInv'
  <2>1. s \in Code
    BY TextType
  <2>2. buffer # NoBuffer /\ Becomes(AppendFormat(buffer, heap, s), s)
    BY <1>5 DEF Ybuffer_append_format, HasRoom
  <2>3. \A o \in AppendFormat(buffer, heap, s) : Appends(buffer, heap, text, s, o.b, o.h)
    BY <1>3, <2>1, <2>2, AppendFormatEffect
  <2> QED
    BY <1>2, <2>1, <2>2, <2>3
<1>6. ASSUME NEW n \in Values, Ybuffer_append_integer(n) PROVE MInv'
  <2>1. Decimal(n) \in Code
    <3>1. n \in Int
      BY YbufferAssumption, SMT
    <3> QED
      BY <3>1, DecimalType
  <2>2. buffer # NoBuffer /\ Becomes(AppendBytes(buffer, heap, Decimal(n)), Decimal(n))
    BY <1>6 DEF Ybuffer_append_integer, HasRoom
  <2>3. \A o \in AppendBytes(buffer, heap, Decimal(n)) :
          Appends(buffer, heap, text, Decimal(n), o.b, o.h)
    BY <1>3, <2>1, <2>2, AppendBytesEffect
  <2> QED
    BY <1>2, <2>1, <2>2, <2>3
<1> QED
  BY <1>1, <1>4, <1>5, <1>6, DetachStep, FiniStep DEF YbufferNext

-----------------------------------------------------------------------------
(* Ybase64_encode *)

LEMMA StartsMore ==
  ASSUME NEW t \in Code, NEW s \in Code, NEW c \in Code, NEW x \in Nat, NEW y \in Nat,
         x <= y, y <= Len(c), Starts(t, c), Len(t) = x, Adds(c, x, y, <<>>, s)
  PROVE  t \o s \in Code /\ Len(t \o s) = y /\ Starts(t \o s, c)
<1>1. Len(<<>>) = 0 /\ Len(c) \in Nat
  BY EmptySeq, SeqLength DEF Code
<1>2. Len(s) = y - x /\ \A i \in 1..(y - x) : s[i] = c[x + i]
  BY <1>1 DEF Adds
<1>3. /\ t \o s \in Code /\ Len(t \o s) = y
      /\ \A i \in 1..y : (t \o s)[i] = IF i <= x THEN t[i] ELSE s[i - x]
  BY <1>2, ConcatProperties DEF Code
<1>4. \A i \in 1..x : t[i] = c[i]
  BY DEF Starts
<1>5. ASSUME NEW i \in 1..y PROVE (t \o s)[i] = c[i]
  <2>1. CASE i <= x
    BY <1>3, <1>4, <2>1
  <2>2. CASE ~ (i <= x)
    <3>1. PICK j \in 1..(y - x) : i - x = j /\ x + j = i
      BY <2>2
    <3> QED
      BY <1>2, <1>3, <2>2, <3>1
  <2> QED
    BY <2>1, <2>2
<1> QED
  BY <1>3, <1>5 DEF Starts

LEMMA StartsAll ==
  ASSUME NEW t \in Code, NEW c \in Code, Starts(t, c), Len(t) = Len(c)
  PROVE  t = c
BY SeqEqual DEF Code, Starts

\* The string in the buffer, when text has been appended.
LEMMA StringGrows ==
  ASSUME NEW b \in BufferRecord, NEW h, NEW c, NEW g, NEW t \in Code, NEW s \in Code,
         Appends(b, h, t, s, c, g), Cleanly(b, h, s, c, g),
         b.data # NULL, StringAt(h, b.data, t),
         NEW u, u = IF c.status = "ok" THEN t \o s ELSE t
  PROVE  /\ u \in Code /\ c \in BufferRecord /\ c.data # NULL /\ StringAt(g, c.data, u)
         /\ c.status = "ok" => b.status = "ok"
<1>1. c \in BufferRecord /\ c.status \in {"ok", "error"} /\ c.data # NULL
  BY RecordFields DEF Appends, Turned
<1>2. t \o s \in Code /\ (s = <<>> => t \o s = t)
  BY ConcatProperties DEF Code
<1>3. c.status = "ok" => b.status = "ok"
  BY DEF Appends
<1>4. u \in Code
  BY <1>2
<1>5. CASE c.status = "ok" /\ s # <<>>
  <2>1. Holds(c, g, u) /\ u = t \o s
    BY <1>5 DEF Appends
  <2>2. u # <<>>
    <3>1. Len(t) \in Nat /\ Len(s) \in Nat \ {0} /\ Len(u) = Len(t) + Len(s)
      BY <1>5, <2>1, SeqLength, ConcatProperties DEF Code
    <3> QED
      BY <1>4, <3>1, SeqLength DEF Code
  <2>3. /\ Len(g[c.data]) = c.datalen /\ c.pos = Len(u) /\ c.pos < c.datalen
        /\ g[c.data][c.pos + 1] = NUL
        /\ \A i \in 1..Len(u) : g[c.data][i] = u[i]
    BY <1>1, <1>5, <2>1, <2>2 DEF Holds, Filled
  <2>4. StringAt(g, c.data, u)
    BY <2>2, <2>3 DEF StringAt
  <2> QED
    BY <1>1, <1>3, <1>4, <2>4
<1>6. CASE c.status = "error" \/ s = <<>>
  <2>1. g = h /\ c.data = b.data
    BY <1>6 DEF Cleanly
  <2>2. u = t
    BY <1>2, <1>6
  <2> QED
    BY <1>1, <1>3, <1>4, <2>1, <2>2
<1> QED
  BY <1>1, <1>5, <1>6

\* While the encoder runs.
LEMMA EncodesFacts ==
  ASSUME MInv, EInv, encoding.pc # "idle"
  PROVE  /\ buffer # NoBuffer /\ buffer \in BufferRecord /\ detached = NULL
         /\ Holds(buffer, heap, text) /\ InMemory(buffer, heap)
         /\ text \in Code /\ message \in Code /\ buffer.data # NULL
         /\ StringAt(heap, buffer.data, text) /\ Starts(text, Base64(message))
         /\ Encodes /\ EncodingType
<1>1. Encodes /\ EncodingType /\ message \in Code
  BY DEF EInv, EncodingType
<1>2. buffer # NoBuffer
  BY <1>1 DEF Encodes
<1>3. buffer \in BufferRecord /\ InMemory(buffer, heap)
  BY <1>2, BufferType
<1>4. detached = NULL /\ Holds(buffer, heap, text) /\ text \in Code
  BY <1>2 DEF MInv, MemType
<1> QED
  BY <1>1, <1>2, <1>3, <1>4 DEF Encodes

\* The invariant, while the encoder runs, part by part.
LEMMA EncodesOn ==
  ASSUME EncodingType', encoding'.pc # "idle", Encodes'
  PROVE  EInv'
<1>1. buffer' # NoBuffer
  BY DEF Encodes
<1> QED
  BY <1>1 DEF EInv, Encoded

\* The states of the encoder and of the loop around it.
EncoderAtRest == [step : {"A", "B", "C"}, result : 0..63, out : {<<>>}]
EncodingState == [pc : {"idle", "blocks", "end"}, state : EncoderAtRest, rest : Code]

LEMMA IdleType ==
  Idle \in EncodingState /\ Idle.pc = "idle" /\ EncodeStart \in EncoderAtRest
<1>1. EncodeStart \in EncoderAtRest
  BY DEF EncodeStart, EncoderAtRest
<1>2. <<>> \in Code
  BY EmptySeq DEF Code
<1> QED
  BY <1>1, <1>2 DEF Idle, EncodingState

LEMMA RestType ==
  ASSUME NEW e \in EncodingState
  PROVE  /\ e.pc \in {"idle", "blocks", "end"} /\ e.state \in Encoder /\ e.rest \in Code
         /\ Len(e.rest) \in Nat /\ (e.rest = <<>> <=> Len(e.rest) = 0)
<1>1. <<>> \in Code
  BY EmptySeq DEF Code
<1>2. \A s \in EncoderAtRest : s \in Encoder
  BY <1>1 DEF EncoderAtRest, Encoder
<1> QED
  BY <1>2, SeqLength DEF EncodingState, Code

LEMMA EncodingTyped ==
  ASSUME EncodingType
  PROVE  encoding \in EncodingState /\ message \in Code /\ complete \in BOOLEAN
BY DEF EncodingType, EncodingState, EncoderAtRest

LEMMA Base64Length ==
  ASSUME NEW m \in Code
  PROVE  /\ Base64(m) \in Code /\ Len(Base64(m)) \in Nat /\ Len(m) \in Nat
         /\ m # <<>> => Len(Base64(m)) > 0
         /\ \A k \in 0..Len(m) : Written(k) \in Nat /\ Written(k) <= Len(Base64(m))
<1>1. PICK n \in Nat : n = Len(m) /\ (m = <<>> <=> n = 0)
  BY SeqLength DEF Code
<1>2. Base64(m) \in Code /\ Len(Base64(m)) = 4 * ((n + 2) \div 3)
  BY <1>1, Base64Type
<1>3. \A k \in 0..n : k + k \div 3 \in Nat /\ k + k \div 3 <= 4 * ((n + 2) \div 3)
  <2>1. ASSUME NEW k \in 0..n PROVE k + k \div 3 \in Nat /\ k + k \div 3 <= 4 * ((n + 2) \div 3)
    <3>1. PICK a \in Nat, e \in Nat : a = k \div 3 /\ e = (n + 2) \div 3
      OBVIOUS
    <3>2. 3 * a <= k /\ n <= 3 * e /\ a <= e
      BY <3>1
    <3> QED
      BY <3>1, <3>2
  <2> QED
    BY <2>1
<1>4. n > 0 => 4 * ((n + 2) \div 3) > 0
  OBVIOUS
<1> QED
  BY <1>1, <1>2, <1>3, <1>4 DEF Written
LEMMA MessageType ==
  \A m \in Messages : m \in Code
BY Ybase64Assumption DEF Code

LEMMA EncodeStep ==
  ASSUME MInv, EInv, NEW m \in Code, Ybase64_encode(m)
  PROVE  MInv' /\ EInv'
<1>1. /\ encoding = Idle /\ buffer = NoBuffer /\ detached = NULL
      /\ text' = <<>> /\ complete' = FALSE /\ UNCHANGED <<held, lost, detached>>
  BY DEF Ybase64_encode
<1>2. PICK o \in InitOutcomes(heap, ResultLength) :
        /\ buffer' = o.b /\ heap' = o.h
        /\ encoding' = IF o.b = NoBuffer THEN Idle ELSE [Idle EXCEPT !.pc = "blocks", !.rest = m]
        /\ message' = IF o.b = NoBuffer THEN <<>> ELSE m
  BY DEF Ybase64_encode
<1>3. ResultLength \in Int /\ ResultLength > 0
  BY DEF ResultLength
<1>4. MInv'
  BY <1>1, <1>2, <1>3, FreshStep
<1>5. <<>> \in Code /\ heap \in Heap
  BY EmptySeq DEF Code, MInv, MemType
<1>6. CASE o.b = NoBuffer
  <2>1. encoding' = Idle /\ message' = <<>> /\ detached' = NULL
    BY <1>1, <1>2, <1>6
  <2>2. EncodingType'
    BY <1>1, <1>5, <2>1, IdleType DEF EncodingType, EncodingState, EncoderAtRest
  <2>3. encoding'.pc = "idle"
    BY <2>1, IdleType
  <2> QED
    BY <1>4, <2>1, <2>2, <2>3 DEF EInv, Encoded
<1>7. CASE o.b # NoBuffer
  <2>1. /\ o.b.data # NULL /\ StringAt(o.h, o.b.data, <<>>)
    BY <1>3, <1>5, <1>7, FreshBuffer
  <2>2. encoding' = [pc |-> "blocks", state |-> EncodeStart, rest |-> m] /\ message' = m
    BY <1>2, <1>7 DEF Idle
  <2>3. EncodingType'
    BY <1>1, <2>2, IdleType DEF EncodingType, EncoderAtRest
  <2>4. encoding'.pc = "blocks" /\ encoding'.state = EncodeStart /\ encoding'.rest = m
    BY <2>2
  <2>5. Len(m) \in Nat /\ Len(m) - Len(m) = 0 /\ \A i \in 1..Len(m) : 0 + i = i
    BY SeqLength DEF Code
  <2>6. EncoderAt(EncodeStart, m, 0)
    BY DEF EncoderAt, EncodeStart
  <2>7. Len(<<>>) = 0 /\ Written(0) = 0
    BY DEF Written
  <2>8. Starts(<<>>, Base64(m))
    BY <2>7, Base64Length DEF Starts
  <2>9. Encodes'
    BY <1>1, <1>2, <1>7, <2>1, <2>2, <2>4, <2>5, <2>6, <2>7, <2>8 DEF Encodes
  <2> QED
    BY <1>4, <2>3, <2>4, <2>9, EncodesOn
<1> QED
  BY <1>6, <1>7

\* What an append makes of the buffer and its text.
LEMMA Appended ==
  ASSUME MInv, EInv, encoding.pc # "idle", NEW s \in Code,
         NEW o \in AppendBytes(buffer, heap, s), buffer' = o.b, heap' = o.h,
         text' = IF o.b.status = "ok" THEN text \o s ELSE text,
         UNCHANGED <<held, lost, detached>>
  PROVE  /\ MInv' /\ text' \in Code
         /\ buffer' # NoBuffer /\ buffer'.data # NULL /\ StringAt(heap', buffer'.data, text')
         /\ buffer'.status = "ok" => buffer.status = "ok"
<1>1. /\ buffer \in BufferRecord /\ Holds(buffer, heap, text) /\ InMemory(buffer, heap)
      /\ text \in Code /\ buffer.data # NULL /\ StringAt(heap, buffer.data, text)
      /\ buffer # NoBuffer
  BY EncodesFacts
<1>2. Appends(buffer, heap, text, s, o.b, o.h) /\ Cleanly(buffer, heap, s, o.b, o.h)
  BY <1>1, AppendBytesEffect
<1>3. MInv'
  BY <1>1, <1>2, AppendStep
<1>4. /\ text' \in Code /\ o.b \in BufferRecord /\ o.b.data # NULL
      /\ StringAt(o.h, o.b.data, text')
      /\ o.b.status = "ok" => buffer.status = "ok"
  <2>1. PICK u : u = text' /\ u = IF o.b.status = "ok" THEN text \o s ELSE text
    OBVIOUS
  <2>2. /\ u \in Code /\ o.b \in BufferRecord /\ o.b.data # NULL
        /\ StringAt(o.h, o.b.data, u)
        /\ o.b.status = "ok" => buffer.status = "ok"
    <3>1. PICK h, c, g : h = heap /\ c = o.b /\ g = o.h
      OBVIOUS
    <3>2. PICK b \in BufferRecord, t \in Code :
            b = buffer /\ t = text /\ h = heap /\ c = o.b /\ g = o.h
      BY <1>1, <3>1
    <3>3. /\ Appends(b, h, t, s, c, g) /\ Cleanly(b, h, s, c, g)
          /\ b.data # NULL /\ StringAt(h, b.data, t)
          /\ u = IF c.status = "ok" THEN t \o s ELSE t
      BY <1>1, <1>2, <2>1, <3>2
    <3>4. /\ u \in Code /\ c \in BufferRecord /\ c.data # NULL
          /\ StringAt(g, c.data, u)
          /\ c.status = "ok" => b.status = "ok"
      BY <3>3, StringGrows, Zenon
    <3> QED
      BY <3>2, <3>4
  <2> QED
    BY <2>1, <2>2
<1>5. o.b # NoBuffer
  BY <1>4, RecordFields DEF NoBuffer
<1> QED
  BY <1>3, <1>4, <1>5

LEMMA Split ==
  ASSUME NEW t \in Code, NEW l \in Nat, l = Len(t), NEW n \in 0..l
  PROVE  /\ SubSeq(t, 1, n) \in Code /\ Len(SubSeq(t, 1, n)) = n
         /\ \A i \in 1..n : SubSeq(t, 1, n)[i] = t[i]
         /\ SubSeq(t, n + 1, l) \in Code /\ Len(SubSeq(t, n + 1, l)) = l - n
         /\ \A i \in 1..(l - n) : SubSeq(t, n + 1, l)[i] = t[n + i]
<1>1. t \in Seq(0..255) /\ n \in 0..Len(t)
  BY DEF Code
<1>2. /\ SubSeq(t, 1, n) \in Seq(0..255) /\ Len(SubSeq(t, 1, n)) = n
      /\ \A i \in 1..n : SubSeq(t, 1, n)[i] = t[i]
  BY <1>1, FirstPart, Zenon
<1>3. /\ SubSeq(t, n + 1, Len(t)) \in Seq(0..255) /\ Len(SubSeq(t, n + 1, Len(t))) = Len(t) - n
      /\ \A i \in 1..(Len(t) - n) : SubSeq(t, n + 1, Len(t))[i] = t[n + i]
  BY <1>1, LastPart, ZenonT(40)
<1> QED
  BY <1>2, <1>3 DEF Code

LEMMA SameEncoder ==
  ASSUME NEW r, NEW s, r.step = s.step, r.result = s.result,
         NEW m, NEW k \in Nat, EncoderAt(s, m, k)
  PROVE  EncoderAt(r, m, k)
BY DEF EncoderAt

\* A block of the message.
LEMMA EncodeBlockStep ==
  ASSUME MInv, EInv, EncodeBlock
  PROVE  MInv' /\ EInv'
<1>1. encoding.pc = "blocks" /\ encoding.pc # "idle" /\ encoding.rest # <<>>
  BY DEF EncodeBlock
<1>2. EncodingType /\ Encodes /\ encoding \in EncodingState /\ message \in Code
  BY <1>1, EncodesFacts, EncodingTyped
<1>3. PICK rest \in Code, s \in Encoder, l \in Nat \ {0} :
        rest = encoding.rest /\ s = encoding.state /\ l = Len(rest)
  BY <1>1, <1>2, RestType
<1>4. PICK e : e = Min({BlockLength, l})
  OBVIOUS
<1>5. e \in 1..l
  <2>1. BlockLength \in Nat \ {0}
    BY DEF BlockLength
  <2>2. \E x \in {BlockLength, l} : \A y \in {BlockLength, l} : x <= y
    BY <2>1
  <2>3. e \in {BlockLength, l} /\ \A y \in {BlockLength, l} : e <= y
    BY <1>4, <2>2 DEF Min
  <2> QED
    BY <2>1, <2>3
<1>6. PICK bytes \in Code : bytes = SubSeq(rest, 1, e) /\ Len(bytes) = e
                            /\ \A i \in 1..e : bytes[i] = rest[i]
  <2>1. e \in 0..l
    BY <1>5
  <2>2. /\ SubSeq(rest, 1, e) \in Code /\ Len(SubSeq(rest, 1, e)) = e
        /\ \A i \in 1..e : SubSeq(rest, 1, e)[i] = rest[i]
    BY <1>3, <2>1, Split
  <2> QED
    BY <2>2
<1>7. PICK tail \in Code : tail = SubSeq(rest, e + 1, l) /\ Len(tail) = l - e
                           /\ \A i \in 1..(l - e) : tail[i] = rest[e + i]
  <2>1. e \in 0..l
    BY <1>5
  <2>2. /\ SubSeq(rest, e + 1, l) \in Code /\ Len(SubSeq(rest, e + 1, l)) = l - e
        /\ \A i \in 1..(l - e) : SubSeq(rest, e + 1, l)[i] = rest[e + i]
    BY <1>3, <2>1, Split, ZenonT(40)
  <2> QED
    BY <2>2
<1>8. PICK state : state = base64_encode_block(s, bytes)
  OBVIOUS
<1>9. /\ Becomes(AppendBytes(buffer, heap, state.out), state.out)
      /\ encoding' = [encoding EXCEPT !.state = [state EXCEPT !.out = <<>>], !.rest = tail]
      /\ UNCHANGED <<message, complete>>
  BY <1>3, <1>4, <1>6, <1>7, <1>8 DEF EncodeBlock
<1>10. PICK n \in Nat, k \in Nat :
         /\ n = Len(message) /\ k = n - l /\ k + l = n
         /\ \A i \in 1..l : rest[i] = message[k + i]
         /\ EncoderAt(s, message, k)
  <2>1. Len(message) \in Nat
    BY <1>2, SeqLength DEF Code
  <2>2. /\ Len(message) - l >= 0
        /\ \A i \in 1..l : rest[i] = message[(Len(message) - l) + i]
        /\ EncoderAt(s, message, Len(message) - l)
    BY <1>2, <1>3 DEF Encodes
  <2> QED
    BY <2>1, <2>2
<1>11. /\ state \in Encoder /\ EncoderAt(state, message, k + e)
       /\ Puts(message, k, k + e, <<>>, state.out)
  <2>1. k \in 0..Len(message) /\ k + Len(bytes) <= Len(message)
    BY <1>5, <1>6, <1>10
  <2>2. \A i \in 1..Len(bytes) : bytes[i] = message[k + i]
    BY <1>5, <1>6, <1>10
  <2> QED
    BY <1>2, <1>6, <1>8, <1>10, <2>1, <2>2, EncodeBlockMakes, ZenonT(40)
<1>12. PICK out \in Code : out = state.out
  BY <1>11 DEF Encoder
<1>13. PICK o \in AppendBytes(buffer, heap, out) :
         /\ buffer' = o.b /\ heap' = o.h
         /\ text' = IF o.b.status = "ok" THEN text \o out ELSE text
         /\ UNCHANGED <<held, lost, detached>>
  BY <1>9, <1>12 DEF Becomes
<1>14. /\ MInv' /\ text' \in Code
       /\ buffer' # NoBuffer /\ buffer'.data # NULL /\ StringAt(heap', buffer'.data, text')
       /\ buffer'.status = "ok" => buffer.status = "ok"
  BY <1>1, <1>13, Appended
<1>15. /\ encoding'.pc = "blocks" /\ encoding'.rest = tail
       /\ encoding'.state = [step |-> state.step, result |-> state.result, out |-> <<>>]
       /\ encoding' \in EncodingState
  <2>1. PICK r : r = [state EXCEPT !.out = <<>>]
    OBVIOUS
  <2>2. r = [step |-> state.step, result |-> state.result, out |-> <<>>] /\ r \in EncoderAtRest
    BY <1>11, <2>1 DEF Encoder, EncoderAtRest
  <2>3. encoding' = [pc |-> "blocks", state |-> r, rest |-> tail]
    BY <1>1, <1>2, <1>9, <2>1 DEF EncodingState
  <2> QED
    BY <2>2, <2>3 DEF EncodingState
<1>16. EncodingType'
  BY <1>2, <1>9, <1>15 DEF EncodingType, EncodingState, EncoderAtRest
<1>17. EncoderAt(encoding'.state, message, k + e)
  <2>1. PICK r : r = encoding'.state /\ r.step = state.step /\ r.result = state.result
    BY <1>15
  <2>2. k + e \in Nat
    BY <1>5
  <2> QED
    BY <1>11, <2>1, <2>2, SameEncoder
<1>18. /\ Len(message) - Len(tail) = k + e /\ k + e >= 0
       /\ \A i \in 1..Len(tail) : tail[i] = message[(k + e) + i]
  <2>1. Len(message) - Len(tail) = k + e /\ k + e >= 0
    <3>1. Len(message) = k + l /\ Len(tail) = l - e
      BY <1>7, <1>10
    <3>2. (k + l) - (l - e) = k + e /\ k + e >= 0
      BY <1>5
    <3> QED
      BY <3>1, <3>2
  <2>2. ASSUME NEW i \in 1..(l - e) PROVE tail[i] = message[(k + e) + i]
    <3>1. e + i \in 1..l /\ k + (e + i) = (k + e) + i
      BY <1>5
    <3> QED
      BY <1>7, <1>10, <3>1
  <2> QED
    BY <1>7, <2>1, <2>2
<1>19. /\ Starts(text', Base64(message))
       /\ buffer'.status = "ok" => Len(text') = Written(k + e)
  <2>1. Starts(text, Base64(message)) /\ text \in Code
    BY <1>1, EncodesFacts
  <2>2. CASE o.b.status = "ok"
    <3>1. Len(text) = Written(k)
      BY <1>1, <1>2, <1>3, <1>10, <1>13, <1>14, <2>2 DEF Encodes
    <3>2. PICK x \in Nat, y \in Nat : x = Written(k) /\ y = Written(k + e) /\ x <= y
      <4>1. k + e \in Nat /\ k <= k + e
        BY <1>5
      <4> QED
        BY <4>1, WrittenGrows
    <3>3. y <= Len(Base64(message)) /\ Base64(message) \in Code
      <4>1. k + e \in 0..Len(message)
        BY <1>5, <1>10
      <4> QED
        BY <1>2, <3>2, <4>1, Base64Length
    <3>4. Adds(Base64(message), x, y, <<>>, out)
      BY <1>11, <1>12, <3>2 DEF Puts
    <3>5. Len(text \o out) = y /\ Starts(text \o out, Base64(message))
      BY <2>1, <3>1, <3>2, <3>3, <3>4, StartsMore
    <3> QED
      BY <1>13, <2>2, <3>2, <3>5
  <2>3. CASE o.b.status # "ok"
    BY <1>13, <2>1, <2>3
  <2> QED
    BY <2>2, <2>3
<1>20. Encodes'
  BY <1>9, <1>14, <1>15, <1>17, <1>18, <1>19 DEF Encodes
<1> QED
  BY <1>14, <1>15, <1>16, <1>20, EncodesOn
LEMMA EncodeEndStep ==
  ASSUME MInv, EInv, EncodeEnd
  PROVE  MInv' /\ EInv'
<1>1. encoding.pc = "blocks" /\ encoding.pc # "idle" /\ encoding.rest = <<>>
  BY DEF EncodeEnd
<1>2. EncodingType /\ Encodes /\ encoding \in EncodingState /\ message \in Code
  BY <1>1, EncodesFacts, EncodingTyped
<1>3. PICK s \in Encoder : s = encoding.state
  BY <1>2, RestType
<1>4. PICK codes : codes = base64_encode_blockend(s)
  OBVIOUS
<1>5. /\ Becomes(AppendBytes(buffer, heap, codes), codes)
      /\ encoding' = [encoding EXCEPT !.pc = "end"]
      /\ UNCHANGED <<message, complete>>
  BY <1>3, <1>4 DEF EncodeEnd
<1>6. PICK n \in Nat : n = Len(message) /\ EncoderAt(s, message, n)
  <2>1. Len(message) \in Nat /\ Len(<<>>) = 0
    BY <1>2, Base64Length
  <2>2. EncoderAt(s, message, Len(message) - Len(<<>>))
    BY <1>1, <1>2, <1>3 DEF Encodes
  <2>3. Len(message) - Len(<<>>) = Len(message)
    BY <2>1
  <2> QED
    BY <2>1, <2>2, <2>3, Zenon
<1>7. /\ codes \in Code /\ Len(codes) = Len(Base64(message)) - Written(n)
      /\ \A i \in 1..Len(codes) : codes[i] = Base64(message)[Written(n) + i]
  BY <1>2, <1>4, <1>6, EncodeEndMakes
<1>8. PICK o \in AppendBytes(buffer, heap, codes) :
        /\ buffer' = o.b /\ heap' = o.h
        /\ text' = IF o.b.status = "ok" THEN text \o codes ELSE text
        /\ UNCHANGED <<held, lost, detached>>
  BY <1>5 DEF Becomes
<1>9. /\ MInv' /\ text' \in Code
      /\ buffer' # NoBuffer /\ buffer'.data # NULL /\ StringAt(heap', buffer'.data, text')
      /\ buffer'.status = "ok" => buffer.status = "ok"
  BY <1>1, <1>7, <1>8, Appended
<1>10. /\ encoding'.pc = "end" /\ encoding'.rest = <<>> /\ encoding'.state = s
       /\ encoding' \in EncodingState
  BY <1>1, <1>2, <1>3, <1>5 DEF EncodingState
<1>11. EncodingType'
  BY <1>2, <1>5, <1>10 DEF EncodingType, EncodingState, EncoderAtRest
<1>12. /\ Starts(text', Base64(message))
       /\ buffer'.status = "ok" => text' = Base64(message)
  <2>1. Starts(text, Base64(message)) /\ text \in Code
    BY <1>1, EncodesFacts
  <2>2. CASE o.b.status = "ok"
    <3>1. Len(text) = Written(n)
      <4>1. Len(text) = Written(Len(message) - Len(<<>>))
        BY <1>1, <1>2, <1>8, <1>9, <2>2 DEF Encodes
      <4>2. Len(message) - Len(<<>>) = n
        BY <1>6
      <4> QED
        BY <4>1, <4>2
    <3>2. PICK x \in Nat, y \in Nat : x = Written(n) /\ y = Len(Base64(message)) /\ x <= y
      <4>1. n \in 0..Len(message)
        BY <1>6
      <4> QED
        BY <1>2, <4>1, Base64Length
    <3>3. Base64(message) \in Code
      BY <1>2, Base64Length
    <3>4. Adds(Base64(message), x, y, <<>>, codes)
      <4>1. Len(<<>>) = 0
        OBVIOUS
      <4>2. Len(codes) = y - x /\ \A i \in 1..(y - x) : codes[i] = Base64(message)[x + i]
        BY <1>7, <3>2
      <4>3. 0 + y - x = y - x /\ \A i \in 1..(y - x) : 0 + i = i
        OBVIOUS
      <4> QED
        BY <1>7, <4>1, <4>2, <4>3 DEF Adds
    <3>5. /\ text \o codes \in Code /\ Len(text \o codes) = y
          /\ Starts(text \o codes, Base64(message))
      BY <1>7, <2>1, <3>1, <3>2, <3>3, <3>4, StartsMore
    <3>6. text \o codes = Base64(message)
      BY <3>2, <3>3, <3>5, StartsAll
    <3> QED
      BY <1>8, <2>2, <3>5, <3>6
  <2>3. CASE o.b.status # "ok"
    BY <1>8, <2>1, <2>3
  <2> QED
    BY <2>2, <2>3
<1>13. /\ Len(message) - Len(<<>>) = n /\ n >= 0 /\ \A i \in 1..Len(<<>>) : FALSE
  BY <1>6
<1>14. encoding'.pc # "blocks"
  BY <1>10
<1>15. Encodes'
  BY <1>5, <1>6, <1>9, <1>10, <1>12, <1>13, <1>14 DEF Encodes
<1> QED
  BY <1>9, <1>10, <1>11, <1>15, EncodesOn

\* The NUL that is appended last is one behind the text, which has one already.
LEMMA StringEnds ==
  ASSUME NEW b \in BufferRecord, NEW h, NEW c, NEW g, NEW t \in Code, t # <<>>,
         Appends(b, h, t, <<NUL>>, c, g), c.status = "ok"
  PROVE  StringAt(g, c.data, t)
<1>1. PICK n \in Nat : n = Len(t)
  BY SeqLength DEF Code
<1>2. /\ <<NUL>> \in Code /\ Len(<<NUL>>) = 1 /\ <<NUL>>[1] = NUL
  BY DEF Code, NUL
<1>3. PICK u \in Code : u = t \o <<NUL>> /\ Len(u) = n + 1
                        /\ u[n + 1] = NUL /\ \A i \in 1..n : u[i] = t[i]
  <2>1. /\ t \o <<NUL>> \in Code /\ Len(t \o <<NUL>>) = n + 1
        /\ \A i \in 1..(n + 1) : (t \o <<NUL>>)[i] = IF i <= n THEN t[i] ELSE <<NUL>>[i - n]
    BY <1>1, <1>2, ConcatProperties DEF Code
  <2>2. (t \o <<NUL>>)[n + 1] = NUL
    <3>1. n + 1 \in 1..(n + 1) /\ ~ (n + 1 <= n) /\ (n + 1) - n = 1
      OBVIOUS
    <3> QED
      BY <1>2, <2>1, <3>1
  <2>3. \A i \in 1..n : (t \o <<NUL>>)[i] = t[i]
    BY <2>1
  <2> QED
    BY <2>1, <2>2, <2>3
<1>4. Holds(c, g, u) /\ u # <<>>
  <2>1. u # <<>>
    BY <1>3, SeqLength DEF Code
  <2> QED
    BY <1>3, <2>1 DEF Appends
<1>5. /\ c \in BufferRecord /\ c.pos = n + 1 /\ c.pos <= c.datalen
      /\ c.data = NULL => c.datalen = 0
      /\ c.data # NULL => Len(g[c.data]) = c.datalen
      /\ \A i \in 1..(n + 1) : g[c.data][i] = u[i]
  BY <1>3, <1>4 DEF Holds, Filled
<1>6. c.data # NULL /\ c.datalen \in Nat
  BY <1>5, RecordFields
<1>7. n < Len(g[c.data]) /\ g[c.data][n + 1] = NUL /\ \A i \in 1..n : g[c.data][i] = t[i]
  BY <1>3, <1>5, <1>6
<1> QED
  BY <1>1, <1>7 DEF StringAt

LEMMA EncodeReturnStep ==
  ASSUME MInv, EInv, EncodeReturn
  PROVE  MInv' /\ EInv'
<1>1. encoding.pc = "end" /\ encoding.pc # "idle"
  BY DEF EncodeReturn
<1>2. /\ buffer # NoBuffer /\ buffer \in BufferRecord /\ detached = NULL
      /\ Holds(buffer, heap, text) /\ InMemory(buffer, heap)
      /\ text \in Code /\ message \in Code /\ buffer.data # NULL
      /\ StringAt(heap, buffer.data, text) /\ Starts(text, Base64(message))
      /\ buffer.status = "ok" => text = Base64(message)
  BY <1>1, EncodesFacts DEF Encodes
<1>3. PICK o \in AppendBytes(buffer, heap, <<NUL>>) :
        /\ detached' = o.b.data
        /\ heap' = Ymem_free(o.h, o.b.self)
        /\ complete' = (o.b.status = "ok")
  BY DEF EncodeReturn
<1>4. buffer' = NoBuffer /\ encoding' = Idle /\ UNCHANGED <<held, lost, text, message>>
  BY DEF EncodeReturn
<1>5. <<NUL>> \in Code /\ <<NUL>> # <<>>
  BY DEF Code, NUL
<1>6. PICK c, g : c = o.b /\ g = o.h
  OBVIOUS
<1>7. Appends(buffer, heap, text, <<NUL>>, c, g) /\ Cleanly(buffer, heap, <<NUL>>, c, g)
  BY <1>2, <1>3, <1>5, <1>6, AppendBytesEffect
<1>8. Turned(buffer, heap, c, g)
  BY <1>7 DEF Appends
<1>9. c \in BufferRecord /\ g \in Heap /\ c.data # NULL /\ c.status \in {"ok", "error"}
      /\ c.data \in Block \cup {NULL}
  BY <1>2, <1>8, RecordFields DEF Turned
<1>10. heap \in Heap /\ Owns(heap, HeldBlocks, lost, buffer, NULL)
  BY <1>2, HeldFacts
<1>11. Owns(g, HeldBlocks, lost, c, NULL) /\ Unchanged(heap, g, {buffer.data})
  BY <1>2, <1>8, <1>10, OwnsTurned
<1>12. \A p \in HeldBlocks : g[p] = heap[p]
  BY <1>10, <1>11, Untouched
<1>13. PICK f : f = Ymem_free(g, c.self) /\ heap' = f
  BY <1>3, <1>6
<1>14. /\ f \in Heap /\ Owns(f, HeldBlocks, lost, NoBuffer, c.data)
       /\ \A p \in HeldBlocks : f[p] = g[p]
       /\ f[c.data] = g[c.data]
  BY <1>9, <1>11, <1>13, OwnsDetached
<1>15. MInv'
  <2>1. heap' \in Heap /\ detached' \in Block \cup {NULL} /\ text' \in Code
    BY <1>2, <1>3, <1>4, <1>6, <1>9, <1>13, <1>14
  <2>2. Owns(heap', HeldBlocks, lost, buffer', detached')
    BY <1>3, <1>4, <1>6, <1>13, <1>14
  <2>3. \A p \in HeldBlocks : heap'[p] = heap[p]
    BY <1>12, <1>13, <1>14
  <2> QED
    BY <1>4, <2>1, <2>2, <2>3, BufferStep
<1>16. complete' => text = Base64(message)
  BY <1>2, <1>3, <1>6, <1>7 DEF Appends
<1>17. message # <<>> => StringAt(f, c.data, text)
  <2>1. ASSUME message # <<>> PROVE StringAt(g, c.data, text)
    <3>1. CASE c.status = "ok"
      <4>1. text = Base64(message)
        BY <1>3, <1>6, <1>16, <3>1
      <4>2. text # <<>>
        BY <1>2, <2>1, <4>1, Base64Length, EmptySeq
      <4> QED
        BY <1>2, <1>7, <3>1, <4>2, StringEnds
    <3>2. CASE c.status = "error"
      BY <1>2, <1>7, <3>2 DEF Cleanly
    <3> QED
      BY <1>9, <3>1, <3>2
  <2> QED
    BY <1>14, <2>1 DEF StringAt
<1>18. EncodingType'
  <2>1. encoding' \in EncodingState /\ complete' \in BOOLEAN
    BY <1>3, <1>4, IdleType
  <2> QED
    BY <1>2, <1>4, <2>1 DEF EncodingType, EncodingState, EncoderAtRest
<1>19. encoding'.pc = "idle" /\ detached' # NULL /\ buffer' = NoBuffer
  BY <1>3, <1>4, <1>6, <1>9, IdleType
<1>20. Encoded' => Result'
  BY <1>2, <1>3, <1>4, <1>6, <1>13, <1>16, <1>17 DEF Encoded, Result
<1> QED
  BY <1>15, <1>18, <1>19, <1>20 DEF EInv
-----------------------------------------------------------------------------
(* The other steps, and the invariant of the encoder *)

LEMMA EncoderIdle ==
  ASSUME EInv, buffer = NoBuffer
  PROVE  encoding = Idle
<1>1. encoding.pc = "idle"
  BY DEF EInv, Encodes
<1> QED
  BY <1>1 DEF EInv, EncodingType

LEMMA FreeResultStep ==
  ASSUME MInv, EInv, FreeResult
  PROVE  MInv' /\ EInv'
<1>1. MInv' /\ buffer = NoBuffer /\ detached' = NULL
  BY FreeDetachedStep DEF FreeResult
<1>2. encoding = Idle
  BY <1>1, EncoderIdle
<1>3. message' = <<>> /\ complete' = FALSE /\ encoding' = Idle
  BY <1>2 DEF FreeResult
<1>4. encoding'.pc = "idle" /\ encoding' \in EncodingState /\ <<>> \in Code
  BY <1>3, IdleType, EmptySeq DEF Code
<1>5. EncodingType'
  BY <1>3, <1>4 DEF EncodingType, EncodingState, EncoderAtRest
<1> QED
  BY <1>1, <1>3, <1>4, <1>5 DEF EInv, Encoded

\* A caller of Ybuffer has a buffer, or nothing.
LEMMA BufferFree ==
  ASSUME YbufferNext
  PROVE  buffer # NoBuffer \/ detached = NULL
BY DEF YbufferNext, Ybuffer_init, Ybuffer_append, Ybuffer_append_format, Ybuffer_append_integer,
       HasRoom, Ybuffer_detach, Ybuffer_fini

LEMMA BufferCallStep ==
  ASSUME MInv, EInv, encoding = Idle, YbufferNext, UNCHANGED codecVars
  PROVE  MInv' /\ EInv'
<1>1. MInv' /\ (buffer # NoBuffer \/ detached = NULL)
  BY YbufferStep, BufferFree
<1>2. encoding.pc = "idle"
  BY IdleType
<1>3. message = <<>>
  BY <1>1, <1>2 DEF EInv
<1>4. encoding' = Idle /\ message' = <<>> /\ complete' = complete /\ encoding'.pc = "idle"
  BY <1>2, <1>3 DEF codecVars
<1>5. EncodingType'
  BY <1>3, <1>4 DEF EInv, EncodingType
<1> QED
  BY <1>1, <1>4, <1>5 DEF EInv, Encoded

LEMMA MemoryCallStep ==
  ASSUME MInv, EInv, encoding = Idle, YmemNext, UNCHANGED <<bufferVars, codecVars>>
  PROVE  MInv' /\ EInv'
<1>1. MInv' /\ OthersKept
  BY YmemStep
<1>2. encoding.pc = "idle"
  BY IdleType
<1>3. UNCHANGED <<buffer, text, detached, encoding, message, complete>>
  BY DEF bufferVars, codecVars
<1>4. EncodingType'
  BY <1>3 DEF EInv, EncodingType
<1>5. ASSUME Encoded PROVE Result'
  <2>1. Result /\ detached # NULL
    BY <1>5 DEF EInv, Encoded
  <2>2. detached \in Block /\ Owns(heap, HeldBlocks, lost, buffer, detached)
    BY <2>1, HeldFacts
  <2>3. heap[detached] # <<>> /\ detached \notin HeldBlocks
    BY <2>2 DEF Owns
  <2>4. heap'[detached] = heap[detached]
    BY <1>1, <2>2, <2>3 DEF OthersKept, Unchanged
  <2> QED
    BY <1>3, <2>1, <2>4 DEF Result, StringAt
<1>6. Encoded' => Encoded
  BY <1>3 DEF Encoded
<1> QED
  BY <1>1, <1>2, <1>3, <1>4, <1>5, <1>6 DEF EInv

LEMMA StillStep ==
  ASSUME MInv, EInv, UNCHANGED <<memVars, bufferVars, encoding, message, complete>>
  PROVE  MInv' /\ EInv'
<1>1. MInv'
  BY NothingHappens
<1>2. UNCHANGED <<heap, buffer, text, detached, encoding, message, complete>>
  BY DEF memVars, bufferVars
<1>3. EncodingType' /\ (encoding'.pc = "idle" /\ (buffer' # NoBuffer \/ detached' = NULL) => message' = <<>>)
  BY <1>2 DEF EInv, EncodingType
<1>4. encoding'.pc # "idle" => Encodes'
  BY <1>2 DEF EInv, Encodes
<1>5. Encoded' => Result'
  BY <1>2 DEF EInv, Encoded, Result
<1> QED
  BY <1>1, <1>3, <1>4, <1>5 DEF EInv

LEMMA MemoryAndEncoder ==
  ASSUME MInv, EInv, [Next]_vars
  PROVE  MInv' /\ EInv'
<1>1. ASSUME NEW m \in Messages, Ybase64_encode(m) PROVE MInv' /\ EInv'
  BY <1>1, MessageType, EncodeStep
<1>2. CASE EncodeBlock
  BY <1>2, EncodeBlockStep
<1>3. CASE EncodeEnd
  BY <1>3, EncodeEndStep
<1>4. CASE EncodeReturn
  BY <1>4, EncodeReturnStep
<1>5. CASE DecodeBegin
  BY <1>5, StillStep DEF DecodeBegin
<1>6. ASSUME NEW n \in CodeBlocks, DecodeSome(n) PROVE MInv' /\ EInv'
  BY <1>6, StillStep DEF DecodeSome
<1>7. CASE FreeResult
  BY <1>7, FreeResultStep
<1>8. CASE encoding = Idle /\ YbufferNext /\ UNCHANGED codecVars
  BY <1>8, BufferCallStep
<1>9. CASE encoding = Idle /\ YmemNext /\ UNCHANGED <<bufferVars, codecVars>>
  BY <1>9, MemoryCallStep
<1>10. CASE UNCHANGED vars
  BY <1>10, StillStep DEF vars, codecVars
<1> QED
  BY <1>1, <1>2, <1>3, <1>4, <1>5, <1>6, <1>7, <1>8, <1>9, <1>10 DEF Next

-----------------------------------------------------------------------------
(* The invariant of the decoder *)

DecodingState ==
  [state : [step : {"a", "b", "c", "d"}, plain : -1..255, out : {<<>>}], out : Code, code : Code]

LEMMA NoCodeType ==
  /\ NoCode \in DecodingState
  /\ NoCode = [state |-> DecodeStart, out |-> <<>>, code |-> <<>>]
  /\ DecodeStart \in [step : {"a", "b", "c", "d"}, plain : -1..255, out : {<<>>}]
<1>1. DecodeStart \in [step : {"a", "b", "c", "d"}, plain : -1..255, out : {<<>>}]
  BY DEF DecodeStart
<1>2. <<>> \in Code
  BY EmptySeq DEF Code
<1> QED
  BY <1>1, <1>2 DEF NoCode, DecodingState

LEMMA NotDecoding ==
  ASSUME DInv, ~ Encoded, UNCHANGED decoding
  PROVE  DInv'
BY NoCodeType DEF DInv, Decodes, DecodingState

LEMMA DecodingFree ==
  ASSUME DInv, decoding' = NoCode
  PROVE  DInv'
BY NoCodeType DEF DInv, DecodingState

LEMMA DecodingStays ==
  ASSUME DInv, UNCHANGED <<buffer, text, detached, message, decoding>>
  PROVE  DInv'
BY DEF DInv, Decodes, Encoded

\* The string at p ends at its first NUL.
LEMMA StringRead ==
  ASSUME NEW h \in Heap, NEW p \in Block, NEW t \in Code, t # <<>>,
         \A i \in 1..Len(t) : t[i] # NUL, StringAt(h, p, t)
  PROVE  CString(h, p) = t
<1>1. PICK n \in Nat, l \in Nat : n = Len(t) /\ l = Len(h[p]) /\ h[p] \in Seq(MemByte)
  BY SeqLength DEF Code, Heap
<1>2. n < l /\ h[p][n + 1] = NUL /\ \A i \in 1..n : h[p][i] = t[i]
  BY <1>1 DEF StringAt
<1> DEFINE I == {i \in 1..l : h[p][i] = NUL}
<1>3. n + 1 \in I /\ \A i \in I : n + 1 <= i
  BY <1>1, <1>2
<1>4. PICK e : e = Min(I)
  OBVIOUS
<1>5. e = n + 1
  <2>1. e \in I /\ \A i \in I : e <= i
    BY <1>3, <1>4 DEF Min
  <2>2. e \in Nat /\ e <= n + 1 /\ n + 1 <= e
    BY <1>3, <2>1
  <2> QED
    BY <2>2
<1>6. CString(h, p) = IF (IF I # {} THEN Min(I) ELSE 0) = 0 THEN h[p]
                      ELSE SubSeq(h[p], 1, (IF I # {} THEN Min(I) ELSE 0) - 1)
  BY <1>1 DEF CString, SelectInSeq
<1>7. CString(h, p) = SubSeq(h[p], 1, n)
  <2>1. I # {}
    BY <1>3
  <2>2. n + 1 # 0 /\ (n + 1) - 1 = n
    OBVIOUS
  <2> HIDE DEF I
  <2> QED
    BY <1>4, <1>5, <1>6, <2>1, <2>2
<1>8. n \in 0..Len(h[p])
  BY <1>1, <1>2
<1>9. /\ SubSeq(h[p], 1, n) \in Seq(MemByte) /\ Len(SubSeq(h[p], 1, n)) = n
      /\ \A i \in 1..n : SubSeq(h[p], 1, n)[i] = h[p][i]
  BY <1>1, <1>8, FirstPart
<1>10. t \in Seq(MemByte)
  BY SeqMonotonic DEF Code, MemByte
<1> QED
  BY <1>1, <1>2, <1>7, <1>9, <1>10, SeqEqual

\* The code has no NUL.
LEMMA CodeHasNoNul ==
  ASSUME NEW m \in Code, NEW t \in Code, Starts(t, Base64(m))
  PROVE  \A i \in 1..Len(t) : t[i] # NUL
<1>1. \A i \in 1..Len(Base64(m)) : Base64(m)[i] \in 43..122
  BY Base64Type
<1>2. Len(t) \in Nat /\ Len(Base64(m)) \in Nat
  BY Base64Length, SeqLength DEF Code
<1>3. ASSUME NEW i \in 1..Len(t) PROVE t[i] # NUL
  <2>1. PICK n \in Nat, l \in Nat : n = Len(t) /\ l = Len(Base64(m)) /\ n <= l
    BY <1>2 DEF Starts
  <2>2. i \in 1..Len(Base64(m)) /\ t[i] = Base64(m)[i]
    BY <2>1 DEF Starts
  <2>3. PICK c \in 43..122 : c = t[i]
    BY <1>1, <2>2
  <2> QED
    <3>1. c # NUL
      BY DEF NUL
    <3> QED
      BY <2>3, <3>1
<1> QED
  BY <1>3

LEMMA DecodeBeginStep ==
  ASSUME MInv, EInv, DInv, DecodeBegin
  PROVE  DInv'
<1>1. /\ Encoded /\ Result /\ NUL \in ToSet(heap[detached])
      /\ decoding' = [NoCode EXCEPT !.code = CString(heap, detached)]
      /\ UNCHANGED <<heap, buffer, text, detached, message>>
  BY DEF DecodeBegin, EInv, memVars, bufferVars
<1>2. heap \in Heap /\ detached \in Block /\ text \in Code /\ message \in Code
  BY <1>1, HeldFacts DEF Encoded, MInv, MemType, EInv, EncodingType
<1>3. text # <<>>
  <2>1. ASSUME text = <<>> PROVE FALSE
    <3>1. PICK s \in Seq(MemByte) : s = heap[detached]
      BY <1>2 DEF Heap
    <3>2. \A i \in 1..Len(s) : s[i] # NUL
      BY <1>1, <2>1, <3>1 DEF Result, StringAt
    <3>3. DOMAIN s = 1..Len(s)
      BY SeqLength
    <3> QED
      BY <1>1, <3>1, <3>2, <3>3 DEF ToSet
  <2> QED
    BY <2>1
<1>4. CString(heap, detached) = text
  BY <1>1, <1>2, <1>3, CodeHasNoNul, StringRead DEF Result
<1>5. decoding' = [state |-> DecodeStart, out |-> <<>>, code |-> text]
  BY <1>1, <1>4, NoCodeType
<1>6. <<>> \in Code
  BY EmptySeq DEF Code
<1>7. decoding' \in DecodingState
  BY <1>2, <1>5, <1>6, NoCodeType DEF DecodingState
<1>8. decoding'.state = DecodeStart /\ decoding'.out = <<>> /\ decoding'.code = text
  BY <1>5
<1>9. Len(text) \in Nat /\ Len(message) \in Nat /\ Len(<<>>) = 0
  BY <1>2, SeqLength DEF Code
<1>10. Len(text) - Len(text) = 0 /\ \A i \in 1..Len(text) : 0 + i = i
  BY <1>9
<1>11. Clip(Len(message), 0) = 0
  <2>1. PICK n \in Nat : n = Len(message)
    BY <1>9
  <2>2. 0 <= Characters(n)
    BY DEF Characters
  <2> QED
    BY <2>1, <2>2 DEF Clip
<1>12. DecoderAt(DecodeStart, message, 0) /\ Decoded(0) = 0
  <2>1. DecodeStart.step = "a" /\ 0 % 4 = 0
    BY DEF DecodeStart
  <2> QED
    BY <2>1 DEF DecoderAt, Place, Decoded
<1>13. Starts(<<>>, message)
  BY <1>9 DEF Starts
<1>14. Encoded'
  BY <1>1 DEF Encoded
<1>15. Decodes'
  BY <1>1, <1>3, <1>8, <1>9, <1>10, <1>11, <1>12, <1>13, <1>14 DEF Decodes
<1> QED
  BY <1>7, <1>15 DEF DInv, DecodingState

\* The characters of the message that are not its padding are the first ones.
LEMMA ClipFits ==
  ASSUME NEW n \in Nat, NEW k \in Nat
  PROVE  Clip(n, k) \in Nat /\ Decoded(Clip(n, k)) \in Nat /\ Decoded(Clip(n, k)) <= n
<1>1. PICK c \in Nat, l \in Nat : c = Clip(n, k) /\ l = Characters(n) /\ c <= l
  BY ClipNext DEF Clip
<1>2. Decoded(c) \in Nat /\ Decoded(c) <= Decoded(l)
  BY <1>1, DecodedGrows
<1>3. Decoded(l) = n
  BY <1>1, DecodedAll
<1> QED
  BY <1>1, <1>2, <1>3

LEMMA DecodeSomeStep ==
  ASSUME MInv, EInv, DInv, NEW n \in Nat \ {0}, DecodeSome(n)
  PROVE  DInv'
<1>1. /\ decoding.code # <<>> /\ n <= Len(decoding.code)
      /\ UNCHANGED <<heap, buffer, text, detached, message>>
  BY DEF DecodeSome, memVars, bufferVars
<1>2. decoding # NoCode
  BY <1>1, NoCodeType
<1>3. Decodes /\ decoding \in DecodingState /\ message \in Code /\ text \in Code
  BY <1>2 DEF DInv, DecodingState, EInv, EncodingType, MInv, MemType
<1>4. Encoded /\ Result /\ text # <<>>
  BY <1>3 DEF Decodes, EInv
<1>5. PICK out \in Code, code \in Code, s \in [step : {"a", "b", "c", "d"}, plain : -1..255, out : {<<>>}] :
        s = decoding.state /\ out = decoding.out /\ code = decoding.code
  BY <1>3 DEF DecodingState
<1>6. s \in [step : {"a", "b", "c", "d"}, plain : -1..255, out : Code]
  <2>1. <<>> \in Code
    BY EmptySeq DEF Code
  <2> QED
    BY <2>1
<1>7. PICK l \in Nat, t \in Nat, z \in Nat :
        l = Len(code) /\ t = Len(text) /\ z = Len(message)
  BY <1>3, <1>5, SeqLength DEF Code
<1>8. n \in 0..l
  BY <1>1, <1>5, <1>7
<1>9. PICK block \in Code : block = SubSeq(code, 1, n) /\ Len(block) = n
                            /\ \A i \in 1..n : block[i] = code[i]
  <2>1. /\ SubSeq(code, 1, n) \in Code /\ Len(SubSeq(code, 1, n)) = n
        /\ \A i \in 1..n : SubSeq(code, 1, n)[i] = code[i]
    BY <1>7, <1>8, Split
  <2> QED
    BY <2>1
<1>10. PICK rest \in Code : rest = SubSeq(code, n + 1, l) /\ Len(rest) = l - n
                            /\ \A i \in 1..(l - n) : rest[i] = code[n + i]
  <2>1. /\ SubSeq(code, n + 1, l) \in Code /\ Len(SubSeq(code, n + 1, l)) = l - n
        /\ \A i \in 1..(l - n) : SubSeq(code, n + 1, l)[i] = code[n + i]
    BY <1>7, <1>8, Split
  <2> QED
    BY <2>1
<1>11. PICK r : r = base64_decode_block(s, <<Skipped>> \o block)
  OBVIOUS
<1>12. decoding' = [state |-> [r EXCEPT !.out = <<>>], out |-> out \o r.out, code |-> rest]
  BY <1>5, <1>7, <1>9, <1>10, <1>11 DEF DecodeSome
<1>13. PICK k \in Nat : k = t - l /\ k + l = t /\ \A i \in 1..l : code[i] = text[k + i]
  <2>1. /\ Len(text) - Len(code) >= 0
        /\ \A i \in 1..Len(code) : code[i] = text[(Len(text) - Len(code)) + i]
    BY <1>3, <1>5 DEF Decodes
  <2>2. t - l >= 0 /\ \A i \in 1..l : code[i] = text[(t - l) + i]
    BY <1>7, <2>1
  <2>3. t - l \in Nat /\ (t - l) + l = t
    BY <2>2
  <2> QED
    BY <2>2, <2>3
<1>14. PICK c \in Nat : c = Clip(z, k)
  BY ClipNext
<1>15. /\ DecoderAt(s, message, c) /\ Starts(out, message) /\ Len(out) = Decoded(c)
  BY <1>3, <1>5, <1>7, <1>13, <1>14 DEF Decodes
<1>16. s \in Decoder
  BY <1>3, <1>6, <1>15, PlacedDecoder
<1>17. k + n <= Len(Base64(message)) /\ \A i \in 1..n : block[i] = Base64(message)[k + i]
  <2>1. t <= Len(Base64(message)) /\ \A i \in 1..t : text[i] = Base64(message)[i]
    BY <1>4, <1>7 DEF Result, Starts
  <2>2. Len(Base64(message)) \in Nat
    BY <1>3, Base64Length
  <2>3. k + n <= t /\ \A i \in 1..n : k + i \in 1..t /\ i \in 1..l
    BY <1>8, <1>13
  <2>4. k + n <= Len(Base64(message))
    BY <2>1, <2>2, <2>3
  <2>5. ASSUME NEW i \in 1..n PROVE block[i] = Base64(message)[k + i]
    <3>1. block[i] = code[i] /\ code[i] = text[k + i]
      BY <1>9, <1>13, <2>3
    <3>2. text[k + i] = Base64(message)[k + i]
      BY <2>1, <2>3
    <3> QED
      BY <3>1, <3>2
  <2> QED
    BY <2>4, <2>5
<1>18. PICK e \in Nat : e = Clip(z, k + n) /\ c <= e
  <2>1. Clip(z, k + n) \in Nat /\ Clip(z, k) <= Clip(z, k + n)
    <3>1. \A x \in Nat : Clip(z, x) \in Nat /\ \A y \in Nat : Clip(z, x) <= Clip(z, x + y)
      BY ClipNext
    <3>2. n \in Nat /\ k + n \in Nat
      OBVIOUS
    <3> QED
      BY <3>1, <3>2
  <2> QED
    BY <1>14, <2>1
<1>19. /\ r \in Decoder /\ DecoderAt(r, message, e) /\ Gets(message, c, e, <<>>, r.out)
  <2>1. PICK m \in Code : m = message
    BY <1>3
  <2>2. /\ z = Len(m) /\ DecoderAt(s, m, Clip(z, k)) /\ n \in Nat /\ n = Len(block)
        /\ k + n <= Len(Base64(m)) /\ \A i \in 1..n : block[i] = Base64(m)[k + i]
    BY <1>7, <1>9, <1>14, <1>15, <1>17, <2>1
  <2>3. /\ r \in Decoder /\ DecoderAt(r, m, Clip(z, k + n))
        /\ Gets(m, Clip(z, k), Clip(z, k + n), <<>>, r.out)
    BY <1>11, <1>16, <2>2, DecodeBlockMakes
  <2> QED
    BY <1>14, <1>18, <2>1, <2>3
<1>20. PICK more \in Code : more = r.out
  BY <1>19 DEF Decoder
<1>21. PICK x \in Nat, y \in Nat : x = Decoded(c) /\ y = Decoded(e) /\ x <= y /\ y <= z
  <2>1. Decoded(e) <= z
    BY <1>18, ClipFits
  <2> QED
    BY <1>18, <2>1, DecodedGrows
<1>22. /\ out \o more \in Code /\ Len(out \o more) = y /\ Starts(out \o more, message)
  <2>1. Adds(message, x, y, <<>>, more)
    BY <1>19, <1>20, <1>21 DEF Gets
  <2> QED
    BY <1>3, <1>7, <1>15, <1>21, <2>1, StartsMore
<1>23. PICK d : d = [r EXCEPT !.out = <<>>]
  OBVIOUS
<1>24. d.step = r.step /\ d.plain = r.plain
       /\ d \in [step : {"a", "b", "c", "d"}, plain : -1..255, out : {<<>>}]
  BY <1>19, <1>23 DEF Decoder
<1>25. /\ decoding'.state = d /\ decoding'.out = out \o more /\ decoding'.code = rest
       /\ decoding' \in DecodingState
  BY <1>12, <1>20, <1>22, <1>23, <1>24 DEF DecodingState
<1>26. DecoderAt(d, message, e)
  BY <1>19, <1>24 DEF DecoderAt, Place
<1>27. Len(text) - Len(rest) = k + n /\ k + n >= 0 /\ \A i \in 1..Len(rest) : rest[i] = text[(k + n) + i]
  <2>1. Len(text) - Len(rest) = k + n /\ k + n >= 0
    <3>1. t - (l - n) = k + n /\ k + n >= 0
      BY <1>13
    <3> QED
      BY <1>7, <1>10, <3>1
  <2>2. ASSUME NEW i \in 1..(l - n) PROVE rest[i] = text[(k + n) + i]
    <3>1. n + i \in 1..l /\ k + (n + i) = (k + n) + i
      BY <1>8
    <3> QED
      BY <1>10, <1>13, <3>1
  <2> QED
    BY <1>10, <2>1, <2>2
<1>28. Encoded'
  BY <1>1, <1>4 DEF Encoded
<1>29. Decodes'
  BY <1>1, <1>4, <1>7, <1>18, <1>21, <1>22, <1>25, <1>26, <1>27, <1>28 DEF Decodes
<1> QED
  BY <1>25, <1>29 DEF DInv, DecodingState

LEMMA DecoderStep ==
  ASSUME MInv, EInv, DInv, [Next]_vars
  PROVE  DInv'
<1>1. ASSUME NEW m \in Messages, Ybase64_encode(m) PROVE DInv'
  BY <1>1, NotDecoding DEF Ybase64_encode, Encoded
<1>2. ASSUME encoding.pc # "idle", UNCHANGED decoding PROVE DInv'
  <2>1. ~ Encoded
    BY <1>2, EncodesFacts DEF Encoded
  <2> QED
    BY <1>2, <2>1, NotDecoding
<1>3. CASE EncodeBlock
  BY <1>2, <1>3 DEF EncodeBlock
<1>4. CASE EncodeEnd
  BY <1>2, <1>4 DEF EncodeEnd
<1>5. CASE EncodeReturn
  BY <1>2, <1>5 DEF EncodeReturn
<1>6. CASE DecodeBegin
  BY <1>6, DecodeBeginStep
<1>7. ASSUME NEW n \in CodeBlocks, DecodeSome(n) PROVE DInv'
  BY <1>7, DecodeSomeStep, Ybase64Assumption
<1>8. CASE FreeResult
  BY <1>8, DecodingFree DEF FreeResult
<1>9. CASE encoding = Idle /\ YbufferNext /\ UNCHANGED codecVars
  <2>1. ~ Encoded
    BY <1>9, BufferFree DEF Encoded
  <2> QED
    BY <1>9, <2>1, NotDecoding DEF codecVars
<1>10. CASE encoding = Idle /\ YmemNext /\ UNCHANGED <<bufferVars, codecVars>>
  BY <1>10, DecodingStays DEF bufferVars, codecVars
<1>11. CASE UNCHANGED vars
  BY <1>11, DecodingStays DEF vars, bufferVars, codecVars
<1> QED
  BY <1>1, <1>3, <1>4, <1>5, <1>6, <1>7, <1>8, <1>9, <1>10, <1>11 DEF Next
-----------------------------------------------------------------------------
(* The invariant of the module *)

Inv == MInv /\ EInv /\ DInv

LEMMA InitInv ==
  Init => Inv
<1> SUFFICES ASSUME Init PROVE Inv
  OBVIOUS
<1>1. /\ heap = [b \in Block |-> <<>>] /\ held = {} /\ lost = {}
      /\ buffer = NoBuffer /\ text = <<>> /\ detached = NULL
      /\ encoding = Idle /\ message = <<>> /\ complete = FALSE /\ decoding = NoCode
  BY DEF Init, YmemInit, YbufferInit
<1>2. <<>> \in Code /\ <<>> \in Seq(MemByte) /\ NULL \notin Block
  BY EmptySeq, BlockIsNumber DEF Code
<1>3. MemType
  BY <1>1, <1>2 DEF MemType, Heap
<1>4. Owned
  <2>1. HeldBlocks = {} /\ \A p \in Block : heap[p] = <<>>
    BY <1>1 DEF HeldBlocks
  <2> QED
    BY <1>1, <1>2, <2>1 DEF Owned, Owns, NoBuffer
<1>5. MInv
  BY <1>1, <1>3, <1>4 DEF MInv, HeldOnce, HoldsWhatWasAsked
<1>6. encoding.pc = "idle" /\ encoding \in EncodingState
  BY <1>1, IdleType
<1>7. EncodingType
  BY <1>1, <1>2, <1>6 DEF EncodingType, EncodingState, EncoderAtRest
<1>8. EInv
  BY <1>1, <1>6, <1>7 DEF EInv, Encoded
<1>9. DInv
  BY <1>1, NoCodeType DEF DInv, DecodingState
<1> QED
  BY <1>5, <1>8, <1>9 DEF Inv

LEMMA NextInv ==
  Inv /\ [Next]_vars => Inv'
<1> SUFFICES ASSUME Inv, [Next]_vars PROVE Inv'
  OBVIOUS
<1>1. MInv' /\ EInv'
  BY MemoryAndEncoder DEF Inv
<1>2. DInv'
  BY DecoderStep DEF Inv
<1> QED
  BY <1>1, <1>2 DEF Inv

LEMMA InvHolds ==
  Spec => []Inv
BY InitInv, NextInv, PTL DEF Spec

-----------------------------------------------------------------------------
(* What follows from it *)

\* A caller of the allocator may use as many bytes as it asked for, aligned as it asked,
\* from every function of yalloc.c and after any sequence of calls, its own and those of
\* Ybuffer and Ybase64_encode.
THEOREM MemoryIsAsAskedFor ==
  Spec => []HoldsWhatWasAsked
<1>1. Inv => HoldsWhatWasAsked
  BY DEF Inv, MInv
<1> QED
  BY <1>1, InvHolds, PTL

LEMMA FiveSets ==
  ASSUME NEW A, NEW B, NEW C, NEW D, NEW E, NEW w, w = <<A, B, C, D, E>>
  PROVE  /\ DOMAIN w = 1..5 /\ w[1] = A /\ w[2] = B /\ w[3] = C /\ w[4] = D /\ w[5] = E
         /\ UNION ToSet(w) = A \cup B \cup C \cup D \cup E
<1>1. DOMAIN w = 1..5 /\ w[1] = A /\ w[2] = B /\ w[3] = C /\ w[4] = D /\ w[5] = E
  OBVIOUS
<1>2. \A k \in 1..5 : k = 1 \/ k = 2 \/ k = 3 \/ k = 4 \/ k = 5
  OBVIOUS
<1>3. ToSet(w) \subseteq {A, B, C, D, E}
  BY <1>1, <1>2 DEF ToSet
<1>4. {A, B, C, D, E} \subseteq ToSet(w)
  <2>1. \A k \in 1..5 : w[k] \in ToSet(w)
    BY <1>1 DEF ToSet
  <2> QED
    BY <1>1, <2>1
<1>5. ToSet(w) = {A, B, C, D, E}
  BY <1>3, <1>4
<1> QED
  BY <1>1, <1>5

LEMMA OwnedOnce ==
  ASSUME MInv
  PROVE  HeapIsOwned
<1>1. Owns(heap, HeldBlocks, lost, buffer, detached) /\ NULL \notin Block
  BY HeldFacts, BlockIsNumber
<1> DEFINE H == {m.ptr : m \in held}
           S == {buffer.self} \ {NULL}
           D == {buffer.data} \ {NULL}
           X == {detached} \ {NULL}
<1>2. H = HeldBlocks
  BY DEF HeldBlocks
<1>3. PICK owners : owners = <<H, S, D, X, lost>>
  OBVIOUS
<1>4. /\ DOMAIN owners = 1..5 /\ owners[1] = H /\ owners[2] = S /\ owners[3] = D
      /\ owners[4] = X /\ owners[5] = lost
      /\ UNION ToSet(owners) = H \cup S \cup D \cup X \cup lost
  <2> HIDE DEF H, S, D, X
  <2> QED
    BY <1>3, FiveSets
<1>5. H \subseteq Block /\ S \subseteq Block /\ D \subseteq Block /\ X \subseteq Block
      /\ lost \subseteq Block
  BY <1>1, <1>2 DEF Owns
<1>6. Allocated(heap) = H \cup S \cup D \cup X \cup lost
  <2>1. Allocated(heap) = {p \in Block : p \in H \/ p \in lost \/ p = buffer.self
                                        \/ p = buffer.data \/ p = detached}
    BY <1>1, <1>2 DEF Owns, Allocated
  <2>2. ASSUME NEW p PROVE p \in Allocated(heap) <=> p \in H \cup S \cup D \cup X \cup lost
    BY <1>1, <1>5, <2>1
  <2> QED
    BY <2>2
<1>7. /\ H \cap S = {} /\ H \cap D = {} /\ H \cap X = {} /\ H \cap lost = {}
      /\ lost \cap S = {} /\ lost \cap D = {} /\ lost \cap X = {}
      /\ S \cap D = {} /\ S \cap X = {} /\ D \cap X = {}
  BY <1>1, <1>2 DEF Owns
<1> HIDE DEF H, S, D, X
<1>8. ASSUME NEW i \in 1..5, NEW j \in 1..5, i # j PROVE owners[i] \cap owners[j] = {}
  <2>1. \A A, B : A \cap B = B \cap A
    OBVIOUS
  <2>2. \A k \in 1..5 : k = 1 \/ k = 2 \/ k = 3 \/ k = 4 \/ k = 5
    OBVIOUS
  <2> QED
    BY <1>4, <1>7, <1>8, <2>1, <2>2
<1>9. /\ Allocated(heap) = UNION ToSet(owners)
      /\ \A i, j \in DOMAIN owners : i # j => owners[i] \cap owners[j] = {}
  BY <1>4, <1>6, <1>8
<1> QED
  BY <1>3, <1>9 DEF HeapIsOwned, H, S, D, X

\* Every block of memory that malloc gave out has exactly one owner, whatever the callers
\* of the three modules do and whichever allocation fails: nothing leaks and nothing is
\* used after it was freed, but for the blocks that Ymem_malloc_aligned loses.
THEOREM EveryBlockHasOneOwner ==
  Spec => []HeapIsOwned
<1>1. Inv => HeapIsOwned
  BY OwnedOnce DEF Inv
<1> QED
  BY <1>1, InvHolds, PTL

LEMMA TextIsHeld ==
  ASSUME MInv
  PROVE  BufferHoldsText
<1> SUFFICES ASSUME buffer # NoBuffer
             PROVE  /\ buffer.status \in {"ok", "error"}
                    /\ buffer.pos = Len(text)
                    /\ buffer.data = NULL => buffer.datalen = 0 /\ text = <<>>
                    /\ buffer.data # NULL =>
                         /\ Len(heap[buffer.data]) = buffer.datalen
                         /\ SubSeq(heap[buffer.data], 1, buffer.pos) = text
                         /\ text # <<>> /\ buffer.status = "ok" =>
                              buffer.pos < buffer.datalen /\ heap[buffer.data][buffer.pos + 1] = NUL
                         /\ text # <<>> /\ buffer.status = "error" =>
                              NUL \in ToSet(SubSeq(heap[buffer.data], buffer.pos + 1, buffer.datalen))
  BY DEF BufferHoldsText
<1>1. Holds(buffer, heap, text) /\ text \in Code /\ heap \in Heap
  BY DEF MInv, MemType
<1>2. PICK t \in Nat, l \in Nat, p \in Block \cup {NULL} :
        /\ t = Len(text) /\ t = buffer.pos /\ l = buffer.datalen /\ p = buffer.data /\ t <= l
        /\ buffer.status \in {"ok", "error"} /\ (p = NULL => l = 0)
        /\ (text = <<>> <=> t = 0)
  BY <1>1, RecordFields, SeqLength DEF Holds, Filled, Code
<1>3. p = NULL => l = 0 /\ text = <<>>
  BY <1>2
<1>4. ASSUME p # NULL
      PROVE  /\ Len(heap[p]) = l
             /\ SubSeq(heap[p], 1, t) = text
             /\ text # <<>> /\ buffer.status = "ok" => t < l /\ heap[p][t + 1] = NUL
             /\ text # <<>> => NUL \in ToSet(SubSeq(heap[p], t + 1, l))
  <2>1. /\ Len(heap[p]) = l /\ \A i \in 1..t : heap[p][i] = text[i]
        /\ text # <<>> /\ buffer.status = "ok" => t < l /\ heap[p][t + 1] = NUL
        /\ text # <<>> => \E i \in (t + 1)..l : heap[p][i] = NUL
    BY <1>1, <1>2, <1>4 DEF Holds, Filled
  <2>2. heap[p] \in Seq(MemByte) /\ t \in 0..Len(heap[p])
    BY <1>1, <1>2, <1>4, <2>1 DEF Heap
  <2>3. /\ SubSeq(heap[p], 1, t) \in Seq(MemByte) /\ Len(SubSeq(heap[p], 1, t)) = t
        /\ \A i \in 1..t : SubSeq(heap[p], 1, t)[i] = heap[p][i]
    BY <2>2, FirstPart
  <2>4. /\ SubSeq(heap[p], t + 1, l) \in Seq(MemByte) /\ Len(SubSeq(heap[p], t + 1, l)) = l - t
        /\ \A i \in 1..(l - t) : SubSeq(heap[p], t + 1, l)[i] = heap[p][t + i]
    BY <2>1, <2>2, LastPart
  <2>5. SubSeq(heap[p], 1, t) = text
    <3>1. text \in Seq(MemByte)
      BY <1>1, SeqMonotonic DEF Code, MemByte
    <3>2. PICK s \in Seq(MemByte) : s = SubSeq(heap[p], 1, t) /\ Len(s) = t
                                    /\ \A i \in 1..t : s[i] = heap[p][i]
      BY <2>3
    <3>3. Len(s) = Len(text) /\ \A i \in 1..Len(s) : s[i] = text[i]
      BY <1>2, <2>1, <3>2
    <3>4. s = text
      BY <3>1, <3>2, <3>3, SeqEqual
    <3> QED
      BY <3>2, <3>4
  <2>6. ASSUME text # <<>> PROVE NUL \in ToSet(SubSeq(heap[p], t + 1, l))
    <3>1. PICK i \in (t + 1)..l : heap[p][i] = NUL
      BY <2>1, <2>6
    <3>2. PICK j \in 1..(l - t) : i = t + j
      OBVIOUS
    <3>3. PICK s \in Seq(MemByte) : s = SubSeq(heap[p], t + 1, l) /\ Len(s) = l - t /\ s[j] = NUL
      BY <2>4, <3>1, <3>2
    <3>4. j \in DOMAIN s
      BY <3>3, SeqLength
    <3> QED
      BY <3>3, <3>4 DEF ToSet
  <2> QED
    BY <2>1, <2>5, <2>6
<1> QED
  BY <1>2, <1>3, <1>4

\* A Ybuffer holds exactly the texts whose appends succeeded, whole, however their
\* lengths fall on its increments, whichever allocation fails and whatever was truncated
\* by a format before it grew; and it stays a C string.
THEOREM BufferIsRight ==
  Spec => []BufferHoldsText
<1>1. Inv => BufferHoldsText
  BY TextIsHeld DEF Inv
<1> QED
  BY <1>1, InvHolds, PTL

LEMMA StartsIsPrefix ==
  ASSUME NEW t \in Code, NEW c \in Code, Starts(t, c)
  PROVE  IsPrefix(t, c)
<1>1. PICK n \in Nat : n = Len(t) /\ n <= Len(c) /\ Len(c) \in Nat
  BY SeqLength DEF Code, Starts
<1>2. n \in 0..Len(t) /\ n \in 0..Len(c) /\ t \in Seq(0..255) /\ c \in Seq(0..255)
  BY <1>1 DEF Code
<1>3. /\ SubSeq(t, 1, n) \in Seq(0..255) /\ Len(SubSeq(t, 1, n)) = n
      /\ \A i \in 1..n : SubSeq(t, 1, n)[i] = t[i]
  BY <1>2, FirstPart
<1>4. /\ SubSeq(c, 1, n) \in Seq(0..255) /\ Len(SubSeq(c, 1, n)) = n
      /\ \A i \in 1..n : SubSeq(c, 1, n)[i] = c[i]
  BY <1>2, FirstPart
<1>5. \A i \in 1..n : t[i] = c[i]
  BY <1>1 DEF Starts
<1>6. SubSeq(t, 1, n) = SubSeq(c, 1, n)
  BY <1>3, <1>4, <1>5, SeqEqual
<1> QED
  BY <1>1, <1>6 DEF IsPrefix

LEMMA CodeIsRight ==
  ASSUME MInv, EInv
  PROVE  EncodesMessage
<1> SUFFICES ASSUME Encoded
             PROVE  /\ complete => CString(heap, detached) = Base64(message)
                    /\ ~ complete /\ text # <<>> =>
                         /\ NUL \in ToSet(heap[detached])
                         /\ CString(heap, detached) = text
                         /\ IsPrefix(text, Base64(message))
  BY DEF EncodesMessage
<1>1. /\ heap \in Heap /\ detached \in Block /\ text \in Code /\ message \in Code
      /\ message # <<>> /\ Base64(message) \in Code
  BY HeldFacts, Base64Length DEF MInv, MemType, EInv, EncodingType, Encoded
<1>2. /\ StringAt(heap, detached, text) /\ Starts(text, Base64(message))
      /\ complete => text = Base64(message)
  BY DEF EInv, Result
<1>3. \A i \in 1..Len(text) : text[i] # NUL
  BY <1>1, <1>2, CodeHasNoNul
<1>4. text # <<>> => CString(heap, detached) = text
  BY <1>1, <1>2, <1>3, StringRead
<1>5. complete => text # <<>>
  BY <1>1, <1>2, Base64Length, EmptySeq
<1>6. ASSUME text # <<>> PROVE NUL \in ToSet(heap[detached])
  <2>1. PICK s \in Seq(MemByte) : s = heap[detached]
    BY <1>1 DEF Heap
  <2>2. Len(text) < Len(s) /\ s[Len(text) + 1] = NUL
    BY <1>2, <1>6, <2>1 DEF StringAt
  <2>3. Len(text) + 1 \in DOMAIN s
    <3>1. PICK n \in Nat, l \in Nat : n = Len(text) /\ l = Len(s) /\ DOMAIN s = 1..l
      BY <1>1, SeqLength DEF Code
    <3> QED
      BY <2>2, <3>1
  <2> QED
    BY <2>1, <2>2, <2>3 DEF ToSet
<1>7. IsPrefix(text, Base64(message))
  BY <1>1, <1>2, StartsIsPrefix
<1> QED
  BY <1>2, <1>4, <1>5, <1>6, <1>7

\* For every message, the result of Ybase64_encode is the code of the reference, as a C
\* string; if an append failed, it is the code of some of the first blocks.
THEOREM EncodingIsRight ==
  Spec => []EncodesMessage
<1>1. Inv => EncodesMessage
  BY CodeIsRight DEF Inv
<1> QED
  BY <1>1, InvHolds, PTL

LEMMA MessageIsBack ==
  ASSUME MInv, EInv, DInv
  PROVE  DecodesMessage
<1>1. /\ heap \in Heap /\ detached \in Block \cup {NULL} /\ text \in Code /\ message \in Code
      /\ encoding \in EncodingState /\ decoding \in DecodingState
      /\ held \subseteq HeldType /\ lost \subseteq Block
  BY HeldFacts, EncodingTyped DEF MInv, MemType, EInv, DInv, DecodingState
<1>2. TypeOK
  <2>1. heap \in [Block -> Seq(-1..255)] /\ lost \subseteq Block /\ detached \in Block \cup {NULL}
    BY <1>1 DEF Heap, MemByte
  <2>2. held \subseteq [ptr : Block, at : Nat, size : Nat, alignment : Nat]
    BY <1>1 DEF HeldType
  <2>3. /\ encoding.pc \in {"idle", "blocks", "end"} /\ encoding.state.step \in {"A", "B", "C"}
        /\ encoding.state.result \in 0..63
    BY <1>1 DEF EncodingState, EncoderAtRest
  <2>4. decoding.state.step \in {"a", "b", "c", "d"} /\ decoding.out \in Seq(0..255)
    BY <1>1 DEF DecodingState, Code
  <2> QED
    BY <2>1, <2>2, <2>3, <2>4 DEF TypeOK
<1>3. PICK out \in Code : out = decoding.out
  BY <1>1 DEF DecodingState
<1>4. IsPrefix(out, message)
  <2>1. CASE decoding = NoCode
    <3>1. out = <<>> /\ Len(<<>>) = 0 /\ Len(message) \in Nat
      BY <1>1, <1>3, <2>1, NoCodeType, Base64Length
    <3>2. Starts(out, message)
      BY <3>1 DEF Starts
    <3> QED
      BY <1>1, <3>2, StartsIsPrefix
  <2>2. CASE decoding # NoCode
    <3>1. Starts(out, message)
      BY <1>3, <2>2 DEF DInv, Decodes
    <3> QED
      BY <1>1, <3>1, StartsIsPrefix
  <2> QED
    BY <2>1, <2>2
<1>5. ASSUME complete, decoding # NoCode, decoding.code = <<>>
      PROVE  out = message
  <2>1. Encoded /\ Starts(out, message)
        /\ Len(out) = Decoded(Clip(Len(message), Len(text) - Len(<<>>)))
    BY <1>3, <1>5 DEF DInv, Decodes
  <2>2. text = Base64(message)
    BY <1>5, <2>1 DEF EInv, Result
  <2>3. PICK n \in Nat : n = Len(message)
    BY <1>1, Base64Length
  <2>4. PICK l \in Nat : l = Len(text) /\ l = 4 * ((n + 2) \div 3) /\ Len(text) - Len(<<>>) = l
    BY <1>1, <2>2, <2>3, Base64Type
  <2>5. Clip(n, l) = Characters(n)
    <3>1. PICK e \in Nat : e = (n + 2) \div 3 /\ n <= 3 * e
      OBVIOUS
    <3>2. l >= n + e
      BY <2>4, <3>1
    <3>3. Characters(n) = n + e
      BY <3>1 DEF Characters
    <3> QED
      BY <3>2, <3>3 DEF Clip
  <2>6. Len(out) = n
    BY <2>1, <2>3, <2>4, <2>5, DecodedAll
  <2> QED
    BY <1>1, <2>1, <2>3, <2>6, StartsAll
<1> QED
  BY <1>2, <1>3, <1>4, <1>5 DEF DecodesMessage

\* For every message, wherever the blocks of code end that base64_decode_block is given
\* and with characters in between that are no code, the message comes back.
THEOREM DecodingIsRight ==
  Spec => []DecodesMessage
<1>1. Inv => DecodesMessage
  BY MessageIsBack DEF Inv
<1> QED
  BY <1>1, InvHolds, PTL
=============================================================================

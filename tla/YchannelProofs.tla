--------------------------- MODULE YchannelProofs ---------------------------
(***************************************************************************)
(* Whatever the kind of a channel, the sizes of its buffers, the requests, *)
(* lengths and bytes pushed back, its reader gets the stream: the read     *)
(* side implements PushbackStream, its length is respected, and neither    *)
(* the end of file nor a short read hides bytes that are still to come.    *)
(***************************************************************************)
EXTENDS Ychannel, SequenceTheorems, TLAPS

\* The buffers and the engine.  A byte array channel has no engine, and nothing but
\* it has a header; the engine of a channel that is terminated has no more, or its
\* stream threw.
Buffers ==
  /\ pbuf \in Seq(Nat) /\ ppos \in 0..Len(pbuf)
  /\ hbuf \in Seq(Nat) /\ hpos \in 0..Len(hbuf)
  /\ rbuf \in Seq(Nat) /\ rpos \in 0..Len(rbuf)
  /\ rsize \in {0, BufSize} /\ Len(rbuf) <= rsize
  /\ engine \in Seq(Nat)
  /\ terminated \in BOOLEAN /\ failed \in BOOLEAN /\ threw \in BOOLEAN
  /\ idle \in BOOLEAN
  /\ kind = "array" => rbuf = <<>> /\ engine = <<>>
  /\ kind # "array" => hbuf = <<>>
  /\ terminated => engine = <<>> \/ threw

UsedUp == ppos >= Len(pbuf) /\ hpos >= Len(hbuf) /\ rpos >= Len(rbuf)

\* The length and the count.
Counted ==
  /\ kind \in Kinds
  /\ inlength \in Lengths \cup {NoLength}
  /\ incount \in Nat

\* The length is not so far below the count that their difference loses its sign.
Near == inlength = NoLength \/ incount - inlength < IntLimit

\* The YchannelRead under way, which ends with a negative number of bytes missing if
\* a chunk was longer than what it asked for.  It reads straight from the engine only while there
\* is nothing in the buffers that would have to come first.
Reading ==
  /\ pc \in {"ready", "drain", "direct", "fetch", "released"}
  /\ toread \in Int /\ toread < IntLimit
  /\ pc \notin {"ready", "released"} => toread > 0
  /\ dest \in {"buffer", "null"}
  /\ out \in Seq(Nat)
  /\ pc = "direct" => UsedUp

\* The inductive invariant.
CInv == Buffers /\ Counted /\ Reading

-----------------------------------------------------------------------------
(* Lemmas on numbers and sequences *)

LEMMA MaxOfTwo ==
  ASSUME NEW a \in Int, NEW b \in Int
  PROVE  Max({a, b}) = IF a >= b THEN a ELSE b
BY DEF Max

LEMMA MinOfTwo ==
  ASSUME NEW a \in Int, NEW b \in Int
  PROVE  Min({a, b}) = IF a <= b THEN a ELSE b
BY DEF Min

LEMMA MinOfThree ==
  ASSUME NEW a \in Int, NEW b \in Int, NEW c \in Int
  PROVE  Min({a, b, c}) \in Int /\ Min({a, b, c}) <= a /\ Min({a, b, c}) <= c
<1> DEFINE S == {a, b, c}
<1>1. \E x \in S : \A y \in S : x <= y
  <2>1. CASE a <= b /\ a <= c
    BY <2>1
  <2>2. CASE b <= a /\ b <= c
    BY <2>2
  <2>3. CASE c <= a /\ c <= b
    BY <2>3
  <2> QED
    BY <2>1, <2>2, <2>3
<1>2. Min(S) \in S /\ \A y \in S : Min(S) <= y
  BY <1>1 DEF Min
<1> QED
  BY <1>2

\* A sequence cut in two is the same sequence.
LEMMA CutInTwo ==
  ASSUME NEW s \in Seq(Nat), NEW k \in 0..Len(s)
  PROVE  /\ SubSeq(s, 1, k) \in Seq(Nat)
         /\ Len(SubSeq(s, 1, k)) = k
         /\ SubSeq(s, k + 1, Len(s)) \in Seq(Nat)
         /\ Len(SubSeq(s, k + 1, Len(s))) = Len(s) - k
         /\ SubSeq(s, 1, k) \o SubSeq(s, k + 1, Len(s)) = s
<1>1. \A i \in 1..Len(s) : s[i] \in Nat
  BY ElementOfSeq
<1>2. Len(s) \in Nat /\ k \in Int /\ k + 1 \in Int
  BY LenProperties
<1>3. /\ SubSeq(s, 1, k) \in Seq(Nat)
      /\ Len(SubSeq(s, 1, k)) = k
  BY <1>1, <1>2, SubSeqProperties
<1>4. /\ SubSeq(s, k + 1, Len(s)) \in Seq(Nat)
      /\ Len(SubSeq(s, k + 1, Len(s))) = Len(s) - k
  BY <1>1, <1>2, SubSeqProperties
<1>5. SubSeq(s, 1, k) \o SubSeq(s, k + 1, Len(s)) = SubSeq(s, 1, Len(s))
  <2>1. 1 \in 1..Len(s) + 1 /\ k \in 1 - 1..Len(s) /\ Len(s) \in k..Len(s)
    BY <1>2
  <2> QED
    BY <2>1, ConcatAdjacentSubSeq
<1>6. SubSeq(s, 1, Len(s)) = s
  BY SubSeqFull
<1> QED
  BY <1>3, <1>4, <1>5, <1>6, ZenonT(40)

LEMMA RestFacts ==
  ASSUME NEW s \in Seq(Nat), NEW p \in 0..Len(s)
  PROVE  /\ Rest(s, p) \in Seq(Nat) /\ Len(Rest(s, p)) = Len(s) - p
         /\ Rest(s, p) = <<>> <=> p >= Len(s)
         /\ Rest(s, 0) = s
<1>1. Rest(s, p) \in Seq(Nat) /\ Len(Rest(s, p)) = Len(s) - p /\ Len(s) \in Nat
  BY CutInTwo, LenProperties DEF Rest
<1>2. Rest(s, p) = <<>> <=> Len(s) - p = 0
  BY <1>1, EmptySeq
<1>3. Rest(s, 0) = s
  BY SubSeqFull DEF Rest
<1> QED
  BY <1>1, <1>2, <1>3

LEMMA RestOfEmpty == Rest(<<>>, 0) = <<>>
<1>1. <<>> \in Seq(Nat) /\ 0 \in 0..Len(<<>>) /\ 0 >= Len(<<>>)
  BY EmptySeq
<1> QED
  BY <1>1, RestFacts

\* What a fetch takes out of a buffer and what it leaves there.
TakenFrom(s, p, n, c) ==
  /\ c \in Seq(Nat) /\ Len(c) <= n /\ p + Len(c) \in 0..Len(s)
  /\ c = <<>> <=> p >= Len(s)
  /\ Rest(s, p) = c \o Rest(s, p + Len(c))

LEMMA ChunkFacts ==
  ASSUME NEW s \in Seq(Nat), NEW p \in 0..Len(s), NEW n \in Nat \ {0},
         NEW c, c = Chunk(s, p, n)
  PROVE  TakenFrom(s, p, n, c)
<1> DEFINE m == Min({p + n, Len(s)})
<1>1. Len(s) \in Nat /\ \A i \in 1..Len(s) : s[i] \in Nat
  BY LenProperties, ElementOfSeq
<1>2. m = IF p + n <= Len(s) THEN p + n ELSE Len(s)
  <2>1. p + n \in Int /\ Len(s) \in Int
    BY <1>1
  <2> QED
    BY <2>1, MinOfTwo
<1>3. m \in p..Len(s) /\ m <= p + n /\ (m = p <=> p >= Len(s))
  BY <1>1, <1>2
<1>4. c = SubSeq(s, p + 1, m)
  BY DEF Chunk
<1> HIDE DEF m
<1>5. c \in Seq(Nat) /\ Len(c) = m - p
  <2>1. p + 1 \in Int /\ m \in Int /\ \A i \in (p + 1)..m : s[i] \in Nat
    BY <1>1, <1>3
  <2>2. c \in Seq(Nat) /\ Len(c) = IF p + 1 <= m THEN m - (p + 1) + 1 ELSE 0
    BY <1>4, <2>1, SubSeqProperties
  <2> QED
    BY <1>1, <1>3, <2>2
<1>6. p + Len(c) = m
  BY <1>1, <1>3, <1>5
<1>7. Rest(s, p) = c \o Rest(s, m)
  <2>1. p + 1 \in 1..Len(s) + 1 /\ m \in (p + 1) - 1..Len(s) /\ Len(s) \in m..Len(s)
    BY <1>1, <1>3
  <2> QED
    BY <1>4, <2>1, ConcatAdjacentSubSeq DEF Rest
<1>8. c = <<>> <=> Len(c) = 0
  BY <1>5, EmptySeq
<1> QED
  BY <1>1, <1>3, <1>5, <1>6, <1>7, <1>8 DEF TakenFrom

LEMMA ChunkTakes ==
  \A s \in Seq(Nat), n \in Nat \ {0} : \A p \in 0..Len(s) :
    TakenFrom(s, p, n, Chunk(s, p, n))
BY ChunkFacts

-----------------------------------------------------------------------------
(* What a fetch may return *)

LEMMA ToIntIsInt ==
  ASSUME IntLimit \in Nat \ {0}, NEW x \in Int
  PROVE  ToInt(x) \in Int
<1>1. \A M \in Nat \ {0} : \A y \in Int : y % M \in Int
  OBVIOUS
<1>2. PICK M \in Nat \ {0} : M = 2 * IntLimit
  OBVIOUS
<1>3. x % M \in Int
  BY <1>1
<1> QED
  BY <1>2, <1>3 DEF ToInt

\* A number that fits an int is itself.
LEMMA ToIntOfSmall ==
  ASSUME IntLimit \in Nat \ {0}, NEW x \in Int, - IntLimit < x, x < IntLimit
  PROVE  ToInt(x) = x
<1>1. \A M \in Nat \ {0} : \A y \in Int :
        /\ 0 <= y /\ y < M => y % M = y
        /\ - M <= y /\ y < 0 => y % M = y + M
  OBVIOUS
<1>2. PICK M \in Nat \ {0} : M = 2 * IntLimit
  OBVIOUS
<1>3. x % M = IF x >= 0 THEN x ELSE x + M
  <2>1. CASE x >= 0
    BY <1>1, <1>2, <2>1
  <2>2. CASE x < 0
    BY <1>1, <1>2, <2>2
  <2> QED
    BY <2>1, <2>2
<1>4. ToInt(x) = IF x % M < IntLimit THEN x % M ELSE (x % M) - M
  BY <1>2 DEF ToInt
<1> QED
  BY <1>2, <1>3, <1>4

\* The length allows no more than was asked for and no more than is left of it.
\* The conversion to int is harmless if the count is near the length.
LEMMA LimitFacts ==
  ASSUME Counted, NEW n \in Int, n < IntLimit
  PROVE  /\ Limit(n) \in Int
         /\ Near => Limit(n) <= Max({n, 0})
         /\ inlength = NoLength => Limit(n) = Max({n, 0})
         /\ Near /\ inlength # NoLength /\ Limit(n) > 0 => incount + Limit(n) <= inlength
<1> DEFINE asked  == Max({n, 0})
           nbytes == IF inlength < asked THEN inlength ELSE asked
<1>0. PICK x : x = inlength - incount
  OBVIOUS
<1>1. asked = (IF n >= 0 THEN n ELSE 0) /\ IntLimit \in Nat \ {0}
  BY MaxOfTwo, YchannelAssumption
<1>2. asked \in Nat /\ asked < IntLimit
  BY <1>1
<1>3. CASE inlength = NoLength
  BY <1>2, <1>3 DEF Limit
<1>4. CASE inlength # NoLength
  <2>1. inlength \in Nat /\ incount \in Nat /\ x \in Int /\ (Near => x > - IntLimit)
    BY <1>0, <1>1, <1>4, YchannelAssumption DEF Counted, Near
  <2>2. nbytes \in Nat /\ nbytes <= asked /\ nbytes <= inlength
    BY <1>2, <2>1
  <2>3. CASE inlength - nbytes < incount
    <3>1. Limit(n) = ToInt(x)
      BY <1>0, <1>4, <2>3 DEF Limit
    <3>2. x < nbytes
      BY <1>0, <2>1, <2>2, <2>3
    <3>3. x < IntLimit
      BY <1>1, <1>2, <2>1, <2>2, <3>2
    <3>4. Near => ToInt(x) = x
      BY <1>1, <2>1, <3>3, ToIntOfSmall
    <3>5. ToInt(x) \in Int
      BY <1>1, <2>1, ToIntIsInt
    <3> QED
      BY <1>0, <1>2, <1>4, <2>1, <2>2, <3>1, <3>2, <3>4, <3>5
  <2>4. CASE ~ (inlength - nbytes < incount)
    <3>1. Limit(n) = nbytes
      BY <1>4, <2>4 DEF Limit
    <3> QED
      BY <1>2, <1>4, <2>1, <2>2, <2>4, <3>1
  <2> QED
    BY <2>3, <2>4
<1> QED
  BY <1>3, <1>4

\* What an engine gives is the next of its bytes; only a Java stream loses any.
LEMMA ReadFacts ==
  ASSUME Buffers, NEW n \in Int, NEW r \in ReadDirect(n)
  PROVE  /\ r.data \in Seq(Nat)
         /\ n >= 0 => Len(r.data) <= n
         /\ Len(r.data) \in 0..Len(engine)
         /\ r.data = SubSeq(engine, 1, Len(r.data))
         /\ r.ret \in Int /\ (r.ret <= 0 <=> r.data = <<>>)
         /\ kind = "array" => r.ret = 0
         /\ r.used \in 0..Len(engine)
         /\ r.used = Len(r.data) \/ (kind = "java" /\ r.data = <<>> /\ r.used > 0)
<1>1. engine \in Seq(Nat) /\ Len(engine) \in Nat /\ <<>> \in Seq(Nat) /\ Len(<<>>) = 0
  BY LenProperties, EmptySeq DEF Buffers
<1>2. SubSeq(engine, 1, 0) = <<>>
  BY SubSeqEmpty
<1>3. ASSUME r # None, \A k \in 0..Len(engine) : r # Lost(k)
      PROVE  \E k \in 1..Len(engine) : k <= n /\ r = Some(k)
  <2>1. kind # "array" /\ n > 0 /\ r # Negative
    BY <1>1, <1>3 DEF ReadDirect, CallsEngine, Negative
  <2>2. CASE kind = "java"
    <3>1. PICK k \in 1..Min({n, JavaChunk, Len(engine)}) : r = Some(k)
      <4>0. JavaChunk \in Int /\ Len(engine) \in Int
        BY <1>1, YchannelAssumption
      <4>1. Min({n, JavaChunk, Len(engine)}) \in Int
            /\ Min({n, JavaChunk, Len(engine)}) <= Len(engine)
        BY <4>0, MinOfThree
      <4>2. 0..Min({n, JavaChunk, Len(engine)}) \subseteq 0..Len(engine)
        BY <1>1, <4>1
      <4> QED
        BY <1>3, <2>1, <2>2, <4>2 DEF ReadDirect, CallsEngine, JavaResults
    <3>2. JavaChunk \in Int /\ Len(engine) \in Int
      BY <1>1, YchannelAssumption
    <3>3. /\ Min({n, JavaChunk, Len(engine)}) \in Int
          /\ Min({n, JavaChunk, Len(engine)}) <= n
          /\ Min({n, JavaChunk, Len(engine)}) <= Len(engine)
      BY <3>2, MinOfThree
    <3>4. k \in 1..Len(engine) /\ k <= n
      BY <1>1, <3>1, <3>3
    <3> QED
      BY <3>1, <3>4
  <2>3. CASE kind # "java"
    <3>1. PICK k \in 1..Min({n, Len(engine)}) : r = Some(k)
      BY <1>3, <2>1, <2>3 DEF ReadDirect, CallsEngine, EngineResults
    <3>2. k \in 1..Len(engine) /\ k <= n
      BY <1>1, <3>1, MinOfTwo
    <3> QED
      BY <3>1, <3>2
  <2> QED
    BY <2>2, <2>3
<1>4. kind = "array" => r = None
  BY DEF ReadDirect, CallsEngine
<1>5. CASE r = None
  <2>1. r.data = <<>> /\ r.ret = 0 /\ r.used = 0
    BY <1>5 DEF None
  <2> QED
    BY <1>1, <1>2, <2>1
<1>6. CASE r # None /\ \E k \in 0..Len(engine) : r = Lost(k)
  <2>1. PICK k \in 0..Len(engine) : r = Lost(k)
    BY <1>6
  <2>2. r.data = <<>> /\ r.ret = -1 /\ r.used = k
    BY <2>1 DEF Lost
  <2>3. kind # "array"
    BY <1>4, <1>6
  <2>4. kind # "java" => r.used = 0
    <3> SUFFICES ASSUME kind # "java" PROVE r.used = 0
      OBVIOUS
    <3>1. \/ r \in {None, Negative}
          \/ \E i \in 1..Min({n, Len(engine)}) : r = Some(i)
      BY DEF ReadDirect, EngineResults
    <3>2. \A i \in 1..Min({n, Len(engine)}) : Some(i).ret >= 1
      <4>1. Min({n, Len(engine)}) \in Int
        BY <1>1, MinOfTwo
      <4> QED
        BY <4>1 DEF Some
    <3>3. CASE r \in {None, Negative}
      BY <3>3 DEF None, Negative, Lost
    <3>4. CASE \E i \in 1..Min({n, Len(engine)}) : r = Some(i)
      <4>1. r.ret >= 1
        BY <3>2, <3>4
      <4> QED
        BY <2>2, <4>1
    <3> QED
      BY <3>1, <3>3, <3>4
  <2> QED
    BY <1>1, <1>2, <2>2, <2>3, <2>4
<1>7. CASE r # None /\ ~ \E k \in 0..Len(engine) : r = Lost(k)
  <2>1. PICK k \in 1..Len(engine) : k <= n /\ r = Some(k)
    BY <1>3, <1>7
  <2>2. r.ret = k /\ r.data = SubSeq(engine, 1, k) /\ r.used = k
    BY <2>1 DEF Some
  <2>3. k \in 0..Len(engine)
    BY <1>1
  <2>4. r.data \in Seq(Nat) /\ Len(r.data) = k
    BY <1>1, <2>2, <2>3, CutInTwo
  <2>5. r.data # <<>>
    BY <1>1, <2>4
  <2> QED
    BY <1>4, <1>7, <2>1, <2>2, <2>3, <2>4, <2>5
<1> QED
  BY <1>5, <1>6, <1>7

\* The bytes that a Java stream had taken when it threw are gone.
Drops(r) ==
  /\ kind = "java" /\ r.data = <<>>
  /\ \E k \in 1..Len(engine) : engine' = SubSeq(engine, k + 1, Len(engine))

\* Bytes that an engine gave are no longer there.
LEMMA GaveFacts ==
  ASSUME Buffers, NEW n \in Int, NEW r \in ReadDirect(n), Gave(n, r)
  PROVE  /\ engine' \in Seq(Nat)
         /\ engine = r.data \o engine' \/ Drops(r)
         /\ engine = <<>> => engine' = <<>>
         /\ failed' \in BOOLEAN /\ idle' \in BOOLEAN
         /\ pc # "ready" /\ r.data = <<>> /\ engine # <<>> => failed'
<1>1. engine \in Seq(Nat) /\ Len(engine) \in Nat
  BY LenProperties DEF Buffers
<1>2. /\ Len(r.data) \in 0..Len(engine) /\ r.used \in 0..Len(engine)
      /\ r.data = SubSeq(engine, 1, Len(r.data)) /\ r.data \in Seq(Nat)
      /\ r.used = Len(r.data) \/ (kind = "java" /\ r.data = <<>> /\ r.used > 0)
  BY ReadFacts
<1>3. engine' = SubSeq(engine, r.used + 1, Len(engine))
  BY DEF Gave
<1>4. engine' \in Seq(Nat) /\ Len(engine') = Len(engine) - r.used
  BY <1>1, <1>2, <1>3, CutInTwo
<1>5. r.used = Len(r.data) => engine = r.data \o engine'
  BY <1>1, <1>2, <1>3, CutInTwo
<1>6. r.used # Len(r.data) => Drops(r)
  <2>1. r.used > 0 => r.used \in 1..Len(engine)
    BY <1>1, <1>2
  <2> QED
    BY <1>2, <1>3, <2>1 DEF Drops
<1>7. engine = <<>> => engine' = <<>>
  <2>1. engine = <<>> => Len(engine') = 0
    BY <1>1, <1>2, <1>4, EmptySeq
  <2> QED
    BY <1>4, <2>1, EmptySeq
<1>8. idle' \in BOOLEAN
  <2>1. idle \in BOOLEAN /\ idle' \in (IF CallsEngine(n) THEN BOOLEAN ELSE {idle})
    BY DEF Gave, Buffers
  <2> QED
    BY <2>1
<1>9. failed' \in BOOLEAN /\ (pc # "ready" /\ r.data = <<>> /\ engine # <<>> => failed')
  BY DEF Gave
<1> QED
  BY <1>4, <1>5, <1>6, <1>7, <1>8, <1>9

-----------------------------------------------------------------------------
(* The effect of a fetch *)

Pushed == Rest(pbuf, ppos)
Source == Rest(hbuf, hpos) \o Rest(rbuf, rpos) \o engine

\* The bytes c were the next of the stream: those pushed back, if there are any.
Taken(c) ==
  \/ Pushed = c \o Pushed' /\ Source' = Source
  \/ Pushed = <<>> /\ Pushed' = <<>> /\ Source = c \o Source'

\* A Java stream threw, and the next bytes of its stream are gone.
Dropped(c) ==
  /\ kind = "java" /\ c = <<>>
  /\ Pushed = <<>> /\ Pushed' = <<>>
  /\ \E k \in 1..Len(Source) : Source' = SubSeq(Source, k + 1, Len(Source))

StreamOfBytes == Pushed \in Seq(Nat) /\ Source \in Seq(Nat)

LEMMA StreamFacts == Buffers => StreamOfBytes
<1> SUFFICES ASSUME Buffers PROVE StreamOfBytes
  OBVIOUS
<1>1. Rest(pbuf, ppos) \in Seq(Nat) /\ Rest(hbuf, hpos) \in Seq(Nat)
  BY RestFacts DEF Buffers
<1>2. Rest(rbuf, rpos) \in Seq(Nat) /\ engine \in Seq(Nat)
  BY RestFacts DEF Buffers
<1>3. Rest(hbuf, hpos) \o Rest(rbuf, rpos) \in Seq(Nat)
  BY <1>1, <1>2, ConcatProperties
<1>4. (Rest(hbuf, hpos) \o Rest(rbuf, rpos)) \o engine \in Seq(Nat)
  BY <1>2, <1>3, ConcatProperties
<1> QED
  BY <1>1, <1>4 DEF StreamOfBytes, Pushed, Source

LEMMA StreamFactsNext == Buffers' => StreamOfBytes'
BY StreamFacts, PTL

LEMMA Closed == \A s, t \in Seq(Nat) : s \o t \in Seq(Nat)
BY ConcatProperties

LEMMA Assoc == \A s, t, u \in Seq(Nat) : (s \o t) \o u = s \o (t \o u)
BY ConcatAssociative

LEMMA Empty == \A a \in Seq(Nat) : a \o <<>> = a /\ <<>> \o a = a
BY ConcatEmptySeq

\* Bytes taken from the front of the header, of the prefetch buffer or of what an
\* engine just gave leave the others in their order.
LEMMA HeaderSplits ==
  \A w, z \in Seq(Nat) : \A x, y \in Seq(Nat) :
    ((w \o x) \o y) \o z = w \o ((x \o y) \o z)
<1> TAKE w, z \in Seq(Nat)
<1> TAKE x, y \in Seq(Nat)
<1>1. x \o y \in Seq(Nat)
  BY Closed, Zenon
<1>2. (w \o x) \o y = w \o (x \o y)
  BY Assoc, Zenon
<1>3. (w \o (x \o y)) \o z = w \o ((x \o y) \o z)
  <2>1. \A t \in Seq(Nat) : (w \o t) \o z = w \o (t \o z)
    BY Assoc, Zenon
  <2> QED
    BY <1>1, <2>1, Zenon
<1> QED
  BY <1>2, <1>3, Zenon

LEMMA BufferSplits ==
  \A w, z \in Seq(Nat) : \A y \in Seq(Nat) :
    (<<>> \o (w \o y)) \o z = w \o ((<<>> \o y) \o z)
<1> TAKE w, z \in Seq(Nat)
<1> TAKE y \in Seq(Nat)
<1>1. w \o y \in Seq(Nat)
  BY Closed, Zenon
<1>2. (w \o y) \o z = w \o (y \o z)
  BY Assoc, Zenon
<1>3. <<>> \o y = y /\ <<>> \o (w \o y) = w \o y
  BY <1>1, Empty, Zenon
<1> QED
  BY <1>2, <1>3, Zenon

LEMMA EngineSplits ==
  \A w, z \in Seq(Nat) : \A y \in Seq(Nat) :
    (<<>> \o <<>>) \o ((w \o y) \o z) = w \o ((<<>> \o y) \o z)
<1> TAKE w, z \in Seq(Nat)
<1> TAKE y \in Seq(Nat)
<1>1. w \o y \in Seq(Nat)
  BY Closed, Zenon
<1>2. (w \o y) \o z \in Seq(Nat)
  BY <1>1, Closed, Zenon
<1>3. (w \o y) \o z = w \o (y \o z)
  BY Assoc, Zenon
<1>4. <<>> \o y = y /\ <<>> \o <<>> = <<>>
  BY Empty, EmptySeq, Zenon
<1>5. <<>> \o ((w \o y) \o z) = (w \o y) \o z
  BY <1>2, Empty, Zenon
<1> QED
  BY <1>3, <1>4, <1>5, Zenon

\* What a fetch of up to n bytes does when it returns the chunk c.
FetchEffect(n, doread, c) ==
  /\ Buffers' /\ (Taken(c) \/ Dropped(c))
  /\ c \in Seq(Nat) /\ (Near => Len(c) <= Max({n, 0}))
  /\ incount' = incount + Len(c)
  /\ Near /\ c # <<>> /\ inlength # NoLength => incount' <= inlength
  /\ c = <<>> /\ UsedUp => UsedUp'
  /\ (c = <<>> /\ doread /\ pc # "ready" /\ n > 0 /\ inlength = NoLength
        => failed' \/ (Pushed' = <<>> /\ Source' = <<>>))

LEMMA PushedEffect ==
  ASSUME Buffers, UNCHANGED kind, NEW n \in Nat \ {0}, NEW c, FetchPushed(n, c)
  PROVE  Buffers' /\ Taken(c) /\ c \in Seq(Nat) /\ Len(c) <= n /\ c # <<>>
<1>1. /\ ppos < Len(pbuf) /\ c = Chunk(pbuf, ppos, n) /\ ppos' = ppos + Len(c)
      /\ UNCHANGED <<pbuf, hbuf, hpos, rbuf, rpos, rsize, engine, idle, failed,
                 terminated, threw>>
  BY DEF FetchPushed
<1>2. pbuf \in Seq(Nat) /\ ppos \in 0..Len(pbuf) /\ Len(pbuf) \in Nat
  BY LenProperties DEF Buffers
<1>3. /\ c \in Seq(Nat) /\ Len(c) <= n /\ ppos' \in 0..Len(pbuf) /\ c # <<>>
      /\ Rest(pbuf, ppos) = c \o Rest(pbuf, ppos')
  <2>1. \A p \in 0..Len(pbuf) : TakenFrom(pbuf, p, n, Chunk(pbuf, p, n))
    BY <1>2, ChunkTakes
  <2>2. TakenFrom(pbuf, ppos, n, c)
    BY <1>1, <1>2, <2>1
  <2> QED
    BY <1>1, <1>2, <2>2 DEF TakenFrom
<1>4. Buffers'
  BY <1>1, <1>3 DEF Buffers
<1>5. Taken(c)
  BY <1>1, <1>3 DEF Taken, Pushed, Source
<1> QED
  BY <1>3, <1>4, <1>5

LEMMA HeaderEffect ==
  ASSUME Buffers, UNCHANGED kind, NEW n \in Nat \ {0}, NEW c, FetchHeader(n, c)
  PROVE  Buffers' /\ Taken(c) /\ c \in Seq(Nat) /\ Len(c) <= n /\ c # <<>>
<1>1. /\ ppos >= Len(pbuf)
      /\ hpos < Len(hbuf) /\ c = Chunk(hbuf, hpos, n) /\ hpos' = hpos + Len(c)
      /\ UNCHANGED <<pbuf, ppos, hbuf, rbuf, rpos, rsize, engine, idle, failed,
                 terminated, threw>>
  BY DEF FetchHeader
<1>2. /\ hbuf \in Seq(Nat) /\ hpos \in 0..Len(hbuf) /\ Len(hbuf) \in Nat
      /\ pbuf \in Seq(Nat) /\ ppos \in 0..Len(pbuf)
      /\ Rest(rbuf, rpos) \in Seq(Nat) /\ engine \in Seq(Nat)
  BY LenProperties, RestFacts DEF Buffers
<1>3. /\ c \in Seq(Nat) /\ Len(c) <= n /\ hpos' \in 0..Len(hbuf) /\ c # <<>>
      /\ Rest(hbuf, hpos) = c \o Rest(hbuf, hpos')
  <2>1. \A p \in 0..Len(hbuf) : TakenFrom(hbuf, p, n, Chunk(hbuf, p, n))
    BY <1>2, ChunkTakes
  <2>2. TakenFrom(hbuf, hpos, n, c)
    BY <1>1, <1>2, <2>1
  <2> QED
    BY <1>1, <1>2, <2>2 DEF TakenFrom
<1>4. Buffers'
  BY <1>1, <1>3 DEF Buffers
<1>5. Rest(hbuf, hpos') \in Seq(Nat) /\ Rest(pbuf, ppos) = <<>>
  BY <1>1, <1>2, <1>3, RestFacts
<1>6. Source = c \o Source'
  <2>1. Source = ((c \o Rest(hbuf, hpos')) \o Rest(rbuf, rpos)) \o engine
    BY <1>3, Zenon DEF Source
  <2>2. Source' = (Rest(hbuf, hpos') \o Rest(rbuf, rpos)) \o engine
    BY <1>1 DEF Source
  <2>3. \A x, y \in Seq(Nat) : ((c \o x) \o y) \o engine = c \o ((x \o y) \o engine)
    BY <1>2, <1>3, HeaderSplits, Zenon
  <2>4. ((c \o Rest(hbuf, hpos')) \o Rest(rbuf, rpos)) \o engine
          = c \o ((Rest(hbuf, hpos') \o Rest(rbuf, rpos)) \o engine)
    BY <1>2, <1>5, <2>3, Zenon
  <2> QED
    BY <2>1, <2>2, <2>4, Zenon
<1>7. Taken(c)
  BY <1>1, <1>5, <1>6 DEF Taken, Pushed
<1> QED
  BY <1>3, <1>4, <1>7

LEMMA BufferedEffect ==
  ASSUME Buffers, UNCHANGED kind, NEW n \in Nat \ {0}, NEW c, FetchBuffered(n, c)
  PROVE  Buffers' /\ Taken(c) /\ c \in Seq(Nat) /\ Len(c) <= n /\ c # <<>>
<1>1. /\ ppos >= Len(pbuf) /\ hpos >= Len(hbuf)
      /\ rpos < Len(rbuf) /\ c = Chunk(rbuf, rpos, n) /\ rpos' = rpos + Len(c)
      /\ UNCHANGED <<pbuf, ppos, hbuf, hpos, rbuf, rsize, engine, idle, failed,
                 terminated, threw>>
  BY DEF FetchBuffered
<1>2. /\ hbuf \in Seq(Nat) /\ hpos \in 0..Len(hbuf)
      /\ pbuf \in Seq(Nat) /\ ppos \in 0..Len(pbuf)
      /\ rbuf \in Seq(Nat) /\ rpos \in 0..Len(rbuf) /\ Len(rbuf) \in Nat
      /\ engine \in Seq(Nat)
  BY LenProperties DEF Buffers
<1>3. /\ c \in Seq(Nat) /\ Len(c) <= n /\ rpos' \in 0..Len(rbuf) /\ c # <<>>
      /\ Rest(rbuf, rpos) = c \o Rest(rbuf, rpos')
  <2>1. \A p \in 0..Len(rbuf) : TakenFrom(rbuf, p, n, Chunk(rbuf, p, n))
    BY <1>2, ChunkTakes
  <2>2. TakenFrom(rbuf, rpos, n, c)
    BY <1>1, <1>2, <2>1
  <2> QED
    BY <1>1, <1>2, <2>2 DEF TakenFrom
<1>4. Buffers'
  BY <1>1, <1>3 DEF Buffers
<1>5. Rest(rbuf, rpos') \in Seq(Nat) /\ Rest(pbuf, ppos) = <<>> /\ Rest(hbuf, hpos) = <<>>
  BY <1>1, <1>2, <1>3, RestFacts
<1>6. Source = c \o Source'
  <2>1. Source = (<<>> \o (c \o Rest(rbuf, rpos'))) \o engine
    BY <1>3, <1>5, Zenon DEF Source
  <2>2. Source' = (<<>> \o Rest(rbuf, rpos')) \o engine
    BY <1>1, <1>5 DEF Source
  <2>3. \A y \in Seq(Nat) : (<<>> \o (c \o y)) \o engine = c \o ((<<>> \o y) \o engine)
    BY <1>2, <1>3, BufferSplits, Zenon
  <2>4. (<<>> \o (c \o Rest(rbuf, rpos'))) \o engine
          = c \o ((<<>> \o Rest(rbuf, rpos')) \o engine)
    BY <1>5, <2>3, Zenon
  <2> QED
    BY <2>1, <2>2, <2>4, Zenon
<1>7. Taken(c)
  BY <1>1, <1>5, <1>6 DEF Taken, Pushed
<1> QED
  BY <1>3, <1>4, <1>7

\* What the engine gives when the buffers are used up goes through the prefetch
\* buffer.
LEMMA GivenFacts ==
  ASSUME Buffers, NEW doread \in BOOLEAN, NEW n \in Nat,
         NEW r \in IF doread THEN ReadDirect(n) ELSE {None},
         IF doread THEN Gave(n, r) ELSE GaveNothing
  PROVE  /\ r.data \in Seq(Nat) /\ Len(r.data) <= n
         /\ r.ret \in Int /\ (r.ret <= 0 <=> r.data = <<>>)
         /\ kind = "array" => r.ret = 0
         /\ engine' \in Seq(Nat)
         /\ engine = r.data \o engine' \/ Drops(r)
         /\ engine = <<>> => engine' = <<>>
         /\ failed' \in BOOLEAN /\ idle' \in BOOLEAN
         /\ doread /\ pc # "ready" /\ r.data = <<>> /\ engine # <<>> => failed'
<1>1. CASE doread
  <2>1. r \in ReadDirect(n) /\ Gave(n, r) /\ n \in Int
    BY <1>1
  <2> QED
    BY <2>1, ReadFacts, GaveFacts
<1>2. CASE ~ doread
  <2>1. r = None /\ engine' = engine /\ failed' = failed /\ idle' = idle
    BY <1>2 DEF GaveNothing
  <2>2. r.data = <<>> /\ r.ret = 0
    BY <2>1 DEF None
  <2>3. engine \in Seq(Nat) /\ failed \in BOOLEAN /\ idle \in BOOLEAN
    BY DEF Buffers
  <2>4. <<>> \in Seq(Nat) /\ Len(<<>>) = 0 /\ engine = <<>> \o engine
    BY <2>3, EmptySeq, Empty, Zenon
  <2> QED
    BY <1>2, <2>1, <2>2, <2>3, <2>4
<1> QED
  BY <1>1, <1>2

LEMMA RefilledEffect ==
  ASSUME Buffers, UNCHANGED kind, NEW n \in Nat \ {0}, NEW doread \in BOOLEAN, NEW c,
         FetchRefilled(n, doread, c)
  PROVE  /\ Buffers' /\ (Taken(c) \/ Dropped(c)) /\ c \in Seq(Nat) /\ Len(c) <= n
         /\ c = <<>> => UsedUp'
         /\ c = <<>> /\ doread /\ pc # "ready"
              => failed' \/ (Pushed' = <<>> /\ Source' = <<>>)
<1>1. /\ ppos >= Len(pbuf) /\ hpos >= Len(hbuf) /\ rpos >= Len(rbuf)
      /\ rsize' \in {rsize, BufSize, 0}
      /\ UNCHANGED <<pbuf, ppos, hbuf, hpos>>
  BY DEF FetchRefilled
<1>2. PICK r \in IF doread THEN ReadDirect(rsize') ELSE {None} :
        /\ c = Chunk(r.data, 0, n)
        /\ IF doread THEN Gave(rsize', r) ELSE GaveNothing
        /\ terminated' = (terminated \/ r.ret < 0)
        /\ threw' = (threw \/ (r.ret < 0 /\ engine # <<>>))
        /\ rbuf' = r.data
        /\ rpos' = Len(c)
  BY DEF FetchRefilled
<1>3. /\ hbuf \in Seq(Nat) /\ hpos \in 0..Len(hbuf)
      /\ pbuf \in Seq(Nat) /\ ppos \in 0..Len(pbuf)
      /\ rbuf \in Seq(Nat) /\ rpos \in 0..Len(rbuf)
      /\ rsize' \in {0, BufSize} /\ rsize' \in Nat
  BY <1>1, YchannelAssumption DEF Buffers
<1>4. /\ r.data \in Seq(Nat) /\ Len(r.data) <= rsize'
      /\ r.ret \in Int /\ (r.ret <= 0 <=> r.data = <<>>)
      /\ kind = "array" => r.ret = 0
      /\ engine' \in Seq(Nat)
      /\ engine = r.data \o engine' \/ Drops(r)
      /\ engine = <<>> => engine' = <<>>
      /\ failed' \in BOOLEAN /\ idle' \in BOOLEAN
      /\ doread /\ pc # "ready" /\ r.data = <<>> /\ engine # <<>> => failed'
  <2>1. IF doread THEN Gave(rsize', r) ELSE GaveNothing
    BY <1>2
  <2> QED
    BY <1>2, <1>3, <2>1, GivenFacts
<1>5. /\ c \in Seq(Nat) /\ Len(c) <= n /\ rpos' \in 0..Len(rbuf')
      /\ c = <<>> <=> r.data = <<>>
      /\ r.data = c \o Rest(rbuf', rpos')
  <2>1. \A p \in 0..Len(r.data) : TakenFrom(r.data, p, n, Chunk(r.data, p, n))
    BY <1>4, ChunkTakes
  <2>2. Len(r.data) \in Nat /\ 0 \in 0..Len(r.data) /\ (r.data = <<>> <=> 0 >= Len(r.data))
    BY <1>4, LenProperties, EmptySeq
  <2>3. TakenFrom(r.data, 0, n, c)
    BY <1>2, <2>1, <2>2
  <2>4. Len(c) \in Nat /\ 0 + Len(c) = Len(c)
    BY <2>3, LenProperties DEF TakenFrom
  <2>5. Rest(r.data, 0) = r.data
    BY <1>4, <2>2, RestFacts
  <2>6. c \in Seq(Nat) /\ Len(c) <= n /\ Len(c) \in 0..Len(r.data) /\ (c = <<>> <=> r.data = <<>>)
    BY <2>2, <2>3, <2>4 DEF TakenFrom
  <2>7. r.data = c \o Rest(r.data, Len(c))
    BY <2>3, <2>4, <2>5 DEF TakenFrom
  <2> QED
    BY <1>2, <2>6, <2>7
<1>6. Buffers'
  <2>1. kind' = "array" => rbuf' = <<>> /\ engine' = <<>>
    BY <1>2, <1>4 DEF Buffers
  <2>2. terminated' => engine' = <<>> \/ threw'
    BY <1>2, <1>4 DEF Buffers
  <2>3. terminated' \in BOOLEAN /\ threw' \in BOOLEAN
    BY <1>2 DEF Buffers
  <2> QED
    BY <1>1, <1>2, <1>3, <1>4, <1>5, <2>1, <2>2, <2>3 DEF Buffers
<1>7. /\ Rest(pbuf, ppos) = <<>> /\ Rest(hbuf, hpos) = <<>> /\ Rest(rbuf, rpos) = <<>>
      /\ Pushed' = <<>>
  BY <1>1, <1>3, RestFacts DEF Pushed
<1>8. Rest(rbuf', rpos') \in Seq(Nat)
  BY <1>6, RestFacts DEF Buffers
<1>9. ASSUME engine = r.data \o engine' PROVE Source = c \o Source'
  <2>1. Source = (<<>> \o <<>>) \o ((c \o Rest(rbuf', rpos')) \o engine')
    BY <1>5, <1>7, <1>9, Zenon DEF Source
  <2>2. Source' = (<<>> \o Rest(rbuf', rpos')) \o engine'
    BY <1>1, <1>7, Zenon DEF Source
  <2>3. \A y \in Seq(Nat) : (<<>> \o <<>>) \o ((c \o y) \o engine')
                              = c \o ((<<>> \o y) \o engine')
    BY <1>4, <1>5, EngineSplits, Zenon
  <2>4. (<<>> \o <<>>) \o ((c \o Rest(rbuf', rpos')) \o engine')
          = c \o ((<<>> \o Rest(rbuf', rpos')) \o engine')
    BY <1>8, <2>3, Zenon
  <2> QED
    BY <2>1, <2>2, <2>4, Zenon
<1>10. Taken(c) \/ Dropped(c)
  <2>1. CASE engine = r.data \o engine'
    BY <1>7, <1>9, <2>1 DEF Taken, Pushed
  <2>2. CASE Drops(r)
    <3>1. kind = "java" /\ r.data = <<>> /\ c = <<>> /\ engine \in Seq(Nat)
      BY <1>5, <2>2 DEF Drops, Buffers
    <3>2. rbuf' = <<>> /\ rpos' = 0
      BY <1>2, <3>1, EmptySeq
    <3>3. Source = (<<>> \o <<>>) \o engine /\ Source' = (<<>> \o Rest(<<>>, 0)) \o engine'
      BY <1>1, <1>7, <3>2, Zenon DEF Source
    <3>4. <<>> \o <<>> = <<>> /\ <<>> \o engine = engine /\ <<>> \o engine' = engine'
      BY <1>4, <3>1, Empty, EmptySeq, Zenon
    <3>5. Source = engine /\ Source' = engine'
      BY <3>3, <3>4, RestOfEmpty, Zenon
    <3> QED
      BY <1>7, <2>2, <3>1, <3>5, Zenon DEF Dropped, Drops, Pushed
  <2> QED
    BY <1>4, <2>1, <2>2
<1>11. ASSUME c = <<>> PROVE UsedUp'
  <2>1. rbuf' = <<>> /\ Len(rbuf') = 0
    BY <1>2, <1>5, <1>11, EmptySeq
  <2> QED
    BY <1>1, <1>5, <2>1 DEF UsedUp
<1>12. ASSUME c = <<>>, doread, pc # "ready", ~ failed' PROVE Source' = <<>>
  <2>1. r.data = <<>> /\ engine' = <<>>
    BY <1>4, <1>5, <1>12
  <2>2. Rest(rbuf', rpos') = <<>> /\ Rest(hbuf', hpos') = <<>>
    <3>1. Rest(rbuf', rpos') = <<>>
      BY <1>6, <1>11, <1>12, RestFacts DEF Buffers, UsedUp
    <3> QED
      BY <1>1, <1>7, <3>1
  <2>3. <<>> \o <<>> = <<>>
    BY Empty, EmptySeq, Zenon
  <2>4. Source' = (<<>> \o <<>>) \o <<>>
    BY <2>1, <2>2, Zenon DEF Source
  <2> QED
    BY <2>3, <2>4, Zenon
<1> QED
  BY <1>5, <1>6, <1>7, <1>10, <1>11, <1>12

LEMMA FetchEffectHolds ==
  ASSUME Buffers, Counted, UNCHANGED kind, NEW n \in Int, n < IntLimit,
         NEW doread \in BOOLEAN, NEW c, FetchData(n, doread, c)
  PROVE  FetchEffect(n, doread, c)
<1>1. /\ Limit(n) \in Int /\ (Near => Limit(n) <= Max({n, 0}))
      /\ inlength = NoLength => Limit(n) = Max({n, 0})
      /\ Near /\ inlength # NoLength /\ Limit(n) > 0 => incount + Limit(n) <= inlength
  BY LimitFacts
<1>2. Max({n, 0}) = (IF n >= 0 THEN n ELSE 0) /\ Max({n, 0}) \in Nat
  BY MaxOfTwo
<1>3. incount' = incount + Len(c) /\ incount \in Nat
  BY DEF FetchData, Counted
<1>4. CASE Limit(n) <= 0
  <2>1. c = <<>> /\ UNCHANGED <<bufVars, rsize, engine, idle, failed, terminated, threw>>
    BY <1>1, <1>4 DEF FetchData
  <2>2. Buffers'
    BY <2>1 DEF Buffers, bufVars
  <2>3. Pushed' = Pushed /\ Source' = Source /\ (UsedUp => UsedUp')
    BY <2>1 DEF Pushed, Source, UsedUp, bufVars
  <2>4. Taken(c)
    <3>1. Pushed \in Seq(Nat)
      BY StreamFacts DEF StreamOfBytes
    <3>2. <<>> \o Pushed = Pushed
      BY <3>1, Empty, Zenon
    <3> QED
      BY <2>1, <2>3, <3>2 DEF Taken
  <2>5. ~ (n > 0 /\ inlength = NoLength)
    BY <1>1, <1>2, <1>4
  <2>6. c \in Seq(Nat) /\ Len(c) = 0
    BY <2>1, EmptySeq
  <2> QED
    BY <1>2, <1>3, <2>1, <2>2, <2>3, <2>4, <2>5, <2>6 DEF FetchEffect
<1>5. CASE Limit(n) > 0
  <2>1. PICK m \in Nat \ {0} : m = Limit(n)
    BY <1>1, <1>5
  <2>2. \/ FetchPushed(m, c) \/ FetchHeader(m, c) \/ FetchBuffered(m, c)
        \/ FetchRefilled(m, doread, c)
    BY <1>5, <2>1 DEF FetchData
  <2>3. /\ Buffers' /\ (Taken(c) \/ Dropped(c)) /\ c \in Seq(Nat) /\ Len(c) <= m
        /\ c = <<>> => UsedUp'
        /\ c = <<>> /\ doread /\ pc # "ready"
             => failed' \/ (Pushed' = <<>> /\ Source' = <<>>)
    <3>1. CASE FetchPushed(m, c)
      BY <3>1, PushedEffect
    <3>2. CASE FetchHeader(m, c)
      BY <3>2, HeaderEffect
    <3>3. CASE FetchBuffered(m, c)
      BY <3>3, BufferedEffect
    <3>4. CASE FetchRefilled(m, doread, c)
      BY <3>4, RefilledEffect
    <3> QED
      BY <2>2, <3>1, <3>2, <3>3, <3>4
  <2>4. Len(c) \in Nat /\ (Near => Len(c) <= Max({n, 0}))
    BY <1>1, <1>2, <2>1, <2>3, LenProperties
  <2>5. Near /\ inlength # NoLength => incount' <= inlength
    <3>1. CASE Near /\ inlength # NoLength
      <4>1. inlength \in Int
        BY <3>1, YchannelAssumption DEF Counted
      <4> QED
        BY <1>1, <1>3, <1>5, <2>1, <2>3, <2>4, <3>1, <4>1
    <3> QED
      BY <3>1
  <2> QED
    BY <1>3, <2>3, <2>4, <2>5 DEF FetchEffect
<1> QED
  BY <1>1, <1>4, <1>5

-----------------------------------------------------------------------------
(* Every step keeps the invariant *)

\* What is fetched leaves the count a number.
LEMMA FetchKeepsCount ==
  ASSUME Counted, UNCHANGED <<kind, inlength>>, NEW n, NEW doread, NEW c,
         FetchEffect(n, doread, c)
  PROVE  Counted'
<1>1. incount' = incount + Len(c) /\ Len(c) \in Nat /\ incount \in Nat
  BY LenProperties DEF FetchEffect, Counted
<1>2. incount' \in Nat
  BY <1>1
<1> QED
  BY <1>2 DEF Counted

LEMMA CopiedKeeps ==
  ASSUME Reading, pc \in {"drain", "direct", "fetch"}, NEW c \in Seq(Nat), Copied(c), dest' = dest, pc = "direct" => UsedUp'
  PROVE  Reading'
<1>1. Len(c) \in Nat /\ toread \in Int /\ toread < IntLimit /\ toread > 0
  BY LenProperties DEF Reading
<1>2. /\ out' = out \o c /\ toread' = toread - Len(c)
      /\ pc' = IF toread <= Len(c) THEN "ready" ELSE pc
  BY DEF Copied
<1>3. out' \in Seq(Nat)
  BY <1>2, Closed DEF Reading
<1>4. /\ toread' \in Int /\ toread' <= toread
      /\ ~ (toread <= Len(c)) => toread' > 0
  BY <1>1, <1>2
<1>5. toread' < IntLimit
  BY <1>1, <1>4, YchannelAssumption
<1> QED
  BY <1>2, <1>3, <1>4, <1>5 DEF Reading

LEMMA YchannelFetchKeeps ==
  ASSUME CInv, NEW n \in Requests, YchannelFetch(n)
  PROVE  CInv'
<1>1. PICK c \in Chunks : FetchData(n, TRUE, c) /\ out' = c
  BY DEF YchannelFetch
<1>2. n \in Int /\ n < IntLimit
  BY YchannelAssumption
<1>3. UNCHANGED <<kind, inlength, readVars>> /\ pc = "ready"
  BY DEF YchannelFetch
<1>4. FetchEffect(n, TRUE, c)
  BY <1>1, <1>2, <1>3, FetchEffectHolds DEF CInv
<1>5. Counted'
  BY <1>3, <1>4, FetchKeepsCount DEF CInv
<1>6. Reading'
  BY <1>1, <1>3, <1>4 DEF CInv, Reading, readVars, FetchEffect
<1> QED
  BY <1>4, <1>5, <1>6 DEF CInv, FetchEffect

LEMMA YchannelReadKeeps ==
  ASSUME CInv, NEW n \in Requests, NEW d \in Destinations, YchannelRead(n, d)
  PROVE  CInv'
<1>1. n \in Int /\ n < IntLimit /\ IntLimit \in Nat \ {0} /\ d \in {"buffer", "null"}
  BY YchannelAssumption
<1>2. Max({n, 0}) = IF n >= 0 THEN n ELSE 0
  BY <1>1, MaxOfTwo
<1>3. Buffers'
  BY DEF CInv, Buffers, YchannelRead, bufVars
<1>4. Counted'
  BY DEF CInv, Counted, YchannelRead
<1>5. Reading'
  <2>1. /\ toread' = Max({n, 0}) /\ dest' = d /\ out' = <<>>
        /\ pc' = IF n <= 0 THEN "ready" ELSE "drain"
    BY DEF YchannelRead
  <2>2. <<>> \in Seq(Nat)
    BY EmptySeq
  <2>3. toread' \in Int /\ toread' < IntLimit /\ (pc' # "ready" => toread' > 0)
    BY <1>1, <1>2, <2>1
  <2> QED
    BY <1>1, <2>1, <2>2, <2>3 DEF Reading
<1> QED
  BY <1>3, <1>4, <1>5 DEF CInv

\* The request of a read that goes on.
LEMMA ToreadFacts ==
  ASSUME Reading, pc \in {"drain", "direct", "fetch"}
  PROVE  toread \in Int /\ toread > 0 /\ toread < IntLimit /\ Max({toread, 0}) = toread
<1>1. toread \in Int /\ toread > 0 /\ toread < IntLimit
  BY DEF Reading
<1>2. toread \in Int /\ 0 \in Int /\ toread >= 0
  BY <1>1
<1> QED
  BY <1>1, <1>2, MaxOfTwo

LEMMA ReadDrainKeeps ==
  ASSUME CInv, ReadDrain
  PROVE  CInv'
<1>1. PICK c \in Chunks :
        /\ FetchData(toread, FALSE, c)
        /\ IF c = <<>>
           THEN /\ pc' = IF directio THEN "direct" ELSE "fetch"
                /\ UNCHANGED <<toread, out>>
           ELSE Copied(c)
  BY DEF ReadDrain
<1>2. pc = "drain" /\ UNCHANGED <<kind, inlength, dest>>
  BY DEF ReadDrain
<1>3. toread \in Int /\ toread > 0 /\ toread < IntLimit /\ Max({toread, 0}) = toread
  BY <1>2, ToreadFacts DEF CInv
<1>4. FetchEffect(toread, FALSE, c)
  BY <1>1, <1>2, <1>3, FetchEffectHolds DEF CInv
<1>5. Counted'
  BY <1>2, <1>4, FetchKeepsCount DEF CInv
<1>6. Reading'
  <2>1. CASE c = <<>>
    <3>1. directio => UsedUp'
      BY <1>4, <2>1 DEF directio, UsedUp, FetchEffect
    <3> QED
      BY <1>1, <1>2, <1>3, <2>1, <3>1 DEF CInv, Reading
  <2>2. CASE c # <<>>
    <3>1. c \in Seq(Nat) /\ Copied(c)
      BY <1>1, <1>3, <1>4, <2>2 DEF FetchEffect
    <3> QED
      BY <1>2, <3>1, CopiedKeeps DEF CInv
  <2> QED
    BY <2>1, <2>2
<1> QED
  BY <1>4, <1>5, <1>6 DEF CInv, FetchEffect

LEMMA ReadFromEngineKeeps ==
  ASSUME CInv, ReadFromEngine
  PROVE  CInv'
<1>1. PICK r \in ReadDirect(toread) :
        /\ Gave(toread, r)
        /\ IF r.ret <= 0
           THEN pc' = "fetch" /\ UNCHANGED <<toread, out>>
           ELSE Copied(r.data)
  BY DEF ReadFromEngine
<1>2. /\ pc = "direct"
      /\ UNCHANGED <<kind, bufVars, rsize, inlength, incount, terminated, threw, dest>>
  BY DEF ReadFromEngine
<1>3. toread \in Int /\ toread > 0 /\ toread < IntLimit
  BY <1>2, ToreadFacts DEF CInv
<1>4. r.data \in Seq(Nat) /\ Len(r.data) <= toread
  BY <1>3, ReadFacts DEF CInv
<1>5. /\ engine' \in Seq(Nat) /\ failed' \in BOOLEAN /\ idle' \in BOOLEAN
      /\ (engine = <<>> => engine' = <<>>)
  BY <1>1, <1>3, GaveFacts DEF CInv
<1>6. Buffers'
  BY <1>2, <1>5 DEF CInv, Buffers, bufVars
<1>7. Counted'
  BY <1>2 DEF CInv, Counted
<1>8. Reading'
  <2>1. UsedUp'
    BY <1>2 DEF CInv, Reading, UsedUp, bufVars
  <2>2. CASE r.ret <= 0
    BY <1>1, <1>2, <1>3, <2>2 DEF CInv, Reading
  <2>3. CASE ~ (r.ret <= 0)
    BY <1>1, <1>2, <1>4, <2>1, <2>3, CopiedKeeps DEF CInv
  <2> QED
    BY <2>2, <2>3
<1> QED
  BY <1>6, <1>7, <1>8 DEF CInv

LEMMA ReadFetchKeeps ==
  ASSUME CInv, ReadFetch
  PROVE  CInv'
<1>1. PICK c \in Chunks :
        /\ FetchData(toread, TRUE, c)
        /\ IF c = <<>>
           THEN pc' = "ready" /\ UNCHANGED <<toread, out>>
           ELSE Copied(c)
  BY DEF ReadFetch
<1>2. pc = "fetch" /\ UNCHANGED <<kind, inlength, dest>>
  BY DEF ReadFetch
<1>3. toread \in Int /\ toread > 0 /\ toread < IntLimit /\ Max({toread, 0}) = toread
  BY <1>2, ToreadFacts DEF CInv
<1>4. FetchEffect(toread, TRUE, c)
  BY <1>1, <1>2, <1>3, FetchEffectHolds DEF CInv
<1>5. Counted'
  BY <1>2, <1>4, FetchKeepsCount DEF CInv
<1>6. Reading'
  <2>1. CASE c = <<>>
    BY <1>1, <1>2, <1>3, <2>1 DEF CInv, Reading
  <2>2. CASE c # <<>>
    <3>1. c \in Seq(Nat) /\ Copied(c)
      BY <1>1, <1>3, <1>4, <2>2 DEF FetchEffect
    <3> QED
      BY <1>2, <3>1, CopiedKeeps DEF CInv
  <2> QED
    BY <2>1, <2>2
<1> QED
  BY <1>4, <1>5, <1>6 DEF CInv, FetchEffect

LEMMA YchannelPushKeeps ==
  ASSUME CInv, NEW data \in Pushable, YchannelPush(data)
  PROVE  CInv'
<1>1. /\ pbuf' = data \o Rest(pbuf, ppos) /\ ppos' = 0 /\ out' = <<>>
      /\ incount' = IF Len(data) < incount THEN incount - Len(data) ELSE 0
      /\ UNCHANGED <<kind, hbuf, hpos, rbuf, rpos, rsize, engine, idle, terminated,
                     inlength, readVars, failed, threw>>
  BY DEF YchannelPush
<1>2. data \in Seq(Nat) /\ Len(data) \in Nat
  BY YchannelAssumption, LenProperties
<1>3. pbuf' \in Seq(Nat) /\ ppos' \in 0..Len(pbuf')
  <2>1. Rest(pbuf, ppos) \in Seq(Nat)
    BY RestFacts DEF CInv, Buffers
  <2>2. pbuf' \in Seq(Nat)
    BY <1>1, <1>2, <2>1, Closed
  <2>3. Len(pbuf') \in Nat
    BY <2>2, LenProperties
  <2> QED
    BY <1>1, <2>2, <2>3
<1>4. Buffers'
  BY <1>1, <1>3 DEF CInv, Buffers
<1>5. Counted'
  <2>1. incount \in Nat
    BY DEF CInv, Counted
  <2>2. incount' \in Nat
    BY <1>1, <1>2, <2>1
  <2> QED
    BY <1>1, <2>2 DEF CInv, Counted
<1>6. Reading'
  <2>1. <<>> \in Seq(Nat) /\ pc = "ready"
    BY EmptySeq DEF YchannelPush
  <2> QED
    BY <1>1, <2>1 DEF CInv, Reading, readVars
<1> QED
  BY <1>4, <1>5, <1>6 DEF CInv

LEMMA YchannelSetLengthKeeps ==
  ASSUME CInv, NEW length \in Lengths \cup {NoLength}, YchannelSetLength(length)
  PROVE  CInv'
<1>1. Buffers'
  BY DEF CInv, Buffers, YchannelSetLength, bufVars
<1>2. Counted'
  BY DEF CInv, Counted, YchannelSetLength
<1>3. Reading'
  BY DEF CInv, Reading, YchannelSetLength, readVars
<1> QED
  BY <1>1, <1>2, <1>3 DEF CInv

LEMMA YchannelResetBufferKeeps ==
  ASSUME CInv, YchannelResetBuffer
  PROVE  CInv'
<1>1. <<>> \in Seq(Nat) /\ Len(<<>>) = 0 /\ 0 \in 0..0
  BY EmptySeq
<1>2. Buffers'
  BY <1>1 DEF CInv, Buffers, YchannelResetBuffer
<1>3. Counted'
  BY DEF CInv, Counted, YchannelResetBuffer
<1>4. Reading'
  BY <1>1 DEF CInv, Reading, YchannelResetBuffer, readVars
<1> QED
  BY <1>2, <1>3, <1>4 DEF CInv

LEMMA YchannelReleaseKeeps ==
  ASSUME CInv, YchannelRelease
  PROVE  CInv'
<1>1. <<>> \in Seq(Nat) /\ Len(<<>>) = 0 /\ 0 \in 0..0 /\ 0 <= 0
  BY EmptySeq
<1>2. Buffers'
  BY <1>1 DEF CInv, Buffers, YchannelRelease
<1>3. Counted'
  BY DEF CInv, Counted, YchannelRelease
<1>4. Reading'
  BY <1>1 DEF CInv, Reading, YchannelRelease
<1> QED
  BY <1>2, <1>3, <1>4 DEF CInv

LEMMA ArrivesKeeps ==
  ASSUME CInv, Arrives
  PROVE  CInv'
<1>1. Buffers'
  BY DEF CInv, Buffers, Arrives, bufVars
<1>2. Counted'
  BY DEF CInv, Counted, Arrives
<1>3. Reading'
  BY DEF CInv, Reading, UsedUp, Arrives, readVars, bufVars
<1> QED
  BY <1>1, <1>2, <1>3 DEF CInv

LEMMA CInvNext == CInv /\ [Next]_vars => CInv'
<1> SUFFICES ASSUME CInv, [Next]_vars PROVE CInv'
  OBVIOUS
<1>1. CASE \E n \in Requests : YchannelFetch(n) \/ \E d \in Destinations : YchannelRead(n, d)
  BY <1>1, YchannelFetchKeeps, YchannelReadKeeps
<1>2. CASE ReadDrain
  BY <1>2, ReadDrainKeeps
<1>3. CASE ReadFromEngine
  BY <1>3, ReadFromEngineKeeps
<1>4. CASE ReadFetch
  BY <1>4, ReadFetchKeeps
<1>5. CASE \E data \in Pushable : YchannelPush(data)
  BY <1>5, YchannelPushKeeps
<1>6. CASE \E length \in Lengths \cup {NoLength} : YchannelSetLength(length)
  BY <1>6, YchannelSetLengthKeeps
<1>7. CASE YchannelResetBuffer
  BY <1>7, YchannelResetBufferKeeps
<1>8. CASE YchannelRelease
  BY <1>8, YchannelReleaseKeeps
<1>9. CASE Arrives
  BY <1>9, ArrivesKeeps
<1>10. CASE UNCHANGED vars
  BY <1>10 DEF vars, bufVars, readVars, CInv, Buffers, Counted, Reading, UsedUp
<1> QED
  BY <1>1, <1>2, <1>3, <1>4, <1>5, <1>6, <1>7, <1>8, <1>9, <1>10 DEF Next, FdReadsAgain

LEMMA InitCInv == Init => CInv
<1> SUFFICES ASSUME Init PROVE CInv
  OBVIOUS
<1>1. <<>> \in Seq(Nat) /\ Len(<<>>) = 0 /\ Data \in Seq(Nat) /\ Len(Data) \in Nat
  BY EmptySeq, YchannelAssumption, LenProperties
<1>2. Buffers
  <2>1. /\ pbuf = <<>> /\ ppos = 0 /\ rbuf = <<>> /\ rpos = 0 /\ rsize = 0 /\ hpos = 0
        /\ ~ terminated /\ terminated \in BOOLEAN /\ failed \in BOOLEAN /\ threw \in BOOLEAN
        /\ idle \in BOOLEAN
    BY DEF Init
  <2>2. hbuf \in {Data, <<>>} /\ engine \in {Data, <<>>}
    BY DEF Init
  <2>3. (kind = "array" => engine = <<>>) /\ (kind # "array" => hbuf = <<>>)
    BY DEF Init
  <2>4. hbuf \in Seq(Nat) /\ 0 \in 0..Len(hbuf) /\ engine \in Seq(Nat)
    <3>1. {Data, <<>>} \subseteq Seq(Nat)
      BY <1>1
    <3>2. hbuf \in Seq(Nat) /\ engine \in Seq(Nat)
      BY <2>2, <3>1, Zenon
    <3>3. Len(hbuf) \in Nat
      BY <3>2, LenProperties
    <3> QED
      BY <3>2, <3>3
  <2> QED
    BY <1>1, <2>1, <2>3, <2>4 DEF Buffers
<1>3. Counted
  BY DEF Init, Counted
<1>4. Reading
  BY <1>1, YchannelAssumption DEF Init, Reading
<1> QED
  BY <1>2, <1>3, <1>4 DEF CInv

\* The invariant is one.
THEOREM CInvHolds == Spec => []CInv
BY InitCInv, CInvNext, PTL DEF Spec

-----------------------------------------------------------------------------
(* The end of the file, the length, short reads *)

UnreadSplits == Unread = Pushed \o Source

LEMMA UnreadIs == Buffers => UnreadSplits
<1> SUFFICES ASSUME Buffers PROVE UnreadSplits
  OBVIOUS
<1>1. Rest(pbuf, ppos) \in Seq(Nat) /\ Rest(hbuf, hpos) \in Seq(Nat)
  BY RestFacts DEF Buffers
<1>2. Rest(rbuf, rpos) \in Seq(Nat) /\ engine \in Seq(Nat)
  BY RestFacts DEF Buffers
<1>3. \A x, y \in Seq(Nat) :
        ((Rest(pbuf, ppos) \o x) \o y) \o engine = Rest(pbuf, ppos) \o ((x \o y) \o engine)
  BY <1>1, <1>2, HeaderSplits, Zenon
<1>4. Unread = ((Rest(pbuf, ppos) \o Rest(hbuf, hpos)) \o Rest(rbuf, rpos)) \o engine
  BY DEF Unread
<1>5. Pushed \o Source
        = Rest(pbuf, ppos) \o ((Rest(hbuf, hpos) \o Rest(rbuf, rpos)) \o engine)
  BY DEF Pushed, Source
<1> QED
  BY <1>1, <1>2, <1>3, <1>4, <1>5, Zenon DEF UnreadSplits

LEMMA UnreadIsNext == Buffers' => UnreadSplits'
BY UnreadIs, PTL

LEMMA CInvEof == CInv => EofOnlyAtEnd
<1> SUFFICES ASSUME CInv PROVE EofOnlyAtEnd
  OBVIOUS
<1>1. TypeOK
  BY DEF CInv, Buffers, Counted, Reading, TypeOK
<1>2. ASSUME YchannelEof, ~ threw PROVE Unread = <<>>
  <2>1. engine = <<>>
    BY <1>2 DEF YchannelEof, CInv, Buffers
  <2>2. Rest(pbuf, ppos) = <<>>
    BY <1>2, RestFacts DEF YchannelEof, CInv, Buffers
  <2>3. Rest(hbuf, hpos) = <<>> /\ Rest(rbuf, rpos) = <<>>
    BY <1>2, RestFacts DEF YchannelEof, CInv, Buffers
  <2>4. <<>> \o <<>> = <<>>
    BY Empty, EmptySeq, Zenon
  <2>5. Unread = ((<<>> \o <<>>) \o <<>>) \o <<>>
    BY <2>1, <2>2, <2>3 DEF Unread
  <2> QED
    BY <2>4, <2>5, Zenon
<1> QED
  BY <1>1, <1>2 DEF EofOnlyAtEnd

\* YchannelEof never reports the end while bytes are still to come, whatever was
\* pushed back after the engine had ended, unless a Java stream threw.
THEOREM EofIsTheEnd == Spec => []EofOnlyAtEnd
BY CInvHolds, CInvEof, PTL

\* What a fetch is known to do, in the state of a channel that keeps the invariant.
LEMMA FetchOfRequest ==
  ASSUME CInv, NEW n \in Requests, YchannelFetch(n)
  PROVE  \E c : FetchEffect(n, TRUE, c) /\ out' = c
<1>1. PICK c \in Chunks : FetchData(n, TRUE, c) /\ out' = c
  BY DEF YchannelFetch
<1>2. n \in Int /\ n < IntLimit /\ kind' = kind
  BY YchannelAssumption DEF YchannelFetch
<1>3. FetchEffect(n, TRUE, c)
  BY <1>1, <1>2, FetchEffectHolds DEF CInv
<1> QED
  BY <1>1, <1>3

LEMMA FetchOfDrain ==
  ASSUME CInv, ReadDrain
  PROVE  \E c : /\ FetchEffect(toread, FALSE, c)
                /\ IF c = <<>>
                   THEN /\ pc' = IF directio THEN "direct" ELSE "fetch"
                        /\ UNCHANGED <<toread, out>>
                   ELSE Copied(c)
<1>1. PICK c \in Chunks :
        /\ FetchData(toread, FALSE, c)
        /\ IF c = <<>>
           THEN /\ pc' = IF directio THEN "direct" ELSE "fetch"
                /\ UNCHANGED <<toread, out>>
           ELSE Copied(c)
  BY DEF ReadDrain
<1>2. pc = "drain" /\ kind' = kind
  BY DEF ReadDrain
<1>3. toread \in Int /\ toread < IntLimit
  BY <1>2, ToreadFacts DEF CInv
<1>4. FetchEffect(toread, FALSE, c)
  BY <1>1, <1>2, <1>3, FetchEffectHolds DEF CInv
<1> QED
  BY <1>1, <1>4

LEMMA FetchOfRead ==
  ASSUME CInv, ReadFetch
  PROVE  \E c : /\ FetchEffect(toread, TRUE, c)
                /\ IF c = <<>>
                   THEN pc' = "ready" /\ UNCHANGED <<toread, out>>
                   ELSE Copied(c)
<1>1. PICK c \in Chunks :
        /\ FetchData(toread, TRUE, c)
        /\ IF c = <<>>
           THEN pc' = "ready" /\ UNCHANGED <<toread, out>>
           ELSE Copied(c)
  BY DEF ReadFetch
<1>2. pc = "fetch" /\ kind' = kind
  BY DEF ReadFetch
<1>3. toread \in Int /\ toread < IntLimit
  BY <1>2, ToreadFacts DEF CInv
<1>4. FetchEffect(toread, TRUE, c)
  BY <1>1, <1>2, <1>3, FetchEffectHolds DEF CInv
<1> QED
  BY <1>1, <1>4

\* A step that counts more bytes stays within the length, and a read does not get more
\* than it asked for.
Counts  == Near /\ incount' > incount => inlength = NoLength \/ incount' <= inlength
Enough  == Near /\ pc \in {"drain", "direct", "fetch"} => toread' >= 0
Within  == Counts /\ Enough

LEMMA FetchCounts ==
  ASSUME CInv, NEW n, NEW doread, NEW c, FetchEffect(n, doread, c)
  PROVE  Counts
<1>1. incount' = incount + Len(c) /\ (c = <<>> => Len(c) = 0) /\ incount \in Nat
  BY EmptySeq DEF FetchEffect, CInv, Counted
<1>2. CASE c = <<>>
  BY <1>1, <1>2 DEF Counts
<1>3. CASE c # <<>>
  BY <1>3 DEF Counts, FetchEffect
<1> QED
  BY <1>2, <1>3

\* A chunk is no longer than what is asked for.
LEMMA FetchIsEnough ==
  ASSUME CInv, pc \in {"drain", "direct", "fetch"}, NEW c, c \in Seq(Nat),
         Near => Len(c) <= Max({toread, 0}),
         IF c = <<>> THEN UNCHANGED toread ELSE Copied(c)
  PROVE  Enough
<1>1. toread \in Int /\ toread > 0 /\ Max({toread, 0}) = toread
  BY ToreadFacts DEF CInv
<1>2. Len(c) \in Nat
  BY LenProperties
<1> QED
  BY <1>1, <1>2 DEF Copied, Enough

LEMMA CInvWithin == CInv /\ [Next]_vars => [Within]_vars
<1> SUFFICES ASSUME CInv, Next, ~ UNCHANGED vars PROVE Within
  OBVIOUS
<1>0. incount \in Nat
  BY DEF CInv, Counted
<1>1. CASE \E n \in Requests : YchannelFetch(n) \/ \E d \in Destinations : YchannelRead(n, d)
  <2>1. PICK n \in Requests : YchannelFetch(n) \/ \E d \in Destinations : YchannelRead(n, d)
    BY <1>1
  <2>2. CASE YchannelFetch(n)
    <3>1. PICK c : FetchEffect(n, TRUE, c)
      BY <2>2, FetchOfRequest
    <3>2. Counts
      BY <3>1, FetchCounts
    <3> QED
      BY <2>2, <3>2 DEF YchannelFetch, Within, Enough
  <2>3. CASE \E d \in Destinations : YchannelRead(n, d)
    BY <1>0, <2>3 DEF YchannelRead, Within, Counts, Enough
  <2> QED
    BY <2>1, <2>2, <2>3
<1>2. CASE ReadDrain
  <2>1. PICK c : /\ FetchEffect(toread, FALSE, c)
                 /\ IF c = <<>>
                    THEN /\ pc' = IF directio THEN "direct" ELSE "fetch"
                         /\ UNCHANGED <<toread, out>>
                    ELSE Copied(c)
    BY <1>2, FetchOfDrain
  <2>2. c \in Seq(Nat) /\ (Near => Len(c) <= Max({toread, 0})) /\ pc = "drain"
    BY <1>2, <2>1 DEF FetchEffect, ReadDrain
  <2>3. IF c = <<>> THEN UNCHANGED toread ELSE Copied(c)
    BY <2>1
  <2>4. Enough
    BY <2>2, <2>3, FetchIsEnough
  <2> QED
    BY <2>1, <2>4, FetchCounts DEF Within
<1>3. CASE ReadFromEngine
  <2>1. PICK r \in ReadDirect(toread) :
          IF r.ret <= 0
          THEN pc' = "fetch" /\ UNCHANGED <<toread, out>>
          ELSE Copied(r.data)
    BY <1>3 DEF ReadFromEngine
  <2>2. pc = "direct" /\ incount' = incount
    BY <1>3 DEF ReadFromEngine
  <2>3. toread \in Int /\ toread > 0
    BY <2>2, ToreadFacts DEF CInv
  <2>4. r.data \in Seq(Nat) /\ Len(r.data) <= toread /\ Len(r.data) \in Nat
    BY <2>3, ReadFacts, LenProperties DEF CInv
  <2>5. toread' >= 0
    BY <2>1, <2>3, <2>4 DEF Copied
  <2> QED
    BY <1>0, <2>2, <2>5 DEF Within, Counts, Enough
<1>4. CASE ReadFetch
  <2>1. PICK c : /\ FetchEffect(toread, TRUE, c)
                 /\ IF c = <<>>
                    THEN pc' = "ready" /\ UNCHANGED <<toread, out>>
                    ELSE Copied(c)
    BY <1>4, FetchOfRead
  <2>2. c \in Seq(Nat) /\ (Near => Len(c) <= Max({toread, 0})) /\ pc = "fetch"
    BY <1>4, <2>1 DEF FetchEffect, ReadFetch
  <2>3. IF c = <<>> THEN UNCHANGED toread ELSE Copied(c)
    BY <2>1
  <2>4. Enough
    BY <2>2, <2>3, FetchIsEnough
  <2> QED
    BY <2>1, <2>4, FetchCounts DEF Within
<1>5. CASE \E data \in Pushable : YchannelPush(data)
  <2>1. PICK data \in Pushable : YchannelPush(data)
    BY <1>5
  <2>2. Len(data) \in Nat
    BY YchannelAssumption, LenProperties
  <2>3. incount' = (IF Len(data) < incount THEN incount - Len(data) ELSE 0) /\ pc = "ready"
    BY <2>1 DEF YchannelPush
  <2>4. incount' <= incount
    BY <1>0, <2>2, <2>3
  <2>5. incount' \in Nat
    BY <1>0, <2>2, <2>3
  <2> QED
    BY <1>0, <2>3, <2>4, <2>5 DEF Within, Counts, Enough
<1>6. CASE \E length \in Lengths \cup {NoLength} : YchannelSetLength(length)
  BY <1>0, <1>6 DEF YchannelSetLength, Within, Counts, Enough
<1>7. CASE YchannelResetBuffer
  BY <1>0, <1>7 DEF YchannelResetBuffer, Within, Counts, Enough
<1>8. CASE YchannelRelease
  BY <1>0, <1>8 DEF YchannelRelease, Within, Counts, Enough
<1>9. CASE Arrives
  <2>1. incount' = incount /\ toread' = toread
    BY <1>9 DEF Arrives, readVars
  <2>2. pc \in {"drain", "direct", "fetch"} => toread \in Int /\ toread > 0
    BY ToreadFacts DEF CInv
  <2> QED
    BY <1>0, <2>1, <2>2 DEF Within, Counts, Enough
<1> QED
  BY <1>1, <1>2, <1>3, <1>4, <1>5, <1>6, <1>7, <1>8, <1>9 DEF Next, FdReadsAgain

\* Whatever lengths are set and bytes read and pushed back, in whatever order, what
\* YchannelFetchData counts stays within the length and what YchannelRead gives within
\* the request, while the length is less than an int below the count.
THEOREM CountWithinLength == Spec => CountRespectsLength
<1>1. CInv /\ [Next]_vars =>
        [inlength = NoLength \/ incount - inlength < IntLimit =>
           /\ incount' > incount => inlength = NoLength \/ incount' <= inlength
           /\ pc \in {"drain", "direct", "fetch"} => toread' >= 0]_vars
  BY CInvWithin DEF Within, Counts, Enough, Near
<1> QED
  BY CInvHolds, <1>1, PTL DEF Spec, CountRespectsLength

\* A step that ends a read with less than it was asked for.
Short == pc # "ready" /\ pc' = "ready" /\ toread' > 0 /\ inlength = NoLength
           => failed' \/ Unread' = <<>>

\* A read whose last chunk was copied got all it was asked for.
LEMMA CopiedIsNotShort ==
  ASSUME Reading, pc \in {"drain", "direct", "fetch"}, NEW c \in Seq(Nat), Copied(c)
  PROVE  Short
<1>1. /\ toread \in Int /\ Len(c) \in Nat /\ toread' = toread - Len(c)
      /\ pc' = IF toread <= Len(c) THEN "ready" ELSE pc
  BY LenProperties DEF Reading, Copied
<1>2. pc' = "ready" => ~ (toread' > 0)
  BY <1>1
<1> QED
  BY <1>2 DEF Short

LEMMA CInvShort == CInv /\ [Next]_vars => [Short]_vars
<1> SUFFICES ASSUME CInv, Next PROVE Short
  OBVIOUS
<1>1. CASE pc = "ready"
  BY <1>1 DEF Short
<1>2. CASE ReadDrain
  <2>1. PICK c \in Seq(Nat) : IF c = <<>>
                              THEN /\ pc' = IF directio THEN "direct" ELSE "fetch"
                                   /\ UNCHANGED <<toread, out>>
                              ELSE Copied(c)
    BY <1>2, FetchOfDrain DEF FetchEffect
  <2>2. CASE c = <<>>
    BY <2>1, <2>2 DEF Short
  <2>3. CASE c # <<>>
    BY <1>2, <2>1, <2>3, CopiedIsNotShort DEF ReadDrain, CInv
  <2> QED
    BY <2>2, <2>3
<1>3. CASE ReadFromEngine
  <2>1. PICK r \in ReadDirect(toread) :
          IF r.ret <= 0
          THEN pc' = "fetch" /\ UNCHANGED <<toread, out>>
          ELSE Copied(r.data)
    BY <1>3 DEF ReadFromEngine
  <2>2. CASE r.ret <= 0
    BY <2>1, <2>2 DEF Short
  <2>3. CASE ~ (r.ret <= 0)
    <3>1. pc = "direct" /\ toread \in Int
      BY <1>3, ToreadFacts DEF ReadFromEngine, CInv
    <3>2. r.data \in Seq(Nat)
      BY <3>1, ReadFacts DEF CInv
    <3> QED
      BY <2>1, <2>3, <3>1, <3>2, CopiedIsNotShort DEF CInv
  <2> QED
    BY <2>2, <2>3
<1>4. CASE ReadFetch
  <2>1. PICK c : /\ FetchEffect(toread, TRUE, c)
                 /\ IF c = <<>>
                    THEN pc' = "ready" /\ UNCHANGED <<toread, out>>
                    ELSE Copied(c)
    BY <1>4, FetchOfRead
  <2>2. CASE c = <<>>
    <3>1. pc = "fetch" /\ toread > 0
      BY <1>4, ToreadFacts DEF ReadFetch, CInv
    <3>2. inlength = NoLength => failed' \/ (Pushed' = <<>> /\ Source' = <<>>)
      BY <2>1, <2>2, <3>1 DEF FetchEffect
    <3>3. Unread' = Pushed' \o Source'
      BY <2>1, UnreadIsNext DEF UnreadSplits, FetchEffect
    <3>4. <<>> \o <<>> = <<>>
      BY Empty, EmptySeq, Zenon
    <3>5. Pushed' = <<>> /\ Source' = <<>> => Unread' = <<>>
      BY <3>3, <3>4, Zenon
    <3> QED
      BY <3>2, <3>5 DEF Short
  <2>3. CASE c # <<>>
    BY <1>4, <2>1, <2>3, CopiedIsNotShort DEF ReadFetch, CInv, FetchEffect
  <2> QED
    BY <2>2, <2>3
<1>5. \/ pc = "ready" \/ ReadDrain \/ ReadFromEngine \/ ReadFetch
      \/ Arrives \/ FdReadsAgain
  BY DEF Next, YchannelFetch, YchannelRead, YchannelPush, YchannelSetLength,
         YchannelResetBuffer, YchannelRelease
<1>6. CASE Arrives \/ FdReadsAgain
  BY <1>6 DEF Arrives, FdReadsAgain, vars, readVars, Short
<1> QED
  BY <1>1, <1>2, <1>3, <1>4, <1>5, <1>6

\* YchannelRead gives up early only at the end of the input or after an engine
\* failed, through whichever of its three loops the bytes went.
THEOREM ShortOnlyAtEnd == Spec => ShortReadOnlyAtEnd
<1>1. CInv /\ [Next]_vars =>
        [pc # "ready" /\ pc' = "ready" /\ toread' > 0 /\ inlength = NoLength
           => failed' \/ Unread' = <<>>]_vars
  BY CInvShort DEF Short
<1> QED
  BY CInvHolds, <1>1, PTL DEF Spec, ShortReadOnlyAtEnd

-----------------------------------------------------------------------------
(* The read side implements PushbackStream *)

\* The front of a sequence and what follows it.
LEMMA FrontAndRest ==
  ASSUME NEW w \in Seq(Nat), NEW z \in Seq(Nat)
  PROVE  /\ SubSeq(w \o z, 1, Len(w)) = w
         /\ SubSeq(w \o z, Len(w) + 1, Len(w \o z)) = z
<1>1. PICK wz \in Seq(Nat) : wz = w \o z
  BY Closed
<1>2. /\ Len(wz) = Len(w) + Len(z) /\ Len(w) \in Nat /\ Len(z) \in Nat
      /\ \A i \in 1..Len(w) + Len(z) : wz[i] = IF i <= Len(w) THEN w[i] ELSE z[i - Len(w)]
  BY <1>1, ConcatProperties, LenProperties
<1>3. PICK p : p = SubSeq(wz, 1, Len(w))
  OBVIOUS
<1>4. PICK q : q = SubSeq(wz, Len(w) + 1, Len(wz))
  OBVIOUS
<1>5. Len(w) \in 0..Len(wz)
  BY <1>2
<1>6. p \in Seq(Nat) /\ Len(p) = Len(w) /\ q \in Seq(Nat) /\ p \o q = wz
  BY <1>3, <1>4, <1>5, CutInTwo
<1>7. p = w
  <2>1. ASSUME NEW i \in 1..Len(p) PROVE p[i] = w[i]
    <3>1. \A j \in 1..Len(w) : wz[j] \in Nat
      BY <1>2, ElementOfSeq
    <3>2. \A j \in 1..(Len(w) - 1 + 1) : SubSeq(wz, 1, Len(w))[j] = wz[1 + j - 1]
      BY <1>2, <3>1, SubSeqProperties
    <3>3. i \in 1..(Len(w) - 1 + 1) /\ 1 + i - 1 = i /\ i <= Len(w) /\ i \in 1..Len(w) + Len(z)
      BY <1>2, <1>6
    <3>4. p[i] = wz[i]
      BY <1>3, <3>2, <3>3
    <3> QED
      BY <1>2, <3>3, <3>4
  <2> QED
    BY <1>6, <2>1, SeqEqual
<1>8. q = z
  <2>1. w \o q = w \o z
    BY <1>1, <1>6, <1>7
  <2>2. \A t, u, v \in Seq(Nat) : t \o u = t \o v => u = v
    BY ConcatSimplifications
  <2> QED
    BY <1>6, <2>1, <2>2, Zenon
<1> QED
  BY <1>1, <1>3, <1>4, <1>7, <1>8

\* Deliver, said of the buffers.
Delivers ==
  \E n \in 1..Len(Pushed \o Source) :
    /\ \/ out' = SubSeq(Pushed \o Source, 1, n)
       \/ out' = out \o SubSeq(Pushed \o Source, 1, n)
    /\ Pushed' = SubSeq(Pushed, n + 1, Len(Pushed))
    /\ Source' = IF n <= Len(Pushed) THEN Source
                 ELSE SubSeq(Source, n - Len(Pushed) + 1, Len(Source))

LEMMA DeliversIsDeliver == Delivers => Stream!Deliver
BY DEF Delivers, Stream!Deliver, Stream!Unread, Pushed, Source

\* Bytes that are taken from the front of the stream are delivered.
LEMMA TakenIsDelivered ==
  ASSUME StreamOfBytes, StreamOfBytes', NEW c \in Seq(Nat), c # <<>>, Taken(c),
         out' = c \/ out' = out \o c
  PROVE  Delivers
<1>1. PICK n \in Nat \ {0} : n = Len(c)
  BY EmptySeq
<1>2. /\ Pushed \in Seq(Nat) /\ Source \in Seq(Nat)
      /\ Pushed' \in Seq(Nat) /\ Source' \in Seq(Nat)
  BY DEF StreamOfBytes
<1>3. CASE Pushed = c \o Pushed' /\ Source' = Source
  <2>1. Pushed \o Source = c \o (Pushed' \o Source)
    <3>1. \A t \in Seq(Nat) : (c \o t) \o Source = c \o (t \o Source)
      BY <1>2, Assoc, Zenon
    <3> QED
      BY <1>2, <1>3, <3>1, Zenon
  <2>2. Pushed' \o Source \in Seq(Nat)
    BY <1>2, Closed
  <2>3. SubSeq(Pushed \o Source, 1, n) = c
    BY <1>1, <2>1, <2>2, FrontAndRest
  <2>4. Pushed' = SubSeq(Pushed, n + 1, Len(Pushed))
    BY <1>1, <1>2, <1>3, FrontAndRest
  <2>5. n <= Len(Pushed)
    <3>1. Len(Pushed) = Len(c) + Len(Pushed') /\ Len(Pushed') \in Nat
      BY <1>2, <1>3, ConcatProperties, LenProperties
    <3> QED
      BY <1>1, <3>1
  <2>6. n \in 1..Len(Pushed \o Source)
    <3>1. Len(Pushed \o Source) = Len(Pushed) + Len(Source)
      BY <1>2, ConcatProperties
    <3>2. Len(Pushed) \in Nat /\ Len(Source) \in Nat
      BY <1>2, LenProperties
    <3> QED
      BY <2>5, <3>1, <3>2
  <2> QED
    BY <1>3, <2>3, <2>4, <2>5, <2>6 DEF Delivers
<1>4. CASE Pushed = <<>> /\ Pushed' = <<>> /\ Source = c \o Source'
  <2>1. Pushed \o Source = Source
    BY <1>2, <1>4, Empty, Zenon
  <2>2. /\ SubSeq(c \o Source', 1, Len(c)) = c
        /\ SubSeq(c \o Source', Len(c) + 1, Len(c \o Source')) = Source'
    BY <1>2, FrontAndRest
  <2>3. SubSeq(Source, 1, n) = c /\ Source' = SubSeq(Source, n + 1, Len(Source))
    BY <1>1, <1>4, <2>2, Zenon
  <2>4. Len(Pushed) = 0 /\ n - 0 + 1 = n + 1 /\ ~ (n <= 0)
    BY <1>1, <1>4, EmptySeq
  <2>5. Pushed' = SubSeq(Pushed, n + 1, Len(Pushed))
    BY <1>1, <1>4, <2>4, SubSeqEmpty
  <2>6. n \in 1..Len(Source)
    <3>1. Len(Source) = Len(c) + Len(Source') /\ Len(Source') \in Nat
      BY <1>2, <1>4, ConcatProperties, LenProperties
    <3> QED
      BY <1>1, <3>1
  <2>7. Source' = IF n <= Len(Pushed) THEN Source
                  ELSE SubSeq(Source, n - Len(Pushed) + 1, Len(Source))
    BY <2>3, <2>4
  <2>8. out' = SubSeq(Pushed \o Source, 1, n) \/ out' = out \o SubSeq(Pushed \o Source, 1, n)
    BY <2>1, <2>3, Zenon
  <2>9. n \in 1..Len(Pushed \o Source)
    BY <2>1, <2>6, Zenon
  <2> QED
    BY <2>5, <2>7, <2>8, <2>9, Zenon DEF Delivers
<1> QED
  BY <1>3, <1>4 DEF Taken

\* Lose, said of the buffers.
Loses ==
  /\ kind = "java" /\ Pushed = <<>> /\ Pushed' = Pushed
  /\ \E n \in 1..Len(Source) : Source' = SubSeq(Source, n + 1, Len(Source))
  /\ out' \in {out, <<>>}

LEMMA LosesIsLose == Loses => Stream!Lose
BY DEF Loses, Stream!Lose, Pushed, Source

LEMMA DroppedIsLost ==
  ASSUME NEW c, Dropped(c), out' \in {out, <<>>}
  PROVE  Loses
BY DEF Dropped, Loses

\* A fetch that returns nothing leaves the stream alone.
LEMMA NothingTaken ==
  ASSUME StreamOfBytes', Taken(<<>>)
  PROVE  Pushed' = Pushed /\ Source' = Source
<1>1. Pushed' \in Seq(Nat) /\ Source' \in Seq(Nat)
  BY DEF StreamOfBytes
<1>2. <<>> \o Pushed' = Pushed' /\ <<>> \o Source' = Source'
  BY <1>1, Empty, Zenon
<1> QED
  BY <1>2, Zenon DEF Taken

Begins == out' = <<>> /\ Pushed' = Pushed /\ Source' = Source

Stutters == kind' = kind /\ out' = out /\ Pushed' = Pushed /\ Source' = Source

LEMMA BeginsIsBegin == Begins => Stream!Begin
BY DEF Begins, Stream!Begin, Pushed, Source

LEMMA StuttersIsStutter == Stutters => UNCHANGED Stream!streamVars
BY DEF Stutters, Stream!streamVars, Pushed, Source

\* The step of the stream for each step of the channel.
StreamStep == Stream!StreamNext \/ UNCHANGED Stream!streamVars

LEMMA YchannelFetchRefines ==
  ASSUME CInv, StreamOfBytes, StreamOfBytes', NEW n \in Requests, YchannelFetch(n)
  PROVE  StreamStep
<1>1. PICK c : FetchEffect(n, TRUE, c) /\ out' = c
  BY FetchOfRequest
<1>2. c \in Seq(Nat) /\ (Taken(c) \/ Dropped(c)) /\ kind' = kind
  BY <1>1 DEF FetchEffect, YchannelFetch
<1>3. CASE Dropped(c)
  <2>1. Loses
    BY <1>1, <1>3, DroppedIsLost DEF Dropped
  <2> QED
    BY <1>2, <2>1, LosesIsLose DEF StreamStep, Stream!StreamNext
<1>4. CASE Taken(c) /\ c = <<>>
  <2>1. Begins
    BY <1>1, <1>4, NothingTaken DEF Begins
  <2> QED
    BY <1>2, <2>1, BeginsIsBegin DEF StreamStep, Stream!StreamNext
<1>5. CASE Taken(c) /\ c # <<>>
  <2>1. Delivers
    BY <1>1, <1>2, <1>5, TakenIsDelivered
  <2> QED
    BY <1>2, <2>1, DeliversIsDeliver DEF StreamStep, Stream!StreamNext
<1> QED
  BY <1>2, <1>3, <1>4, <1>5

\* A chunk that YchannelRead copies is delivered, and without one the stream stays.
LEMMA ChunkRefines ==
  ASSUME StreamOfBytes, StreamOfBytes', NEW c \in Seq(Nat), Taken(c) \/ Dropped(c),
         kind' = kind,
         IF c = <<>> THEN out' = out ELSE Copied(c)
  PROVE  StreamStep
<1>1. CASE Taken(c) /\ c = <<>>
  <2>1. Stutters
    BY <1>1, NothingTaken DEF Stutters
  <2> QED
    BY <2>1, StuttersIsStutter DEF StreamStep
<1>2. CASE Taken(c) /\ c # <<>>
  <2>1. out' = out \o c
    BY <1>2 DEF Copied
  <2>2. Delivers
    BY <1>2, <2>1, TakenIsDelivered
  <2> QED
    BY <2>2, DeliversIsDeliver DEF StreamStep, Stream!StreamNext
<1>3. CASE Dropped(c)
  <2>1. Loses
    BY <1>3, DroppedIsLost DEF Dropped
  <2> QED
    BY <2>1, LosesIsLose DEF StreamStep, Stream!StreamNext
<1> QED
  BY <1>1, <1>2, <1>3

LEMMA ReadDrainRefines ==
  ASSUME CInv, StreamOfBytes, StreamOfBytes', ReadDrain
  PROVE  StreamStep
<1>1. PICK c : /\ FetchEffect(toread, FALSE, c)
               /\ IF c = <<>>
                  THEN /\ pc' = IF directio THEN "direct" ELSE "fetch"
                       /\ UNCHANGED <<toread, out>>
                  ELSE Copied(c)
  BY FetchOfDrain
<1>2. c \in Seq(Nat) /\ (Taken(c) \/ Dropped(c)) /\ kind' = kind
  BY <1>1 DEF FetchEffect, ReadDrain
<1>3. IF c = <<>> THEN out' = out ELSE Copied(c)
  BY <1>1
<1> QED
  BY <1>2, <1>3, ChunkRefines

LEMMA ReadFetchRefines ==
  ASSUME CInv, StreamOfBytes, StreamOfBytes', ReadFetch
  PROVE  StreamStep
<1>1. PICK c : /\ FetchEffect(toread, TRUE, c)
               /\ IF c = <<>>
                  THEN pc' = "ready" /\ UNCHANGED <<toread, out>>
                  ELSE Copied(c)
  BY FetchOfRead
<1>2. c \in Seq(Nat) /\ (Taken(c) \/ Dropped(c)) /\ kind' = kind
  BY <1>1 DEF FetchEffect, ReadFetch
<1>3. IF c = <<>> THEN out' = out ELSE Copied(c)
  BY <1>1
<1> QED
  BY <1>2, <1>3, ChunkRefines

LEMMA ReadFromEngineRefines ==
  ASSUME CInv, StreamOfBytes, StreamOfBytes', ReadFromEngine
  PROVE  StreamStep
<1>1. PICK r \in ReadDirect(toread) :
        /\ Gave(toread, r)
        /\ IF r.ret <= 0
           THEN pc' = "fetch" /\ UNCHANGED <<toread, out>>
           ELSE Copied(r.data)
  BY DEF ReadFromEngine
<1>2. pc = "direct" /\ UNCHANGED bufVars /\ kind' = kind
  BY DEF ReadFromEngine
<1>3. toread \in Int
  BY <1>2, ToreadFacts DEF CInv
<1>4. /\ r.data \in Seq(Nat) /\ (r.ret <= 0 <=> r.data = <<>>)
      /\ engine \in Seq(Nat) /\ engine' \in Seq(Nat)
      /\ engine = r.data \o engine' \/ Drops(r)
  BY <1>1, <1>3, ReadFacts, GaveFacts DEF CInv, Buffers
<1>5. /\ Rest(pbuf, ppos) = <<>> /\ Rest(hbuf, hpos) = <<>> /\ Rest(rbuf, rpos) = <<>>
      /\ Rest(pbuf', ppos') = <<>> /\ Rest(hbuf', hpos') = <<>> /\ Rest(rbuf', rpos') = <<>>
  <2>1. /\ pbuf \in Seq(Nat) /\ ppos \in 0..Len(pbuf) /\ ppos >= Len(pbuf)
        /\ hbuf \in Seq(Nat) /\ hpos \in 0..Len(hbuf) /\ hpos >= Len(hbuf)
        /\ rbuf \in Seq(Nat) /\ rpos \in 0..Len(rbuf) /\ rpos >= Len(rbuf)
    BY <1>2 DEF CInv, Buffers, Reading, UsedUp
  <2>2. Rest(pbuf, ppos) = <<>> /\ Rest(hbuf, hpos) = <<>> /\ Rest(rbuf, rpos) = <<>>
    BY <2>1, RestFacts
  <2>3. /\ pbuf' = pbuf /\ ppos' = ppos /\ hbuf' = hbuf /\ hpos' = hpos
        /\ rbuf' = rbuf /\ rpos' = rpos
    BY <1>2 DEF bufVars
  <2> QED
    BY <2>2, <2>3, Zenon
<1>6. Source = engine /\ Source' = engine'
  <2>1. <<>> \o <<>> = <<>> /\ <<>> \o engine = engine /\ <<>> \o engine' = engine'
    BY <1>4, Empty, EmptySeq, Zenon
  <2>2. Source = (<<>> \o <<>>) \o engine /\ Source' = (<<>> \o <<>>) \o engine'
    BY <1>5, Zenon DEF Source
  <2> QED
    BY <2>1, <2>2, Zenon
<1>7. Taken(r.data) \/ Dropped(r.data)
  <2>1. CASE engine = r.data \o engine'
    BY <1>5, <1>6, <2>1 DEF Taken, Pushed
  <2>2. CASE Drops(r)
    BY <1>5, <1>6, <2>2 DEF Drops, Dropped, Pushed
  <2> QED
    BY <1>4, <2>1, <2>2
<1>8. IF r.data = <<>> THEN out' = out ELSE Copied(r.data)
  BY <1>1, <1>4
<1>9. PICK c \in Seq(Nat) : c = r.data
  BY <1>4
<1> QED
  BY <1>2, <1>7, <1>8, <1>9, ChunkRefines

LEMMA YchannelPushRefines ==
  ASSUME CInv, NEW data \in Pushable, YchannelPush(data)
  PROVE  StreamStep
<1>1. /\ pbuf' = data \o Rest(pbuf, ppos) /\ ppos' = 0 /\ out' = <<>>
      /\ UNCHANGED <<kind, hbuf, hpos, rbuf, rpos, engine>>
  BY DEF YchannelPush
<1>2. data \in Seq(Nat) /\ Rest(pbuf, ppos) \in Seq(Nat)
  BY YchannelAssumption, RestFacts DEF CInv, Buffers
<1>3. Pushed' = data \o Pushed
  <2>1. pbuf' \in Seq(Nat) /\ Len(pbuf') \in Nat
    BY <1>1, <1>2, Closed, LenProperties
  <2>2. Rest(pbuf', 0) = pbuf'
    BY <2>1, RestFacts
  <2> QED
    BY <1>1, <2>2 DEF Pushed
<1>4. Source' = Source
  BY <1>1 DEF Source
<1>5. Stream!Push(data)
  BY <1>1, <1>3, <1>4 DEF Stream!Push, Pushed, Source
<1> QED
  BY <1>1, <1>5 DEF StreamStep, Stream!StreamNext

LEMMA YchannelResetBufferRefines ==
  ASSUME CInv, StreamOfBytes, YchannelResetBuffer
  PROVE  StreamStep
<1>1. /\ hbuf' = <<>> /\ hpos' = 0 /\ out' = <<>>
      /\ UNCHANGED <<kind, pbuf, ppos, rbuf, rpos, engine>>
  BY DEF YchannelResetBuffer
<1>2. <<>> \in Seq(Nat) /\ Len(<<>>) = 0
  BY EmptySeq
<1>3. Pushed' = Pushed
  BY <1>1 DEF Pushed
<1>4. Rest(<<>>, 0) = <<>>
  BY RestOfEmpty
<1>5. Source' = (<<>> \o Rest(rbuf, rpos)) \o engine
  BY <1>1, <1>4 DEF Source
<1>6. CASE kind = "array"
  <2>1. rbuf = <<>> /\ rpos = 0 /\ engine = <<>>
    BY <1>2, <1>6 DEF CInv, Buffers
  <2>2. <<>> \o <<>> = <<>>
    BY <1>2, Empty, Zenon
  <2>3. Source' = <<>>
    BY <1>4, <1>5, <2>1, <2>2, Zenon
  <2>4. Stream!Detach
    BY <1>1, <1>3, <2>3 DEF Stream!Detach, Pushed, Source
  <2> QED
    BY <1>1, <2>4 DEF StreamStep, Stream!StreamNext
<1>7. CASE kind # "array"
  <2>1. hbuf = <<>> /\ hpos = 0
    BY <1>2, <1>7 DEF CInv, Buffers
  <2>2. Source = (<<>> \o Rest(rbuf, rpos)) \o engine
    BY <1>4, <2>1 DEF Source
  <2>3. Begins
    BY <1>1, <1>3, <1>5, <2>2 DEF Begins
  <2> QED
    BY <1>1, <2>3, BeginsIsBegin DEF StreamStep, Stream!StreamNext
<1> QED
  BY <1>6, <1>7

LEMMA YchannelReleaseRefines ==
  ASSUME YchannelRelease
  PROVE  StreamStep
<1>1. /\ rbuf' = <<>> /\ rpos' = 0 /\ hbuf' = <<>> /\ hpos' = 0
      /\ pbuf' = <<>> /\ ppos' = 0 /\ engine' = <<>> /\ out' = <<>> /\ kind' = kind
  BY DEF YchannelRelease
<1>2. <<>> \in Seq(Nat) /\ Len(<<>>) = 0
  BY EmptySeq
<1>3. Rest(<<>>, 0) = <<>> /\ <<>> \o <<>> = <<>>
  BY <1>2, RestOfEmpty, Empty, Zenon
<1>4. Pushed' = <<>> /\ Source' = <<>>
  <2>1. Pushed' = Rest(<<>>, 0) /\ Source' = (Rest(<<>>, 0) \o Rest(<<>>, 0)) \o <<>>
    BY <1>1 DEF Pushed, Source
  <2> QED
    BY <1>3, <2>1, Zenon
<1>5. Stream!Close
  BY <1>1, <1>4 DEF Stream!Close, Pushed, Source
<1> QED
  BY <1>1, <1>5 DEF StreamStep, Stream!StreamNext

LEMMA StepRefines ==
  ASSUME CInv, StreamOfBytes, StreamOfBytes', [Next]_vars
  PROVE  StreamStep
<1>1. CASE \E n \in Requests : YchannelFetch(n) \/ \E d \in Destinations : YchannelRead(n, d)
  <2>1. PICK n \in Requests : YchannelFetch(n) \/ \E d \in Destinations : YchannelRead(n, d)
    BY <1>1
  <2>2. CASE YchannelFetch(n)
    BY <2>2, YchannelFetchRefines
  <2>3. CASE \E d \in Destinations : YchannelRead(n, d)
    <3>1. Begins /\ kind' = kind
      BY <2>3 DEF YchannelRead, bufVars, Begins, Pushed, Source
    <3> QED
      BY <3>1, BeginsIsBegin DEF StreamStep, Stream!StreamNext
  <2> QED
    BY <2>1, <2>2, <2>3
<1>2. CASE ReadDrain
  BY <1>2, ReadDrainRefines
<1>3. CASE ReadFromEngine
  BY <1>3, ReadFromEngineRefines
<1>4. CASE ReadFetch
  BY <1>4, ReadFetchRefines
<1>5. CASE \E data \in Pushable : YchannelPush(data)
  BY <1>5, YchannelPushRefines
<1>6. CASE \E length \in Lengths \cup {NoLength} : YchannelSetLength(length)
  <2>1. Stutters
    BY <1>6 DEF YchannelSetLength, bufVars, Stutters, Pushed, Source
  <2> QED
    BY <2>1, StuttersIsStutter DEF StreamStep
<1>7. CASE YchannelResetBuffer
  BY <1>7, YchannelResetBufferRefines
<1>8. CASE YchannelRelease
  BY <1>8, YchannelReleaseRefines
<1>9. CASE Arrives
  <2>1. Stutters
    BY <1>9 DEF Arrives, bufVars, Stutters, Pushed, Source
  <2> QED
    BY <2>1, StuttersIsStutter DEF StreamStep
<1>10. CASE UNCHANGED vars
  <2>1. Stutters
    BY <1>10 DEF vars, bufVars, Stutters, Pushed, Source
  <2> QED
    BY <2>1, StuttersIsStutter DEF StreamStep
<1> QED
  BY <1>1, <1>2, <1>3, <1>4, <1>5, <1>6, <1>7, <1>8, <1>9, <1>10 DEF Next, FdReadsAgain

LEMMA InitRefines == Init => Stream!StreamInit
<1> SUFFICES ASSUME Init PROVE Stream!StreamInit
  OBVIOUS
<1>1. StreamOfBytes
  BY InitCInv, StreamFacts DEF CInv
<1>2. pbuf = <<>> /\ ppos = 0 /\ out = <<>>
  BY DEF Init
<1>3. Pushed = <<>>
  BY <1>2, RestOfEmpty DEF Pushed
<1> QED
  BY <1>1, <1>2, <1>3 DEF Stream!StreamInit, StreamOfBytes, Pushed, Source

\* The reader of a channel gets the stream: whatever the kind of channel, the sizes
\* of its buffers, the order of its calls and what an engine gives at a time, no byte
\* is repeated or out of order, those pushed back come before all others, and none is lost
\* but what a Java stream had taken when it threw.
THEOREM Refinement == Spec => ImplementsStream
<1>1. Init => Stream!StreamInit
  BY InitRefines
<1>2. CInv /\ CInv' /\ [Next]_vars => [Stream!StreamNext]_(Stream!streamVars)
  <2> SUFFICES ASSUME CInv, CInv', [Next]_vars
               PROVE  [Stream!StreamNext]_(Stream!streamVars)
    OBVIOUS
  <2>1. StreamOfBytes /\ StreamOfBytes'
    BY StreamFacts, StreamFactsNext DEF CInv
  <2> QED
    BY <2>1, StepRefines DEF StreamStep
<1> QED
  BY <1>1, <1>2, CInvHolds, PTL DEF Spec, ImplementsStream, Stream!StreamSpec
=============================================================================

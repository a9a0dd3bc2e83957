------------------------ MODULE YchannelWriterProofs ------------------------
(***************************************************************************)
(* What YchannelWrite counts as written is what the engine has accepted,   *)
(* and a flush leaves nothing behind, for every size of sink, buffer,      *)
(* chunk and request.                                                      *)
(***************************************************************************)
EXTENDS YchannelWriter, SequenceTheorems, TLAPS

Byte == 1..MaxBytes

\* What is on its way: the bytes past the engine's callback, in order.
Accepted == drained \o sink \o buffer

Types ==
  /\ kind \in Kinds
  /\ autorelease \in BOOLEAN /\ open \in BOOLEAN /\ flushed \in BOOLEAN
  /\ pc \in {"ready", "writing", "released"}
  /\ towrite \in Nat /\ written \in 0..towrite
  /\ produced \in 0..MaxBytes /\ towrite <= produced
  /\ drained \in Seq(Byte) /\ sink \in Seq(Byte) /\ buffer \in Seq(Byte)
  /\ Len(buffer) <= BufferSize /\ Len(sink) <= SinkSize

\* The pointer is as far as the count: what is left of the caller's bytes are
\* the last of those it has produced.
PointerFollowsCount ==
  /\ nextc \in Seq(Byte)
  /\ Len(nextc) = towrite - written
  /\ \A i \in 1..Len(nextc) : nextc[i] = produced - towrite + written + i
  /\ pc = "writing" => nextc # <<>>

\* The inductive invariant.  ReportedIsAccepted alone is not: that the bytes
\* counted next are the bytes given next needs the pointer.
WInv ==
  /\ Types
  /\ PointerFollowsCount
  /\ confirmed = Accepted

-----------------------------------------------------------------------------
(* Lemmas *)

\* The largest and the smallest of two numbers.
LEMMA MaxOfTwo ==
  ASSUME NEW a \in Int, NEW b \in Int
  PROVE  Max({a, b}) = IF a >= b THEN a ELSE b
BY DEF Max

LEMMA MinOfTwo ==
  ASSUME NEW a \in Int, NEW b \in Int
  PROVE  Min({a, b}) = IF a <= b THEN a ELSE b
BY DEF Min

\* A sequence cut in two is the same sequence.
LEMMA CutInTwo ==
  ASSUME NEW S, NEW s \in Seq(S), NEW k \in 0..Len(s)
  PROVE  /\ SubSeq(s, 1, k) \in Seq(S)
         /\ Len(SubSeq(s, 1, k)) = k
         /\ SubSeq(s, k + 1, Len(s)) \in Seq(S)
         /\ Len(SubSeq(s, k + 1, Len(s))) = Len(s) - k
         /\ SubSeq(s, 1, k) \o SubSeq(s, k + 1, Len(s)) = s
<1>1. \A i \in 1..Len(s) : s[i] \in S
  BY ElementOfSeq
<1>2. Len(s) \in Nat /\ k \in Int /\ k + 1 \in Int
  BY LenProperties
<1>3. /\ SubSeq(s, 1, k) \in Seq(S)
      /\ Len(SubSeq(s, 1, k)) = k
  BY <1>1, <1>2, SubSeqProperties
<1>4. /\ SubSeq(s, k + 1, Len(s)) \in Seq(S)
      /\ Len(SubSeq(s, k + 1, Len(s))) = Len(s) - k
  BY <1>1, <1>2, SubSeqProperties
<1>5. SubSeq(s, 1, k) \o SubSeq(s, k + 1, Len(s)) = SubSeq(s, 1, Len(s))
  <2>1. 1 \in 1..Len(s) + 1 /\ k \in 1 - 1..Len(s) /\ Len(s) \in k..Len(s)
    BY <1>2
  <2> QED
    BY <2>1, ConcatAdjacentSubSeq
<1>6. SubSeq(s, 1, Len(s)) = s
  BY SubSeqFull
<1> QED
  BY <1>3, <1>4, <1>5, <1>6, ZenonT(40)

\* Bytes that an engine accepts go behind all that it accepted before.
LEMMA AcceptAppends ==
  ASSUME Types, NEW b \in Seq(Byte), Accept(b)
  PROVE  /\ sink' \in Seq(Byte) /\ Len(sink') <= SinkSize
         /\ buffer' \in Seq(Byte) /\ Len(buffer') <= BufferSize
         /\ drained \o sink' \o buffer' = Accepted \o b
<1> DEFINE all == buffer \o b
<1>1. /\ all \in Seq(Byte) /\ Len(all) = Len(buffer) + Len(b)
      /\ Len(buffer) \in Nat /\ Len(b) \in Nat /\ Len(sink) \in Nat
      /\ SinkSize \in Nat /\ BufferSize \in Nat
  BY ConcatProperties, LenProperties, YchannelWriterAssumption DEF Types
<1>2. PICK k \in 0..Min({Len(all), SinkSize - Len(sink)}) :
        /\ kind = "fd" => k = Len(b)
        /\ Len(all) - k <= BufferSize
        /\ sink' = sink \o SubSeq(all, 1, k)
        /\ buffer' = SubSeq(all, k + 1, Len(all))
  BY DEF Accept
<1> HIDE DEF all
<1>3. k \in 0..Len(all) /\ k <= SinkSize - Len(sink)
  <2>1. Min({Len(all), SinkSize - Len(sink)})
          = IF Len(all) <= SinkSize - Len(sink) THEN Len(all) ELSE SinkSize - Len(sink)
    BY <1>1, MinOfTwo
  <2> QED
    BY <1>1, <1>2, <2>1
<1>4. /\ SubSeq(all, 1, k) \in Seq(Byte)
      /\ Len(SubSeq(all, 1, k)) = k
      /\ buffer' \in Seq(Byte)
      /\ Len(buffer') = Len(all) - k
      /\ SubSeq(all, 1, k) \o buffer' = all
  BY <1>1, <1>2, <1>3, CutInTwo
<1>5. sink' \in Seq(Byte) /\ Len(sink') = Len(sink) + k
  BY <1>2, <1>4, ConcatProperties, ZenonT(40) DEF Types
<1>6. drained \o sink' \o buffer' = Accepted \o b
  <2> DEFINE front == SubSeq(all, 1, k)
  <2> DEFINE old == drained \o sink
  <2>1. \A s, t, u \in Seq(Byte) : (s \o t) \o u = s \o (t \o u)
    BY ConcatAssociative
  <2>2. /\ drained \in Seq(Byte) /\ sink \in Seq(Byte) /\ buffer \in Seq(Byte)
        /\ front \in Seq(Byte) /\ buffer' \in Seq(Byte)
        /\ sink' = sink \o front
    BY <1>2, <1>4 DEF Types
  <2>3. old \in Seq(Byte)
    BY <2>2, ConcatProperties
  <2> HIDE DEF front
  <2>4. drained \o sink' = old \o front
    BY <2>1, <2>2, ZenonT(40)
  <2> HIDE DEF old
  <2>5. (old \o front) \o buffer' = old \o (front \o buffer')
    BY <2>1, <2>2, <2>3, ZenonT(40)
  <2>6. old \o (buffer \o b) = (old \o buffer) \o b
    BY <2>1, <2>2, <2>3, ZenonT(40)
  <2>7. front \o buffer' = buffer \o b
    BY <1>4 DEF all, front
  <2> QED
    BY <2>4, <2>5, <2>6, <2>7 DEF Accepted, old
<1>7. Len(sink') <= SinkSize /\ Len(buffer') <= BufferSize
  BY <1>1, <1>2, <1>3, <1>4, <1>5
<1> QED
  BY <1>4, <1>5, <1>6, <1>7

\* The bytes given to the engine are those that will be counted.
LEMMA GivenAreCounted ==
  ASSUME Types, PointerFollowsCount, NEW n \in 1..Len(nextc)
  PROVE  /\ Counted(n) = SubSeq(nextc, 1, n)
         /\ SubSeq(nextc, 1, n) \in Seq(Byte)
<1>1. Len(nextc) \in Nat /\ \A i \in 1..Len(nextc) : nextc[i] \in Byte
  BY LenProperties, ElementOfSeq DEF PointerFollowsCount
<1>2. /\ SubSeq(nextc, 1, n) \in Seq(Byte)
      /\ Len(SubSeq(nextc, 1, n)) = n
      /\ \A i \in 1..n : SubSeq(nextc, 1, n)[i] = nextc[i]
  <2>1. n \in Int /\ \A i \in 1..n : nextc[i] \in Byte
    BY <1>1
  <2>2. \A i \in 1..(n - 1 + 1) : SubSeq(nextc, 1, n)[i] = nextc[1 + i - 1]
    BY <2>1, SubSeqProperties
  <2>3. /\ SubSeq(nextc, 1, n) \in Seq(Byte)
        /\ Len(SubSeq(nextc, 1, n)) = n
    BY <1>1, CutInTwo DEF PointerFollowsCount
  <2> QED
    BY <2>1, <2>2, <2>3
<1>3. \A i \in 1..n : nextc[i] = produced - towrite + written + i
  BY <1>1 DEF PointerFollowsCount
<1>4. SubSeq(nextc, 1, n) = [i \in 1..n |-> SubSeq(nextc, 1, n)[i]]
  BY <1>2, LenProperties
<1> QED
  BY <1>1, <1>2, <1>3, <1>4 DEF Counted

\* The first of several bytes that were accepted is the next to be drained.
LEMMA DrainKeepsOrder ==
  ASSUME Types, Drain
  PROVE  /\ drained' \in Seq(Byte)
         /\ sink' \in Seq(Byte) /\ Len(sink') <= SinkSize
         /\ drained' \o sink' = drained \o sink
<1>1. /\ sink # <<>> /\ sink \in Seq(Byte) /\ drained \in Seq(Byte)
      /\ drained' = Append(drained, Head(sink))
      /\ sink' = Tail(sink)
      /\ Len(sink) \in Nat /\ SinkSize \in Nat
  BY LenProperties, YchannelWriterAssumption DEF Drain, Types
<1>2. /\ Head(sink) \in Byte
      /\ sink' \in Seq(Byte) /\ Len(sink') = Len(sink) - 1
      /\ drained' \in Seq(Byte)
  BY <1>1, HeadTailProperties, AppendProperties
<1>3. Len(sink') <= SinkSize
  BY <1>1, <1>2 DEF Types
<1>4. drained' = drained \o <<Head(sink)>>
  BY <1>1, <1>2, AppendIsConcat
<1>5. sink = <<Head(sink)>> \o sink'
  BY <1>1, <1>2
<1>6. <<Head(sink)>> \in Seq(Byte)
  BY <1>2
<1>7. (drained \o <<Head(sink)>>) \o sink' = drained \o (<<Head(sink)>> \o sink')
  BY <1>1, <1>2, <1>6, ConcatAssociative
<1> QED
  BY <1>2, <1>3, <1>4, <1>5, <1>7

\* fflush, and the close of a stream, move what was kept back to the sink, or the
\* first part of it.
LEMMA FlushMoves ==
  ASSUME Types, NEW k \in 0..Len(buffer), PassOn(k)
  PROVE  /\ sink' \in Seq(Byte) /\ Len(sink') <= SinkSize
         /\ buffer' \in Seq(Byte) /\ Len(buffer') <= BufferSize
         /\ drained \o sink' \o buffer' = Accepted
<1> DEFINE front == SubSeq(buffer, 1, k)
           rest  == SubSeq(buffer, k + 1, Len(buffer))
<1>1. drained \in Seq(Byte) /\ sink \in Seq(Byte) /\ buffer \in Seq(Byte)
  BY DEF Types
<1>2. /\ front \in Seq(Byte) /\ Len(front) = k
      /\ rest \in Seq(Byte) /\ Len(rest) = Len(buffer) - k
      /\ front \o rest = buffer
  BY <1>1, CutInTwo
<1>3. /\ Len(sink) + k <= SinkSize
      /\ sink' = sink \o front /\ buffer' = rest
  BY DEF PassOn
<1> HIDE DEF front, rest
<1>4. sink' \in Seq(Byte) /\ Len(sink') <= SinkSize
  BY <1>1, <1>2, <1>3, ConcatProperties
<1>5. Len(buffer') <= BufferSize
  BY <1>1, <1>2, <1>3, LenProperties, YchannelWriterAssumption DEF Types
<1>6. drained \o sink' \o buffer' = Accepted
  <2>1. \A s, t, u \in Seq(Byte) : (s \o t) \o u = s \o (t \o u)
    BY ConcatAssociative
  <2>2. drained \o sink \in Seq(Byte)
    BY <1>1, ConcatProperties
  <2>3. drained \o (sink \o front) = (drained \o sink) \o front
    BY <1>1, <1>2, <2>1
  <2>4. ((drained \o sink) \o front) \o rest = (drained \o sink) \o (front \o rest)
    BY <1>2, <2>1, <2>2
  <2> QED
    BY <1>2, <1>3, <2>3, <2>4 DEF Accepted
<1> QED
  BY <1>2, <1>3, <1>4, <1>5, <1>6

-----------------------------------------------------------------------------
(* The invariant *)

LEMMA InitWInv == Init => WInv
<1> SUFFICES ASSUME Init PROVE WInv
  OBVIOUS
<1> USE YchannelWriterAssumption
<1>1. <<>> \in Seq(Byte) /\ Len(<<>>) = 0 /\ <<>> \o <<>> = <<>>
  BY EmptySeq, ConcatEmptySeq
<1>2. Types
  <2>1. /\ kind \in Kinds
        /\ autorelease \in BOOLEAN /\ open \in BOOLEAN /\ flushed \in BOOLEAN
        /\ pc \in {"ready", "writing", "released"}
    BY DEF Init
  <2>2. /\ towrite \in Nat /\ written \in 0..towrite
        /\ produced \in 0..MaxBytes /\ towrite <= produced
    BY DEF Init
  <2>3. /\ drained \in Seq(Byte) /\ sink \in Seq(Byte) /\ buffer \in Seq(Byte)
        /\ Len(buffer) <= BufferSize /\ Len(sink) <= SinkSize
    BY <1>1 DEF Init
  <2> QED
    BY <2>1, <2>2, <2>3 DEF Types
<1>3. PointerFollowsCount
  BY <1>1 DEF Init, PointerFollowsCount
<1> QED
  BY <1>1, <1>2, <1>3 DEF Init, WInv, Accepted

LEMMA WriteStep ==
  ASSUME WInv, NEW n \in Requests, YchannelWrite(n)
  PROVE  WInv'
<1> USE YchannelWriterAssumption
<1> DEFINE m == Max({n, 0})
<1>1. n \in Int /\ m = IF n >= 0 THEN n ELSE 0
  BY MaxOfTwo
<1>2. m \in Nat /\ (n > 0 => m > 0)
  BY <1>1
<1>3. /\ produced + m <= MaxBytes
      /\ towrite' = m /\ written' = 0 /\ produced' = produced + m
      /\ nextc' = [i \in 1..m |-> produced + i]
      /\ pc' = IF n <= 0 THEN "ready" ELSE "writing"
      /\ flushed' = FALSE
      /\ UNCHANGED <<kind, autorelease, confirmed, buffer, sink, drained, open>>
  BY DEF YchannelWrite
<1> HIDE DEF m
<1>4. Types'
  <2>1. /\ kind' \in Kinds
        /\ autorelease' \in BOOLEAN /\ open' \in BOOLEAN /\ flushed' \in BOOLEAN
        /\ pc' \in {"ready", "writing", "released"}
    BY <1>3 DEF WInv, Types
  <2>2. /\ towrite' \in Nat /\ written' \in 0..towrite'
        /\ produced' \in 0..MaxBytes /\ towrite' <= produced'
    BY <1>2, <1>3 DEF WInv, Types
  <2>3. /\ drained' \in Seq(Byte) /\ sink' \in Seq(Byte) /\ buffer' \in Seq(Byte)
        /\ Len(buffer') <= BufferSize /\ Len(sink') <= SinkSize
    BY <1>3 DEF WInv, Types
  <2> QED
    BY <2>1, <2>2, <2>3 DEF Types
<1>5. nextc' \in Seq(Byte) /\ Len(nextc') = m
  <2>1. \A i \in 1..m : produced + i \in Byte
    BY <1>2, <1>3 DEF WInv, Types, Byte
  <2>2. nextc' \in [1..m -> Byte]
    BY <1>3, <2>1
  <2> QED
    BY <1>2, <2>2
<1>6. PointerFollowsCount'
  <2>1. \A i \in 1..Len(nextc') : nextc'[i] = produced' - towrite' + written' + i
    BY <1>2, <1>3, <1>5 DEF WInv, Types
  <2>2. pc' = "writing" => nextc' # <<>>
    BY <1>1, <1>2, <1>3, <1>5, EmptySeq
  <2> QED
    BY <1>2, <1>3, <1>5, <2>1, <2>2 DEF PointerFollowsCount
<1> QED
  BY <1>3, <1>4, <1>6 DEF WInv, Accepted

\* The bytes that one call of the engine takes.
LEMMA TakesSome ==
  ASSUME WInv, pc = "writing", NEW n \in Takes(towrite - written)
  PROVE  n \in 1..Len(nextc)
<1>1. Len(nextc) = towrite - written /\ Len(nextc) \in Nat \ {0}
  BY EmptySeq DEF WInv, PointerFollowsCount
<1>2. kind \in {"fd", "file", "java"} /\ ChunkSize \in Nat \ {0}
  BY YchannelWriterAssumption DEF WInv, Types
<1>3. Min({towrite - written, ChunkSize})
      = IF towrite - written <= ChunkSize THEN towrite - written ELSE ChunkSize
  BY <1>1, <1>2, MinOfTwo
<1>4. CASE kind \in {"fd", "file"}
  BY <1>1, <1>4 DEF Takes
<1>5. CASE kind = "java"
  BY <1>1, <1>2, <1>3, <1>5 DEF Takes
<1> QED
  BY <1>2, <1>4, <1>5

LEMMA WriteSomeStep ==
  ASSUME WInv, WriteSome
  PROVE  WInv'
<1> USE YchannelWriterAssumption
<1>1. PICK n \in Takes(towrite - written) :
        /\ Accept(SubSeq(nextc, 1, n))
        /\ confirmed' = confirmed \o Counted(n)
        /\ Advance(n)
  BY DEF WriteSome
<1>2. /\ pc = "writing"
      /\ pc' = IF written' >= towrite' THEN "ready" ELSE "writing"
      /\ UNCHANGED <<kind, autorelease, towrite, produced, drained, open, flushed>>
  BY DEF WriteSome, LoopEnds
<1>3. n \in 1..Len(nextc)
  BY <1>2, TakesSome
<1>4. /\ written' = written + n
      /\ nextc' = SubSeq(nextc, n + 1, Len(nextc))
  BY <1>1 DEF Advance
<1>5. Types /\ PointerFollowsCount /\ confirmed = Accepted
  BY DEF WInv
<1>6. SubSeq(nextc, 1, n) = Counted(n) /\ SubSeq(nextc, 1, n) \in Seq(Byte)
  BY <1>3, <1>5, GivenAreCounted
<1>7. /\ sink' \in Seq(Byte) /\ Len(sink') <= SinkSize
      /\ buffer' \in Seq(Byte) /\ Len(buffer') <= BufferSize
      /\ drained \o sink' \o buffer' = Accepted \o SubSeq(nextc, 1, n)
  BY <1>1, <1>5, <1>6, AcceptAppends
<1>8. confirmed' = Accepted'
  BY <1>1, <1>2, <1>5, <1>6, <1>7 DEF Accepted
<1>9. /\ Len(nextc) \in Nat /\ Len(nextc) = towrite - written
      /\ written \in Nat /\ towrite \in Nat /\ produced \in Nat
  BY <1>5, LenProperties DEF Types, PointerFollowsCount
<1>10. Types'
  BY <1>2, <1>3, <1>4, <1>5, <1>7, <1>9 DEF Types
<1>11. /\ nextc' \in Seq(Byte)
       /\ Len(nextc') = Len(nextc) - n
       /\ \A i \in 1..Len(nextc) - n : nextc'[i] = nextc[n + i]
  <2>1. n \in 0..Len(nextc) /\ nextc \in Seq(Byte)
    BY <1>3, <1>5 DEF PointerFollowsCount
  <2>2. nextc' \in Seq(Byte) /\ Len(nextc') = Len(nextc) - n
    BY <1>4, <2>1, CutInTwo
  <2>3. \A i \in n + 1..Len(nextc) : nextc[i] \in Byte
    BY <1>3, <2>1, ElementOfSeq
  <2>4. \A i \in 1..(Len(nextc) - (n + 1) + 1) : nextc'[i] = nextc[n + 1 + i - 1]
    BY <1>3, <1>4, <1>9, <2>3, SubSeqProperties
  <2> QED
    BY <1>3, <1>9, <2>2, <2>4
<1>12. PointerFollowsCount'
  <2>1. Len(nextc') = towrite' - written'
    BY <1>2, <1>3, <1>4, <1>9, <1>11
  <2>2. ASSUME NEW i \in 1..Len(nextc')
        PROVE  nextc'[i] = produced' - towrite' + written' + i
    <3>1. nextc'[i] = nextc[n + i] /\ n + i \in 1..Len(nextc)
      BY <1>3, <1>9, <1>11
    <3>2. nextc[n + i] = produced - towrite + written + (n + i)
      BY <1>5, <3>1 DEF PointerFollowsCount
    <3> QED
      BY <1>2, <1>3, <1>4, <1>9, <3>1, <3>2
  <2>3. pc' = "writing" => nextc' # <<>>
    BY <1>2, <1>3, <1>4, <1>9, <1>11, <2>1, EmptySeq
  <2> QED
    BY <1>11, <2>1, <2>2, <2>3 DEF PointerFollowsCount
<1> QED
  BY <1>8, <1>10, <1>12 DEF WInv

\* What any call leaves when it has passed on some of the bytes that were kept back,
\* or none.
BytesKept ==
  /\ sink' \in Seq(Byte) /\ Len(sink') <= SinkSize
  /\ buffer' \in Seq(Byte) /\ Len(buffer') <= BufferSize
  /\ drained \o sink' \o buffer' = Accepted

LEMMA PassOnKeeps ==
  ASSUME WInv, PassOn(Len(buffer)) \/ (\E k \in 0..Len(buffer) : PassOn(k))
  PROVE  BytesKept
<1>1. Len(buffer) \in 0..Len(buffer)
  BY LenProperties DEF WInv, Types
<1>2. PICK k \in 0..Len(buffer) : PassOn(k)
  BY <1>1
<1> QED
  BY <1>2, FlushMoves DEF WInv, BytesKept

LEMMA FlushEngineStep ==
  ASSUME WInv, FlushEngine
  PROVE  BytesKept /\ flushed' \in BOOLEAN
<1>1. CASE PassOn(Len(buffer)) \/ (\E k \in 0..Len(buffer) : PassOn(k))
  BY <1>1, PassOnKeeps DEF FlushEngine
<1>2. CASE UNCHANGED <<buffer, sink>>
  BY <1>2 DEF WInv, Types, Accepted, BytesKept, FlushEngine
<1> QED
  BY <1>1, <1>2 DEF FlushEngine

\* A call that leaves the bytes of the caller alone keeps the pointer.
LEMMA PointerKept ==
  ASSUME PointerFollowsCount, pc' = "writing" => pc = "writing",
         UNCHANGED <<towrite, nextc, written, produced>>
  PROVE  PointerFollowsCount'
BY DEF PointerFollowsCount

LEMMA FlushStep ==
  ASSUME WInv, YchannelFlush
  PROVE  WInv'
<1>1. /\ pc = "ready" /\ FlushEngine
      /\ UNCHANGED <<kind, autorelease, pc, towrite, nextc, written, produced,
                     confirmed, drained, open>>
  BY DEF YchannelFlush, callVars
<1>2. Types'
  BY <1>1, FlushEngineStep DEF WInv, Types, BytesKept
<1>3. PointerFollowsCount'
  BY <1>1, PointerKept DEF WInv
<1>4. confirmed' = Accepted'
  BY <1>1, FlushEngineStep DEF WInv, Accepted, BytesKept
<1> QED
  BY <1>2, <1>3, <1>4 DEF WInv

LEMMA ReleaseStep ==
  ASSUME WInv, YchannelRelease
  PROVE  WInv'
<1> USE YchannelWriterAssumption
<1>1. /\ pc = "ready" /\ pc' = "released"
      /\ open' = (open /\ ~ autorelease)
      /\ UNCHANGED <<kind, autorelease, towrite, nextc, written, produced, confirmed,
                     drained>>
  BY DEF YchannelRelease, CloseEngine
<1>2. BytesKept /\ flushed' \in BOOLEAN
  <2>1. CASE FlushEngine
    BY <2>1, FlushEngineStep
  <2>2. CASE PassOn(Len(buffer)) \/ (\E k \in 0..Len(buffer) : PassOn(k))
    <3>1. BytesKept
      BY <2>2, PassOnKeeps
    <3>2. flushed' \in BOOLEAN
      BY DEF YchannelRelease, FlushEngine
    <3> QED
      BY <3>1, <3>2
  <2>3. CASE flushed' = FALSE /\ UNCHANGED <<buffer, sink>>
    BY <2>3 DEF WInv, Types, Accepted, BytesKept
  <2> QED
    BY <2>1, <2>2, <2>3 DEF YchannelRelease
<1>3. Types'
  BY <1>1, <1>2 DEF WInv, Types, BytesKept
<1>4. PointerFollowsCount'
  BY <1>1, PointerKept DEF WInv
<1>5. confirmed' = Accepted'
  BY <1>1, <1>2 DEF WInv, Accepted, BytesKept
<1> QED
  BY <1>3, <1>4, <1>5 DEF WInv

LEMMA DrainStep ==
  ASSUME WInv, Drain
  PROVE  WInv'
<1>1. UNCHANGED <<kind, autorelease, pc, towrite, nextc, written, produced,
                  confirmed, buffer, open, flushed>>
  BY DEF Drain, callVars
<1>2. Types'
  BY <1>1, DrainKeepsOrder DEF WInv, Types
<1>3. PointerFollowsCount'
  BY <1>1, PointerKept DEF WInv
<1>4. confirmed' = Accepted'
  BY <1>1, DrainKeepsOrder DEF WInv, Accepted
<1> QED
  BY <1>2, <1>3, <1>4 DEF WInv

\* The steps that leave the engine alone.
LEMMA QuietStep ==
  ASSUME WInv, UNCHANGED <<kind, towrite, nextc, written, produced, confirmed,
                           buffer, sink, drained, open>>,
         pc' \in {pc, "ready"}, autorelease' \in BOOLEAN,
         flushed' \in {flushed, FALSE}
  PROVE  WInv'
<1>1. Types'
  BY DEF WInv, Types
<1>2. PointerFollowsCount'
  BY PointerKept DEF WInv
<1>3. confirmed' = Accepted'
  BY DEF WInv, Accepted
<1> QED
  BY <1>1, <1>2, <1>3 DEF WInv

LEMMA NextWInv == WInv /\ [Next]_vars => WInv'
<1> SUFFICES ASSUME WInv, [Next]_vars PROVE WInv'
  OBVIOUS
<1>1. CASE \E n \in Requests : YchannelWrite(n)
  BY <1>1, WriteStep
<1>2. CASE WriteSome
  BY <1>2, WriteSomeStep
<1>3. CASE WriteNone \/ UNCHANGED vars
  <2>1. UNCHANGED vars
    BY <1>3 DEF WriteNone
  <2>2. UNCHANGED <<kind, autorelease, pc, towrite, nextc, written, produced,
                    confirmed, buffer, sink, drained, open, flushed>>
    BY <2>1 DEF vars, callVars
  <2>3. autorelease' \in BOOLEAN
    BY <2>2 DEF WInv, Types
  <2> QED
    BY <2>2, <2>3, QuietStep
<1>4. CASE WriteFails
  BY <1>4, QuietStep DEF WriteFails, WInv, Types
<1>5. CASE YchannelFlush
  BY <1>5, FlushStep
<1>6. CASE \E b \in BOOLEAN : YchannelSetAutoRelease(b)
  BY <1>6, QuietStep DEF YchannelSetAutoRelease, callVars
<1>7. CASE YchannelRelease
  BY <1>7, ReleaseStep
<1>8. CASE Drain
  BY <1>8, DrainStep
<1> QED
  BY <1>1, <1>2, <1>3, <1>4, <1>5, <1>6, <1>7, <1>8 DEF Next

LEMMA WInvHolds == Spec => []WInv
BY InitWInv, NextWInv, PTL DEF Spec

-----------------------------------------------------------------------------
(* The theorems *)

\* YchannelWrite counts exactly the bytes that the engine accepted, in the order
\* of the caller, whatever part of a request each call of write, fwrite or
\* OutputStream.write takes, and however the calls fail.
THEOREM CountIsAccepted == Spec => []ReportedIsAccepted
<1>1. WInv => ReportedIsAccepted
  <2> SUFFICES ASSUME WInv PROVE TypeOK /\ confirmed = drained \o sink \o buffer
    BY DEF ReportedIsAccepted
  <2>1. Types /\ PointerFollowsCount
    BY DEF WInv
  <2>2. TypeOK
    BY <2>1, YchannelWriterAssumption DEF Types, PointerFollowsCount, TypeOK, Byte
  <2> QED
    BY <2>2 DEF WInv, Accepted
<1> QED
  BY <1>1, WInvHolds, PTL

\* A YchannelWrite that returns without a failure has written all it was asked to:
\* its loop leaves off neither early nor behind the end.
THEOREM ShortOnlyOnFailure == Spec => ShortWriteOnlyOnFailure
<1>1. ASSUME WInv, [Next]_vars, pc = "writing", pc' = "ready", vars' # vars, ~ WriteFails
      PROVE  written' = towrite
  <2>1. WriteSome
    BY <1>1 DEF Next, vars, YchannelWrite, WriteNone, YchannelFlush, YchannelSetAutoRelease,
                YchannelRelease, Drain, callVars
  <2>2. PICK n \in Takes(towrite - written) : written' = written + n
    BY <2>1 DEF WriteSome, Advance
  <2>3. written' >= towrite
    BY <1>1, <2>1, "ready" # "writing" DEF WriteSome, LoopEnds
  <2>4. n \in 1..Len(nextc)
    BY <1>1, TakesSome
  <2>5. Len(nextc) = towrite - written /\ written \in Nat /\ towrite \in Nat
    BY <1>1 DEF WInv, Types, PointerFollowsCount
  <2> QED
    BY <2>2, <2>3, <2>4, <2>5
<1>2. WInv /\ [Next]_vars
        => [pc = "writing" /\ pc' = "ready" => written' = towrite \/ WriteFails]_vars
  BY <1>1
<1> QED
  BY <1>2, WInvHolds, PTL DEF Spec, ShortWriteOnlyOnFailure
=============================================================================

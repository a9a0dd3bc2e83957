------------------------------ MODULE Ychannel ------------------------------
(***************************************************************************)
(* The read side of a Ychannel (src/io/ychannel.c): the push-back buffer,  *)
(* the static header of a byte array channel, the prefetch buffer, direct  *)
(* reads from the I/O engine, and the optional length.                     *)
(*                                                                         *)
(* Kinds of channel: "array" has a header and no engine; "fd", "file" and  *)
(* "java" have an engine and no header.  An engine is the bytes it has yet *)
(* to give; each read may give fewer than asked for, or fail, and does not *)
(* return while its source is idle: it waits, or tries again and again.    *)
(*                                                                         *)
(* YchannelRead is cut into the steps of its loops, one engine call or one *)
(* chunk each; the other calls are one step.  A channel has no lock and is *)
(* used by one thread at a time.  Lengths are 64-bit unsigned numbers and  *)
(* requests are ints: IntLimit and LongLimit stand for 2^31 and 2^64.      *)
(***************************************************************************)
EXTENDS Integers, Sequences, SequencesExt

CONSTANTS
  Kinds,         \* the kinds of channel
  Data,          \* the bytes of the underlying input
  Pushable,      \* the byte sequences a reader pushes back
  MaxPushed,     \* bound on the bytes pushed back and not read again
  Requests,      \* the numbers of bytes a caller asks for
  Destinations,  \* "buffer" for YchannelRead, "null" for YchannelSkip
  Lengths,       \* the lengths a caller sets
  NoLength,      \* YCHANNEL_NO_LENGTH
  BufSize,       \* INPUT_BUF_SIZE
  JavaChunk,     \* JARRAY_BUF_SIZE
  IntLimit,      \* an int is in -IntLimit .. IntLimit - 1
  LongLimit,     \* a uint64_t is in 0 .. LongLimit - 1
  Failures       \* can memory run out and can an engine fail?

ASSUME YchannelAssumption ==
  /\ Kinds \subseteq {"array", "fd", "file", "java"}
  /\ Data \in Seq(Nat)
  /\ Pushable \subseteq Seq(Nat)
  /\ MaxPushed \in Nat
  /\ IntLimit \in Nat \ {0}
  /\ LongLimit \in {2 * k * IntLimit : k \in 1..LongLimit}
  /\ Requests \subseteq -IntLimit..(IntLimit - 1)
  /\ Destinations \subseteq {"buffer", "null"}
  /\ Lengths \subseteq 0..(LongLimit - 1)
  /\ NoLength \notin Nat
  /\ BufSize \in Nat \ {0}
  /\ JavaChunk \in Nat \ {0}
  /\ Failures \in BOOLEAN

VARIABLES
  kind,
  pbuf, ppos,         \* push-back buffer and its read position
  hbuf, hpos,         \* static header
  rbuf, rpos,         \* contents of the prefetch buffer
  rsize,              \* its size, 0 until it is allocated
  engine,             \* the bytes the engine has yet to give
  idle,               \* its source has neither bytes, an end nor an error yet
  inlength, incount,  \* length set by the caller, bytes counted as read
  terminated,
  pc, toread, dest,   \* the YchannelRead under way
  failed,             \* history: an engine read failed during it, or memory ran out
  threw,              \* history: a negative result stood for a failure, not the end
  out                 \* history: the bytes the current call has read

bufVars  == <<pbuf, ppos, hbuf, hpos, rbuf, rpos>>
readVars == <<pc, toread, dest>>
vars     == <<kind, bufVars, rsize, engine, idle, inlength, incount, terminated,
              readVars, failed, threw, out>>

Init ==
  /\ kind \in Kinds
  /\ pbuf = <<>> /\ ppos = 0
  /\ hbuf = (IF kind = "array" THEN Data ELSE <<>>) /\ hpos = 0
  /\ rbuf = <<>> /\ rpos = 0 /\ rsize = 0
  /\ engine = (IF kind = "array" THEN <<>> ELSE Data)
  /\ idle \in (IF kind = "array" THEN {FALSE} ELSE BOOLEAN)
  /\ inlength = NoLength /\ incount = 0
  /\ terminated = FALSE
  /\ pc = "ready" /\ toread = 0 /\ dest = "null"
  /\ failed = FALSE
  /\ threw = FALSE
  /\ out = <<>>

Rest(buf, pos) == SubSeq(buf, pos + 1, Len(buf))
Unread == Rest(pbuf, ppos) \o Rest(hbuf, hpos) \o Rest(rbuf, rpos) \o engine

-----------------------------------------------------------------------------
(* The I/O engines: YchannelFdRead, YchannelFileRead, YchannelJavaStreamRead *)

\* What is returned, what is read, and the bytes that the source has given up.
Some(k)  == [ret |-> k, data |-> SubSeq(engine, 1, k), used |-> k]
None     == [ret |-> 0, data |-> <<>>, used |-> 0]
Lost(k)  == [ret |-> -1, data |-> <<>>, used |-> k]
Negative == Lost(0)

\* The fd engine returns 0 at the end of its input, the file engine -1; both
\* return 0 if the read fails.
EngineResults(n) ==
  {Some(k) : k \in 1..Min({n, Len(engine)})}
  \cup (IF engine = <<>> THEN {IF kind = "file" THEN Negative ELSE None} ELSE {})
  \cup (IF Failures THEN {None} ELSE {})

\* A Java stream gives no more than its array holds.  It returns -1 at the end,
\* after an exception, and when it gave nothing twice in a row.  What read() had
\* taken from the stream when it threw, or GetByteArrayRegion did, is lost.
JavaResults(n) ==
  {Some(k) : k \in 1..Min({n, JavaChunk, Len(engine)})}
  \cup (IF engine = <<>> THEN {Negative} ELSE {})
  \cup (IF Failures THEN {Lost(k) : k \in 0..Min({n, JavaChunk, Len(engine)})} ELSE {})

\* YchannelReadDirect calls the engine; a channel without a read callback gives
\* nothing.
CallsEngine(n) == kind # "array" /\ n > 0

ReadDirect(n) ==
  IF ~ CallsEngine(n) THEN {None}
  ELSE IF kind = "java" THEN JavaResults(n)
  ELSE EngineResults(n)

\* The call of the engine returned r.  Nothing read where the engine had something
\* is a failure.
Gave(n, r) ==
  /\ CallsEngine(n) => ~ idle
  /\ idle' \in (IF CallsEngine(n) THEN BOOLEAN ELSE {idle})
  /\ engine' = SubSeq(engine, r.used + 1, Len(engine))
  /\ failed' = (pc # "ready" /\ (failed \/ (engine # <<>> /\ r.data = <<>>)))

GaveNothing == UNCHANGED <<engine, idle, failed>>

\* The loop of YchannelFdRead: while nothing has arrived on a descriptor that does not
\* block, or when a signal has, it reads again at once.
FdReadsAgain ==
  /\ kind = "fd"
  /\ pc \in {"direct", "fetch"}
  /\ UNCHANGED vars

\* The source has something to say: bytes, its end or an error.
Arrives ==
  /\ idle
  /\ idle' = FALSE
  /\ UNCHANGED <<kind, bufVars, rsize, engine, inlength, incount, terminated,
                 readVars, failed, threw, out>>

-----------------------------------------------------------------------------
(* YchannelFetchData *)

\* A uint64_t converted to an int.
ToInt(x) ==
  LET low == x % (2 * IntLimit)
  IN  IF low < IntLimit THEN low ELSE low - 2 * IntLimit

\* Mutant: forgets what was read before.
Limit_NoCount(n) ==
  IF inlength # NoLength /\ inlength < Max({n, 0}) THEN inlength ELSE Max({n, 0})

\* How many of n bytes the length still allows.
Limit(n) ==
  LET asked  == Max({n, 0})
      nbytes == IF inlength < asked THEN inlength ELSE asked
  IN  IF inlength = NoLength THEN asked
      ELSE IF inlength - nbytes < incount THEN ToInt(inlength - incount)
      ELSE nbytes

Chunk(buf, pos, n) == SubSeq(buf, pos + 1, Min({pos + n, Len(buf)}))

\* What a fetch can find in one of the buffers or get from the engine.
Chunks ==
  UNION {{SubSeq(b, i, j) : i \in 1..(Len(b) + 1), j \in 0..Len(b)} :
           b \in {pbuf, hbuf, rbuf, engine}}

\* The chunk c comes from the first buffer that is not used up.
FetchPushed(nbytes, c) ==
  /\ ppos < Len(pbuf)
  /\ c = Chunk(pbuf, ppos, nbytes)
  /\ ppos' = ppos + Len(c)
  /\ UNCHANGED <<pbuf, hbuf, hpos, rbuf, rpos, rsize, engine, idle, failed,
                 terminated, threw>>

FetchHeader(nbytes, c) ==
  /\ ppos >= Len(pbuf)
  /\ hpos < Len(hbuf)
  /\ c = Chunk(hbuf, hpos, nbytes)
  /\ hpos' = hpos + Len(c)
  /\ UNCHANGED <<pbuf, ppos, hbuf, rbuf, rpos, rsize, engine, idle, failed,
                 terminated, threw>>

FetchBuffered(nbytes, c) ==
  /\ ppos >= Len(pbuf)
  /\ hpos >= Len(hbuf)
  /\ rpos < Len(rbuf)
  /\ c = Chunk(rbuf, rpos, nbytes)
  /\ rpos' = rpos + Len(c)
  /\ UNCHANGED <<pbuf, ppos, hbuf, hpos, rbuf, rsize, engine, idle, failed,
                 terminated, threw>>

\* All are used up: the prefetch buffer is allocated if need be and, if doread,
\* filled from the engine.
FetchRefilled(nbytes, doread, c) ==
  /\ ppos >= Len(pbuf)
  /\ hpos >= Len(hbuf)
  /\ rpos >= Len(rbuf)
  /\ rsize' \in IF rsize # 0 THEN {rsize}
                ELSE IF Failures THEN {BufSize, 0} ELSE {BufSize}
  /\ \E r \in IF doread THEN ReadDirect(rsize') ELSE {None} :
       /\ c = Chunk(r.data, 0, nbytes)
       /\ IF doread THEN Gave(rsize', r) ELSE GaveNothing
       /\ terminated' = (terminated \/ r.ret < 0)
       /\ threw' = (threw \/ (r.ret < 0 /\ engine # <<>>))
       /\ rbuf' = r.data
       /\ rpos' = Len(c)
  /\ UNCHANGED <<pbuf, ppos, hbuf, hpos>>

\* A fetch of up to n bytes returns the chunk c.
FetchData(n, doread, c) ==
  /\ \/ /\ Limit(n) <= 0
        /\ c = <<>>
        /\ UNCHANGED <<bufVars, rsize, engine, idle, failed, terminated, threw>>
     \/ /\ Limit(n) > 0
        /\ \/ FetchPushed(Limit(n), c)
           \/ FetchHeader(Limit(n), c)
           \/ FetchBuffered(Limit(n), c)
           \/ FetchRefilled(Limit(n), doread, c)
  /\ incount' = incount + Len(c)

YchannelFetch(n) ==
  /\ pc = "ready"
  /\ \E c \in Chunks : FetchData(n, TRUE, c) /\ out' = c
  /\ UNCHANGED <<kind, inlength, readVars>>

-----------------------------------------------------------------------------
(* YchannelRead and, with no buffer, YchannelSkip *)

YchannelRead(n, d) ==
  /\ pc = "ready"
  /\ out' = <<>>
  /\ toread' = Max({n, 0})
  /\ dest' = d
  /\ failed' = FALSE
  /\ pc' = IF n <= 0 THEN "ready" ELSE "drain"
  /\ UNCHANGED <<kind, bufVars, rsize, engine, idle, inlength, incount, terminated,
                 threw>>

\* A chunk was copied to the caller: the loop ends when nothing is missing.
Copied(c) ==
  /\ out' = out \o c
  /\ toread' = toread - Len(c)
  /\ pc' = IF toread <= Len(c) THEN "ready" ELSE pc

\* Mutant: does not ask whether the buffers are empty.
directio_Always == dest = "buffer"

\* Is it safe to by-pass the buffers?
directio ==
  /\ dest = "buffer"
  /\ ppos >= Len(pbuf)
  /\ hpos >= Len(hbuf)
  /\ rpos >= Len(rbuf)

\* The first loop: what is buffered already.
ReadDrain ==
  /\ pc = "drain"
  /\ \E c \in Chunks :
       /\ FetchData(toread, FALSE, c)
       /\ IF c = <<>>
          THEN /\ pc' = IF directio THEN "direct" ELSE "fetch"
               /\ UNCHANGED <<toread, out>>
          ELSE Copied(c)
  /\ UNCHANGED <<kind, inlength, dest>>

\* Mutant: leaves the loop only on an error, not at the end of the input.
ReadFromEngine_UntilError ==
  /\ pc = "direct"
  /\ \E r \in ReadDirect(toread) :
       /\ Gave(toread, r)
       /\ IF r.ret < 0
          THEN pc' = "fetch" /\ UNCHANGED <<toread, out>>
          ELSE Copied(r.data)
  /\ UNCHANGED <<kind, bufVars, rsize, inlength, incount, terminated, threw, dest>>

\* The second loop: straight from the engine into the caller's buffer.
ReadFromEngine ==
  /\ pc = "direct"
  /\ \E r \in ReadDirect(toread) :
       /\ Gave(toread, r)
       /\ IF r.ret <= 0
          THEN pc' = "fetch" /\ UNCHANGED <<toread, out>>
          ELSE Copied(r.data)
  /\ UNCHANGED <<kind, bufVars, rsize, inlength, incount, terminated, threw, dest>>

\* Mutant: a single fetch instead of the loop.
ReadFetch_Once ==
  /\ pc = "fetch"
  /\ \E c \in Chunks :
       /\ FetchData(toread, TRUE, c)
       /\ pc' = "ready"
       /\ toread' = toread - Len(c)
       /\ out' = out \o c
  /\ UNCHANGED <<kind, inlength, dest>>

\* The third loop: chunks through the prefetch buffer.
ReadFetch ==
  /\ pc = "fetch"
  /\ \E c \in Chunks :
       /\ FetchData(toread, TRUE, c)
       /\ IF c = <<>>
          THEN pc' = "ready" /\ UNCHANGED <<toread, out>>
          ELSE Copied(c)
  /\ UNCHANGED <<kind, inlength, dest>>

-----------------------------------------------------------------------------
(* YchannelPush and the calls that set up and release a channel *)

\* Bound: at most MaxPushed bytes are pushed back and not read again.
YchannelPush(data) ==
  /\ pc = "ready"
  /\ data # <<>>
  /\ Len(data) + Len(Rest(pbuf, ppos)) <= MaxPushed
  /\ pbuf' = data \o Rest(pbuf, ppos)
  /\ ppos' = 0
  /\ incount' = IF Len(data) < incount THEN incount - Len(data) ELSE 0
  /\ out' = <<>>
  /\ UNCHANGED <<kind, hbuf, hpos, rbuf, rpos, rsize, engine, idle, terminated,
                 inlength, readVars, failed, threw>>

\* Any length may be set, below what has been counted by then, too.
YchannelSetLength(length) ==
  /\ pc = "ready"
  /\ inlength' = length
  /\ UNCHANGED <<kind, bufVars, rsize, engine, idle, incount, terminated, readVars,
                 failed, threw, out>>

YchannelResetBuffer ==
  /\ pc = "ready"
  /\ hbuf' = <<>>
  /\ hpos' = 0
  /\ out' = <<>>
  /\ UNCHANGED <<kind, pbuf, ppos, rbuf, rpos, rsize, engine, idle, incount,
                 terminated, inlength, readVars, failed, threw>>

YchannelRelease ==
  /\ pc = "ready"
  /\ pc' = "released"
  /\ rbuf' = <<>> /\ rpos' = 0 /\ rsize' = 0
  /\ hbuf' = <<>> /\ hpos' = 0
  /\ pbuf' = <<>> /\ ppos' = 0
  /\ engine' = <<>> /\ idle' = FALSE
  /\ out' = <<>>
  /\ UNCHANGED <<kind, incount, terminated, inlength, toread, dest, failed, threw>>

\* Mutant: does not look at the push-back buffer.
YchannelEof_NoPushed == hpos >= Len(hbuf) /\ rpos >= Len(rbuf) /\ terminated

YchannelEof ==
  /\ ppos >= Len(pbuf)
  /\ hpos >= Len(hbuf)
  /\ rpos >= Len(rbuf)
  /\ terminated

Next ==
  \/ \E n \in Requests :
       YchannelFetch(n) \/ \E d \in Destinations : YchannelRead(n, d)
  \/ ReadDrain \/ ReadFromEngine \/ ReadFetch
  \/ FdReadsAgain \/ Arrives
  \/ \E data \in Pushable : YchannelPush(data)
  \/ \E length \in Lengths \cup {NoLength} : YchannelSetLength(length)
  \/ YchannelResetBuffer
  \/ YchannelRelease

Spec == Init /\ [][Next]_vars

\* A thread inside YchannelRead keeps running, and whoever writes to the source of its
\* engine goes on or closes it.  While nobody does, a read does not return.
FairSpec ==
  Spec /\ WF_vars(ReadDrain \/ ReadFromEngine \/ ReadFetch) /\ WF_vars(Arrives)

-----------------------------------------------------------------------------
(* What the module checks *)

TypeOK ==
  /\ kind \in Kinds
  /\ ppos \in 0..Len(pbuf) /\ hpos \in 0..Len(hbuf) /\ rpos \in 0..Len(rbuf)
  /\ rsize \in {0, BufSize} /\ Len(rbuf) <= rsize
  /\ inlength \in Lengths \cup {NoLength}
  /\ incount \in Nat
  /\ terminated \in BOOLEAN /\ failed \in BOOLEAN /\ threw \in BOOLEAN
  /\ idle \in BOOLEAN
  /\ pc \in {"ready", "drain", "direct", "fetch", "released"}
  /\ toread \in Int /\ (pc \notin {"ready", "released"} => toread > 0)
  /\ dest \in {"buffer", "null"}
  /\ out \in Seq(Nat)

\* Whichever buffers and engine calls a read goes through, the caller gets the
\* bytes of the stream: none twice, none out of order, pushed back bytes before
\* all others, and none lost but what a Java stream had taken when it threw.
Stream == INSTANCE PushbackStream WITH
            pushed <- Rest(pbuf, ppos),
            source <- Rest(hbuf, hpos) \o Rest(rbuf, rpos) \o engine,
            fragile <- kind = "java"
ImplementsStream == Stream!StreamSpec

\* YchannelEof is true only when there is nothing left to read, even if bytes
\* were pushed back after the engine reported its end.  The exception is a Java
\* stream that threw, which the channel cannot tell from one that ended.
EofOnlyAtEnd == TypeOK /\ (YchannelEof => Unread = <<>> \/ threw)

\* If no length is set, YchannelRead gives fewer bytes than it was asked for only
\* when the input has no more, or a read of the engine failed.
ShortReadOnlyAtEnd ==
  [][pc # "ready" /\ pc' = "ready" /\ toread' > 0 /\ inlength = NoLength
       => failed' \/ Unread' = <<>>]_vars

\* What goes through the buffers is counted and stays within the length, and a
\* read gives no more than it was asked for, in whatever order lengths are set and bytes
\* are read and pushed back.  Both fail if the length lies 2^31 or more below the
\* count: their difference, cut to an int, is positive then.
CountRespectsLength ==
  [][inlength = NoLength \/ incount - inlength < IntLimit =>
       /\ incount' > incount => inlength = NoLength \/ incount' <= inlength
       /\ pc \in {"drain", "direct", "fetch"} => toread' >= 0]_vars

\* YchannelRead returns, whatever the engine answers, if its source does not stay
\* idle for ever.
ReadReturns == pc \in {"drain", "direct", "fetch"} ~> pc = "ready"
=============================================================================

--------------------------- MODULE YchannelWriter ---------------------------
(***************************************************************************)
(* The write side of a Ychannel (src/io/ychannel.c) with the write, flush  *)
(* and release callbacks of its three engines (src/io/engine): "fd" writes *)
(* to a descriptor, "file" to a FILE with a buffer of its own, "java" to a *)
(* java.io.OutputStream, which may have a buffer of its own too.           *)
(*                                                                         *)
(* Behind the engine is a sink of limited size that a peer drains, such as *)
(* a pipe; a descriptor may be non-blocking.  The bytes that the caller    *)
(* writes are numbered, so that none can be mistaken for another.  A call  *)
(* of YchannelWrite is cut into its calls of the engine.  A stream that    *)
(* throws is taken to have kept nothing of the chunk it was given.         *)
(***************************************************************************)
EXTENDS Integers, Sequences, SequencesExt

CONSTANTS
  Kinds,       \* the kinds of channel
  Requests,    \* the numbers of bytes a caller writes
  MaxBytes,    \* bound on the bytes written in all
  SinkSize,    \* the bytes the sink holds before it is full
  BufferSize,  \* the bytes a FILE or an OutputStream may keep back
  ChunkSize,   \* JARRAY_BUF_SIZE
  Failures     \* can the calls of the engines fail?

ASSUME YchannelWriterAssumption ==
  /\ Kinds \subseteq {"fd", "file", "java"}
  /\ Requests \subseteq Int
  /\ MaxBytes \in Nat
  /\ SinkSize \in Nat \ {0}
  /\ BufferSize \in Nat
  /\ ChunkSize \in Nat \ {0}
  /\ Failures \in BOOLEAN

VARIABLES
  kind,
  autorelease,
  pc,         \* "ready", "writing" (in the loop of YchannelWrite), "released"
  towrite,    \* the number of bytes the call was asked to write
  nextc,      \* the bytes from the pointer on
  written,    \* what YchannelWrite has counted
  buffer,     \* what the FILE or the OutputStream keeps back
  sink,       \* what the sink holds
  drained,    \* what the peer has taken from it
  open,       \* the descriptor, FILE or stream has not been closed
  flushed,    \* the last call was a YchannelFlush that returned YOSAL_OK
  produced,   \* history: the number of bytes the caller has produced
  confirmed   \* history: the bytes that calls counted as written

callVars == <<pc, towrite, nextc, written, produced, confirmed>>
vars     == <<kind, autorelease, callVars, buffer, sink, drained, open, flushed>>

Init ==
  /\ kind \in Kinds
  /\ autorelease = FALSE
  /\ pc = "ready"
  /\ towrite = 0
  /\ nextc = <<>>
  /\ written = 0
  /\ buffer = <<>>
  /\ sink = <<>>
  /\ drained = <<>>
  /\ open = TRUE
  /\ flushed = FALSE
  /\ produced = 0
  /\ confirmed = <<>>

-----------------------------------------------------------------------------
(* The engines *)

\* The first bytes of b go where the sink and the buffer have room; a
\* FILE and an OutputStream pass bytes on in order, as many as they like.
Accept(b) ==
  \E k \in 0..Min({Len(buffer \o b), SinkSize - Len(sink)}) :
    /\ kind = "fd" => k = Len(b)
    /\ Len(buffer \o b) - k <= BufferSize
    /\ sink' = sink \o SubSeq(buffer \o b, 1, k)
    /\ buffer' = SubSeq(buffer \o b, k + 1, Len(buffer \o b))

\* How many of n bytes one call of the engine may take.  write and fwrite may
\* take fewer, write only as many as the descriptor can hold; a Java stream
\* takes a whole chunk or throws.
Takes(n) ==
  CASE kind = "fd"   -> 1..n
    [] kind = "file" -> 1..n
    [] kind = "java" -> {Min({n, ChunkSize})}

\* YchannelFdWrite returns 0 if the descriptor is full or a signal arrives.
MayReturnZero == kind = "fd"

-----------------------------------------------------------------------------
(* YchannelWrite *)

\* The bytes that the caller counts on when the next n are counted.
Counted(n) == [i \in 1..n |-> produced - towrite + written + i]

YchannelWrite(n) ==
  /\ pc = "ready"
  /\ produced + Max({n, 0}) <= MaxBytes
  /\ towrite' = Max({n, 0})
  /\ nextc' = [i \in 1..Max({n, 0}) |-> produced + i]
  /\ produced' = produced + Max({n, 0})
  /\ written' = 0
  /\ pc' = IF n <= 0 THEN "ready" ELSE "writing"
  /\ flushed' = FALSE
  /\ UNCHANGED <<kind, autorelease, confirmed, buffer, sink, drained, open>>

\* Mutant: the pointer is not advanced.
Advance_KeepsPointer(n) ==
  /\ written' = written + n
  /\ nextc' = nextc

\* The loop counts n bytes as written and moves past them.
Advance(n) ==
  /\ written' = written + n
  /\ nextc' = SubSeq(nextc, n + 1, Len(nextc))

\* Mutant: stops after the first call of the engine that took something.
LoopEnds_Short == TRUE

\* Mutant: the comparison is off by one.
LoopEnds_OffByOne == written' > towrite

\* The loop condition fails.
LoopEnds == written' >= towrite

\* A call of the engine took some of the bytes.
WriteSome ==
  /\ pc = "writing"
  /\ \E n \in Takes(towrite - written) :
       /\ Accept(SubSeq(nextc, 1, n))
       /\ confirmed' = confirmed \o Counted(n)
       /\ Advance(n)
  /\ pc' = IF LoopEnds THEN "ready" ELSE "writing"
  /\ UNCHANGED <<kind, autorelease, towrite, produced, drained, open, flushed>>

\* A call returned 0: the loop goes on.
WriteNone ==
  /\ pc = "writing"
  /\ MayReturnZero
  /\ UNCHANGED vars

\* A call failed: YchannelWrite returns what it has written so far.
WriteFails ==
  /\ pc = "writing"
  /\ Failures
  /\ pc' = "ready"
  /\ UNCHANGED <<kind, autorelease, towrite, nextc, written, produced, confirmed,
                 buffer, sink, drained, open, flushed>>

-----------------------------------------------------------------------------
(* YchannelFlush, YchannelSetAutoRelease and YchannelRelease *)

\* The first k bytes that were kept back go to the sink.
PassOn(k) ==
  /\ Len(sink) + k <= SinkSize
  /\ sink' = sink \o SubSeq(buffer, 1, k)
  /\ buffer' = SubSeq(buffer, k + 1, Len(buffer))

\* Mutant: the result of fflush is not looked at.
FlushEngine_Unchecked ==
  \/ /\ kind = "file"
     /\ PassOn(Len(buffer)) \/ (Failures /\ \E k \in 0..Len(buffer) : PassOn(k))
     /\ flushed' = TRUE
  \/ /\ kind # "file"
     /\ flushed' = TRUE
     /\ UNCHANGED <<buffer, sink>>

\* What the flush callback does: fflush for "file", which may fail after it has
\* passed on some of the bytes; the others have none, so that YchannelFlush
\* returns YOSAL_OK at once.
FlushEngine ==
  \/ /\ kind = "file"
     /\ PassOn(Len(buffer))
     /\ flushed' = TRUE
  \/ /\ kind = "file"
     /\ Failures
     /\ \E k \in 0..Len(buffer) : PassOn(k)
     /\ flushed' = FALSE
  \/ /\ kind # "file"
     /\ flushed' = TRUE
     /\ UNCHANGED <<buffer, sink>>

YchannelFlush ==
  /\ pc = "ready"
  /\ FlushEngine
  /\ UNCHANGED <<kind, autorelease, callVars, drained, open>>

YchannelSetAutoRelease(b) ==
  /\ pc = "ready"
  /\ autorelease' = b
  /\ flushed' = FALSE
  /\ UNCHANGED <<kind, callVars, buffer, sink, drained, open>>

CloseEngine == open' = (open /\ ~ autorelease)

\* The file engine flushes before it closes, and ignores the result.  A Java stream
\* that is closed flushes too, or close() throws.
YchannelRelease ==
  /\ pc = "ready"
  /\ pc' = "released"
  /\ CloseEngine
  /\ \/ kind = "file" /\ FlushEngine
     \/ /\ kind = "java"
        /\ ~ open'
        /\ PassOn(Len(buffer)) \/ (Failures /\ \E k \in 0..Len(buffer) : PassOn(k))
        /\ flushed' = FALSE
     \/ /\ kind = "fd" \/ (kind = "java" /\ open')
        /\ flushed' = FALSE
        /\ UNCHANGED <<buffer, sink>>
  /\ UNCHANGED <<kind, autorelease, towrite, nextc, written, produced, confirmed,
                 drained>>

\* The peer of the sink reads.
Drain ==
  /\ sink # <<>>
  /\ drained' = Append(drained, Head(sink))
  /\ sink' = Tail(sink)
  /\ UNCHANGED <<kind, autorelease, callVars, buffer, open, flushed>>

Next ==
  \/ \E n \in Requests : YchannelWrite(n)
  \/ WriteSome \/ WriteNone \/ WriteFails
  \/ YchannelFlush
  \/ \E b \in BOOLEAN : YchannelSetAutoRelease(b)
  \/ YchannelRelease
  \/ Drain

Spec == Init /\ [][Next]_vars

\* The peer keeps reading, and a descriptor that has room again and again takes
\* bytes in the end: signals do not interrupt every call for ever.
FairSpec == Spec /\ SF_vars(WriteSome) /\ WF_vars(Drain)

-----------------------------------------------------------------------------
(* What the module checks *)

TypeOK ==
  /\ kind \in Kinds
  /\ autorelease \in BOOLEAN /\ open \in BOOLEAN /\ flushed \in BOOLEAN
  /\ pc \in {"ready", "writing", "released"}
  /\ towrite \in 0..MaxBytes /\ written \in 0..towrite
  /\ produced \in 0..MaxBytes
  /\ nextc \in Seq(1..MaxBytes) /\ Len(nextc) = towrite - written
  /\ pc = "writing" => nextc # <<>>
  /\ Len(buffer) <= BufferSize /\ Len(sink) <= SinkSize
  /\ drained \in Seq(1..MaxBytes)

\* What YchannelWrite counts as written is what has been accepted for the peer,
\* in order: no byte is lost or written twice when the engine takes less than it
\* was given, returns 0 or fails half way.
ReportedIsAccepted == TypeOK /\ confirmed = drained \o sink \o buffer

\* YchannelWrite returns less than it was asked to write only if the engine
\* failed.
ShortWriteOnlyOnFailure ==
  [][pc = "writing" /\ pc' = "ready" => written' = towrite \/ WriteFails]_vars

\* What ychannel.h says of the flush callback: when it has returned YOSAL_OK, everything
\* that was written before is sure to arrive.  So the peer gets all that YchannelWrite
\* had counted by then, whatever the caller does next, releasing the channel included.
\* The engine of Java streams has no such callback, and YchannelFlush says YOSAL_OK
\* for them whatever the stream keeps back.
FlushedArrives ==
  \A n \in 1..MaxBytes :
    flushed /\ kind # "java" /\ Len(confirmed) = n ~> Len(drained) >= n

\* YchannelWrite returns, however often the descriptor is full.
WriteReturns == pc = "writing" ~> pc = "ready"
=============================================================================

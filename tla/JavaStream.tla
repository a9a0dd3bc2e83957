----------------------------- MODULE JavaStream -----------------------------
(***************************************************************************)
(* The Java stream engine of a Ychannel, src/io/engine/javastream.c: how a *)
(* channel over a java.io.InputStream or OutputStream is made and released, *)
(* which global references its engine holds, and which exceptions its      *)
(* calls leave.  (The bytes that they move are in Ychannel and in          *)
(* YchannelWriter.)                                                        *)
(*                                                                         *)
(* The stream passed in is of the right class, so that its methods exist;  *)
(* only close() may be missing.  A stream is used from the thread that     *)
(* opened it, to which env belongs.                                        *)
(***************************************************************************)
EXTENDS Jni

CONSTANTS
  InputStream,   \* the java.io.InputStreams over which callers make channels
  OutputStream   \* the java.io.OutputStreams

Stream == InputStream \cup OutputStream

VARIABLES
  engine,   \* the engine of the channel over each stream
  leaked,   \* history: references of engines given up before env was set
  lacking   \* history: a stream without close() was opened

streamVars == <<engine, leaked, lacking>>

\* A new engine.  It stands for the missing one too: that of a channel has an env.
engineCreate == [env |-> FALSE, stream |-> NULL,
                 inbytearray |-> NULL, inputStreamClass |-> NULL,
                 outbytearray |-> NULL, outputStreamClass |-> NULL, close |-> FALSE]

Exists(e) == e.env

\* The references that the engine refers to.
Held(e) ==
  {e.stream, e.inbytearray, e.inputStreamClass, e.outbytearray, e.outputStreamClass} \cap Ref

\* Mutant: the array of an output stream is forgotten.
engineRelease_KeepsArray(e) == IF e.env THEN Held(e) \ {e.outbytearray} ELSE {}

\* The references that engineRelease deletes: none, while env is NULL.
engineRelease(e) == IF e.env THEN Held(e) ELSE {}

StreamInit ==
  /\ engine = [s \in Stream |-> engineCreate]
  /\ leaked = {}
  /\ lacking = FALSE

-----------------------------------------------------------------------------
(* YchannelInitJavaInputStream and YchannelInitJavaOutputStream *)

\* GetObjectClass, GetMethodID for each method (reset and read, or write, then
\* close, which may be missing) and NewByteArray.
Lookups(j, kind, hasClose, noArray) ==
  LET class   == JniCall(j, FALSE)
      methods == JniCall(IF kind = "in" THEN JniCall(class, FALSE) ELSE class, FALSE)
  IN  JniCall(JniCall(methods, ~ hasClose), noArray)

\* The engine after its first n references: stream, array and class.
WithRefs(kind, r, n) ==
  LET Part(i, k) == IF i <= n /\ k = kind THEN r[i] ELSE NULL
  IN  [env |-> FALSE, stream |-> Part(1, kind),
       inbytearray  |-> Part(2, "in"),  inputStreamClass  |-> Part(3, "in"),
       outbytearray |-> Part(2, "out"), outputStreamClass |-> Part(3, "out"), close |-> FALSE]

\* The array cannot be had, or the struct.
OpenRefused(kind, hasClose) ==
  /\ Failures
  /\ \E noArray \in BOOLEAN : jvm' = Lookups(jvm, kind, hasClose, noArray)
  /\ UNCHANGED <<global, engine, leaked>>

\* The reference after the n-th cannot be had, when env is not set yet, or, after
\* the third, YchannelInitGeneric fails: the engine is released.
OpenFails(kind, r, n) ==
  LET e == [WithRefs(kind, r, n) EXCEPT !.env = (n = 3)]
  IN  /\ Failures
      /\ global' = (global \cup Held(e)) \ engineRelease(e)
      /\ leaked' = leaked \cup (IF e.env THEN {} ELSE Held(e))
      /\ UNCHANGED engine

OpenSucceeds(s, kind, r, hasClose) ==
  /\ engine' = [engine EXCEPT ![s] =
                  [WithRefs(kind, r, 3) EXCEPT !.env = TRUE, !.close = hasClose]]
  /\ global' = global \cup {r[1], r[2], r[3]}
  /\ UNCHANGED leaked

\* Three references that do not exist yet, which ones does not matter.
Room == Cardinality(Ref \ global) >= 3
NewRefs == CHOOSE r \in [1..3 -> Ref \ global] : \A i, k \in 1..3 : r[i] = r[k] => i = k

Open(s, kind) ==
  /\ MayCall
  /\ ~ Exists(engine[s])
  /\ \E hasClose \in BOOLEAN :
       /\ lacking' = (lacking \/ ~ hasClose)
       /\ \/ OpenRefused(kind, hasClose)
          \/ /\ Room
             /\ jvm' = JniCall(Lookups(jvm, kind, hasClose, FALSE), FALSE)   \* NewGlobalRef
             /\ \/ \E n \in 0..3 : OpenFails(kind, NewRefs, n)
                \/ OpenSucceeds(s, kind, NewRefs, hasClose)
  /\ checks' = TRUE

YchannelInitJavaInputStream(s)  == Open(s, "in")
YchannelInitJavaOutputStream(s) == Open(s, "out")

-----------------------------------------------------------------------------
(* The engine's read, write and release.  The first two hide every exception *)
(* from their caller, who learns of it by the result -1.                     *)

\* CallIntMethod and, when it read something, GetByteArrayRegion.
TryRead(j) ==
  UNION {{Checked(JniCall(j, t)), Checked(JniCall(JniCall(j, FALSE), t))} : t \in MayThrow}

\* A read that returns 0 is tried once more.
YchannelJavaStreamRead(s) ==
  /\ MayCall
  /\ Exists(engine[s])
  /\ jvm' \in TryRead(jvm) \cup TryRead(JniCall(jvm, FALSE))
  /\ checks' = FALSE
  /\ UNCHANGED <<global, streamVars>>

\* Mutant: the copy into the array is not looked at before write() is called.
YchannelJavaStreamWrite_Unchecked(s) ==
  /\ MayCall
  /\ Exists(engine[s])
  /\ \E t, u \in MayThrow : jvm' = Checked(JniCall(JniCall(jvm, t), u))
  /\ checks' = FALSE
  /\ UNCHANGED <<global, streamVars>>

\* SetByteArrayRegion and, if it did not throw, CallVoidMethod.
YchannelJavaStreamWrite(s) ==
  /\ MayCall
  /\ Exists(engine[s])
  /\ \/ Failures /\ jvm' = Checked(JniCall(jvm, TRUE))
     \/ \E t \in MayThrow : jvm' = Checked(JniCall(JniCall(jvm, FALSE), t))
  /\ checks' = FALSE
  /\ UNCHANGED <<global, streamVars>>

\* close() is called when the channel releases its stream and the stream has it.
\* An exception of close() is left to the caller.
YchannelJavaStreamRelease(s, autoRelease) ==
  /\ MayCall
  /\ Exists(engine[s])
  /\ IF autoRelease /\ engine[s].close
     THEN \E t \in MayThrow : jvm' = JniCall(jvm, t)
     ELSE UNCHANGED jvm
  /\ global' = global \ engineRelease(engine[s])
  /\ engine' = [engine EXCEPT ![s] = engineCreate]
  /\ checks' = TRUE
  /\ UNCHANGED <<leaked, lacking>>

StreamNext ==
  \/ \E s \in InputStream : YchannelInitJavaInputStream(s) \/ YchannelJavaStreamRead(s)
  \/ \E s \in OutputStream : YchannelInitJavaOutputStream(s) \/ YchannelJavaStreamWrite(s)
  \/ \E s \in Stream, autoRelease \in BOOLEAN : YchannelJavaStreamRelease(s, autoRelease)

-----------------------------------------------------------------------------
(* Properties *)

\* Every global reference that exists is held by exactly one engine, or was lost
\* with an engine given up before it had its env; an engine in use has all three
\* of its references, and they exist.
RefsExact ==
  /\ global = leaked \cup UNION {Held(engine[s]) : s \in Stream}
  /\ \A s \in Stream :
       /\ Exists(engine[s]) => Cardinality(Held(engine[s])) = 3
       /\ Held(engine[s]) \cap leaked = {}
       /\ \A t \in Stream \ {s} : Held(engine[s]) \cap Held(engine[t]) = {}

\* As long as every stream has a close(), no JNI call is made while an exception
\* is pending: reads, writes and strings clear the exceptions of their own calls.
PendingRespected == jvm.misused => lacking
=============================================================================

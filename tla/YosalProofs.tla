---------------------------- MODULE YosalProofs -----------------------------
(***************************************************************************)
(* Theorems about what concerns the whole library: its initialisation, for *)
(* any set of threads, and what it does on a Java thread, for any streams, *)
(* texts and finite set of references.                                     *)
(***************************************************************************)
EXTENDS YosalInit, YosalJni, FiniteSetTheorems, SequenceTheorems, WellFoundedInduction, TLAPS

-----------------------------------------------------------------------------
(* Initialisation.  The invariant follows the mutex.  Only its holder      *)
(* writes, so that there are three cases: nobody has called srand48; the   *)
(* holder has, and is on its way to set gYosal_ready or has set it for     *)
(* itself; or gYosal_ready has reached the memory, where it stays and      *)
(* stops every later thread at one of the two checks.                      *)

Inside == {"recheck", "first", "second", "unlock"}

\* The mutex is held by the thread that is between lock and unlock.
Locked == \A t \in Threads : pc[t] \in Inside <=> mutex = t

\* What has been written at each place of the function.
Written ==
  \A t \in Threads :
    /\ pc[t] \in {"idle", "check", "lock", "recheck", "first"} => pending[t] = {}
    /\ pc[t] = "first" => seeds = 0 /\ "ready" \notin memory
    /\ pc[t] = "second" => seeds = 1 /\ "ready" \notin memory \cup pending[t]
    /\ pc[t] = "unlock" => "ready" \in memory \cup pending[t]
    /\ pc[t] = "return" => "ready" \in memory
    /\ pc[t] = "returned" => "ready" \in memory /\ result[t] = 1

\* Nobody can seed again.
Seeded ==
  /\ seeds \in {0, 1}
  /\ seeds = 1 =>
       \/ "ready" \in memory
       \/ \E t \in Threads :
            \/ pc[t] = "second"
            \/ pc[t] = "unlock" /\ "ready" \in pending[t]

\* Writes keep their order on the way to the memory.
StateFirst ==
  Ordered =>
    /\ "ready" \in memory => "state" \in memory
    /\ \A t \in Threads :
         pc[t] = "second" \/ "ready" \in pending[t] =>
           "state" \in memory \cup pending[t]

IInv == TypeOK /\ Locked /\ Written /\ Seeded /\ StateFirst

-----------------------------------------------------------------------------

LEMMA Initially == LibraryInit => IInv
  <1> SUFFICES ASSUME LibraryInit PROVE IInv
    OBVIOUS
  <1> USE YosalInitAssumption DEF LibraryInit
  <1>1. TypeOK
    BY DEF TypeOK, Variables
  <1>2. Locked
    BY DEF Locked, Inside
  <1>3. Written /\ Seeded /\ StateFirst
    BY DEF Written, Seeded, StateFirst
  <1> QED BY <1>1, <1>2, <1>3 DEF IInv

\* Type correctness needs to know where a thread that writes is.
LEMMA TypeStep == IInv /\ [LibraryNext]_libraryVars => TypeOK'
  <1> SUFFICES ASSUME IInv, [LibraryNext]_libraryVars PROVE TypeOK'
    OBVIOUS
  <1> USE YosalInitAssumption DEF IInv, TypeOK, Variables
  <1>1. CASE UNCHANGED libraryVars
    BY <1>1 DEF libraryVars
  <1>2. ASSUME NEW t \in Threads, Call(t) \/ Check(t) \/ Return(t) \/ Use(t)
        PROVE TypeOK'
    <2>1. CASE Call(t) \/ Use(t)
      BY <2>1 DEF Call, Use, Goto, At
    <2>2. CASE Check(t)
      <3>1. PICK l \in {"return", "lock"} : pc' = [pc EXCEPT ![t] = l]
        BY <2>2 DEF Check, Goto
      <3> QED BY <2>2, <3>1 DEF Check
    <2>3. CASE Return(t)
      <3>1. PICK r \in {-1, 1} : result' = [result EXCEPT ![t] = r]
        BY <2>3 DEF Return
      <3> QED BY <2>3, <3>1 DEF Return, Goto, At
    <2> QED BY <1>2, <2>1, <2>2, <2>3
  <1>3. ASSUME NEW t \in Threads, Lock(t) PROVE TypeOK'
    BY <1>3 DEF Lock, Lockable, Goto, At
  <1>4. ASSUME NEW t \in Threads, CheckAgain(t) PROVE TypeOK'
    <2>1. PICK l \in {"unlock", "first"} : pc' = [pc EXCEPT ![t] = l]
      BY <1>4 DEF CheckAgain, Recheck, Goto
    <2> QED BY <1>4, <2>1 DEF CheckAgain
  <1>5. ASSUME NEW t \in Threads, WriteFirst(t) \/ WriteSecond(t) PROVE TypeOK'
    <2>1. mutex = t
      BY <1>5 DEF WriteFirst, WriteSecond, At, Locked, Inside
    <2>2. PICK v \in Variables : Write(t, v)
      BY <1>5 DEF WriteFirst, WriteSecond, Writes
    <2>3. PICK l \in {"second", "unlock"} : pc' = [pc EXCEPT ![t] = l]
      BY <1>5 DEF WriteFirst, WriteSecond, Goto
    <2>4. seeds' \in Nat
      BY <2>2 DEF Write
    <2> QED BY <2>1, <2>2, <2>3, <2>4 DEF Write
  <1>6. ASSUME NEW t \in Threads, Propagate(t) PROVE TypeOK'
    BY <1>6 DEF Propagate
  <1>7. ASSUME NEW t \in Threads, Unlock(t) PROVE TypeOK'
    <2>1. mutex = t
      BY <1>7 DEF Unlock, At, Locked, Inside
    <2> QED BY <1>7, <2>1 DEF Unlock, Freed, Goto, At
  <1> QED BY <1>1, <1>2, <1>3, <1>4, <1>5, <1>6, <1>7 DEF LibraryNext, Yosal_init

LEMMA LockedStep == IInv /\ [LibraryNext]_libraryVars => Locked'
  <1> SUFFICES ASSUME IInv, [LibraryNext]_libraryVars PROVE Locked'
    OBVIOUS
  <1> USE YosalInitAssumption DEF IInv, TypeOK, Locked, Inside
  <1>1. CASE UNCHANGED libraryVars
    BY <1>1 DEF libraryVars
  <1>2. ASSUME NEW t \in Threads, Call(t) \/ Check(t) \/ Return(t) \/ Use(t)
        PROVE Locked'
    BY <1>2 DEF Call, Check, Return, Use, Goto, At, Sees
  <1>3. ASSUME NEW t \in Threads, Lock(t) PROVE Locked'
    BY <1>3 DEF Lock, Lockable, Goto, At
  <1>4. ASSUME NEW t \in Threads, CheckAgain(t) PROVE Locked'
    BY <1>4 DEF CheckAgain, Recheck, Goto, At
  <1>5. ASSUME NEW t \in Threads, WriteFirst(t) \/ WriteSecond(t) PROVE Locked'
    BY <1>5 DEF WriteFirst, WriteSecond, Write, Goto, At
  <1>6. ASSUME NEW t \in Threads, Propagate(t) PROVE Locked'
    BY <1>6 DEF Propagate
  <1>7. ASSUME NEW t \in Threads, Unlock(t) PROVE Locked'
    BY <1>7 DEF Unlock, Freed, Goto, At
  <1> QED BY <1>1, <1>2, <1>3, <1>4, <1>5, <1>6, <1>7 DEF LibraryNext, Yosal_init

\* The conjuncts about the writes disturb one another, step by step.
LEMMA WrittenStep == IInv /\ [LibraryNext]_libraryVars => Written' /\ Seeded' /\ StateFirst'
  <1> SUFFICES ASSUME IInv, [LibraryNext]_libraryVars
               PROVE Written' /\ Seeded' /\ StateFirst'
    OBVIOUS
  <1> USE YosalInitAssumption DEF IInv, TypeOK, Variables
  <1>1. CASE UNCHANGED libraryVars
    BY <1>1 DEF libraryVars, Written, Seeded, StateFirst
  <1>2. ASSUME NEW t \in Threads, Call(t) \/ Check(t) \/ Return(t) \/ Use(t)
        PROVE Written' /\ Seeded' /\ StateFirst'
    <2> USE <1>2 DEF Call, Check, Return, Use, Goto, At, Sees
    <2>1. pending[t] = {}
      BY DEF Locked, Inside
    <2>2. Written'
      BY <2>1 DEF Written
    <2>3. Seeded'
      BY <2>1 DEF Seeded
    <2>4. StateFirst'
      BY <2>1 DEF StateFirst
    <2> QED BY <2>2, <2>3, <2>4
  <1>3. ASSUME NEW t \in Threads, Lock(t)
        PROVE Written' /\ Seeded' /\ StateFirst'
    BY <1>3 DEF Lock, Lockable, Goto, At, Written, Seeded, StateFirst
  <1>4. ASSUME NEW t \in Threads, CheckAgain(t)
        PROVE Written' /\ Seeded' /\ StateFirst'
    <2> USE <1>4 DEF CheckAgain, Recheck, Goto, At, Sees
    <2>1. pending[t] = {}
      BY DEF Written
    <2>2. seeds = 1 => "ready" \in memory
      BY DEF Seeded, Locked, Inside
    <2>3. Written'
      BY <2>1, <2>2 DEF Written, Seeded
    <2>4. Seeded'
      BY <2>2 DEF Seeded
    <2>5. StateFirst'
      BY DEF StateFirst
    <2> QED BY <2>3, <2>4, <2>5
  <1>5. ASSUME NEW t \in Threads, WriteFirst(t)
        PROVE Written' /\ Seeded' /\ StateFirst'
    <2> USE <1>5 DEF WriteFirst, Write, Writes, Goto, At
    <2>1. \A u \in Threads \ {t} : pc[u] \notin Inside /\ pending[u] = {}
      BY DEF Locked, Inside
    <2>2. seeds = 0 /\ "ready" \notin memory /\ pending[t] = {}
      BY DEF Written
    <2>3. Written'
      BY <2>1, <2>2 DEF Written, Inside
    <2>4. Seeded'
      BY <2>2 DEF Seeded
    <2>5. StateFirst'
      BY <2>1, <2>2 DEF StateFirst, Inside
    <2> QED BY <2>3, <2>4, <2>5
  <1>6. ASSUME NEW t \in Threads, WriteSecond(t)
        PROVE Written' /\ Seeded' /\ StateFirst'
    <2> USE <1>6 DEF WriteSecond, Write, Writes, Goto, At
    <2>1. \A u \in Threads \ {t} : pc[u] \notin Inside /\ pending[u] = {}
      BY DEF Locked, Inside
    <2>2. Written'
      BY <2>1 DEF Written, Inside
    <2>3. Seeded'
      BY DEF Seeded, Written
    <2>4. StateFirst'
      BY <2>1 DEF StateFirst, Inside
    <2> QED BY <2>2, <2>3, <2>4
  <1>7. ASSUME NEW t \in Threads, Propagate(t)
        PROVE Written' /\ Seeded' /\ StateFirst'
    <2>1. PICK v \in pending[t] :
            /\ Ordered /\ v = "ready" => "state" \notin pending[t]
            /\ memory' = memory \cup {v}
            /\ pending' = [pending EXCEPT ![t] = @ \ {v}]
      BY <1>7 DEF Propagate, Writes
    <2>2. pc' = pc /\ seeds' = seeds /\ result' = result
      BY <1>7 DEF Propagate
    <2>3. mutex = t /\ pc[t] \in {"second", "unlock"}
      BY <2>1 DEF Locked, Inside, Written
    <2>4. \A u \in Threads \ {t} : pc[u] \notin Inside /\ pending[u] = {}
      BY <2>3 DEF Locked
    <2>5. Written'
      BY <2>1, <2>2, <2>3, <2>4 DEF Written, Inside
    <2>6. Seeded'
      BY <2>1, <2>2 DEF Seeded
    <2>7. StateFirst'
      BY <2>1, <2>2, <2>4 DEF StateFirst, Inside
    <2> QED BY <2>5, <2>6, <2>7
  <1>8. ASSUME NEW t \in Threads, Unlock(t)
        PROVE Written' /\ Seeded' /\ StateFirst'
    <2> USE <1>8 DEF Unlock, Goto, At
    <2>1. "ready" \in memory
      BY DEF Written
    <2>2. Written'
      BY <2>1 DEF Written
    <2>3. Seeded'
      BY <2>1 DEF Seeded
    <2>4. StateFirst'
      BY DEF StateFirst
    <2> QED BY <2>2, <2>3, <2>4
  <1> QED BY <1>1, <1>2, <1>3, <1>4, <1>5, <1>6, <1>7, <1>8 DEF LibraryNext, Yosal_init

\* The invariant is inductive.
THEOREM Inductive == LibrarySpec => []IInv
  <1>1. IInv /\ [LibraryNext]_libraryVars => IInv'
    BY TypeStep, LockedStep, WrittenStep DEF IInv
  <1> QED BY Initially, <1>1, PTL DEF LibrarySpec

\* Only the holder of the mutex has writes that others do not see (TypeOK).
THEOREM TypeCorrect == LibrarySpec => []TypeOK
  <1>1. IInv => TypeOK
    BY DEF IInv
  <1> QED BY Inductive, <1>1, PTL

\* The check inside the mutex keeps a second thread from seeding again,
\* whatever the order in which the writes become visible.
THEOREM SeedsOnce == LibrarySpec => []SeededOnce
  <1>1. IInv => SeededOnce
    BY DEF IInv, Seeded, SeededOnce
  <1> QED BY Inductive, <1>1, PTL

\* The return value is that of an initialised library.
THEOREM NeverUnready == LibrarySpec => []ReturnsReady
  <1>1. IInv => ReturnsReady
    BY DEF IInv, Written, ReturnsReady, At
  <1> QED BY Inductive, <1>1, PTL

\* If writes reach the memory in the order of the program, the check outside the
\* mutex is sound: who sees gYosal_ready sees what was set up before it.
THEOREM OrderedIsSound == Ordered => (LibrarySpec => []InitialisedForCaller)
  <1> SUFFICES ASSUME Ordered PROVE LibrarySpec => []InitialisedForCaller
    OBVIOUS
  <1>1. IInv => InitialisedForCaller
    BY DEF IInv, Written, StateFirst, InitialisedForCaller, At, Sees
  <1> QED BY Inductive, <1>1, PTL

-----------------------------------------------------------------------------
(* Exceptions.  A function that is not checked by its caller leaves none. *)

JvmType == jvm \in [pending : BOOLEAN, misused : BOOLEAN] /\ checks \in BOOLEAN /\ lacking \in BOOLEAN

\* The inductive invariant: an exception is pending only after a function whose
\* caller looks for it.
PInv ==
  /\ JvmType
  /\ PendingRespected
  /\ jvm.pending => checks

LEMMA ThrowType == MayThrow \subseteq BOOLEAN
BY DEF MayThrow

\* What the calls make of a state without an exception.
LEMMA Calls ==
  ASSUME NEW j \in [pending : BOOLEAN, misused : BOOLEAN], ~ j.pending, NEW t \in BOOLEAN
  PROVE  /\ JniCall(j, t) = [pending |-> t, misused |-> j.misused]
         /\ JniCall(j, FALSE) = j
         /\ ~ t => JniCall(j, t) = j
         /\ Checked(JniCall(j, t)) = j
         /\ Checked(j) = j
         /\ JniCall(j, t) \in [pending : BOOLEAN, misused : BOOLEAN]
         /\ JniCall(j, t).misused = j.misused
<1>1. j = [pending |-> FALSE, misused |-> j.misused]
  OBVIOUS
<1>2. JniCall(j, t) = [pending |-> t, misused |-> j.misused]
  BY <1>1 DEF JniCall
<1>3. JniCall(j, FALSE) = j
  BY <1>1 DEF JniCall
<1>4. ~ t => JniCall(j, t) = j
  BY <1>1, <1>2
<1>5. Checked(j) = j
  BY DEF Checked
<1>6. Checked(JniCall(j, t)) = j
  <2>1. CASE t
    <3>1. t = TRUE
      BY <2>1
    <3>2. JniCall(j, t) = [pending |-> TRUE, misused |-> j.misused]
      BY <3>1, <1>2
    <3>3. ExceptionClear([pending |-> TRUE, misused |-> j.misused]) = [pending |-> FALSE, misused |-> j.misused]
      BY DEF ExceptionClear
    <3>4. Checked([pending |-> TRUE, misused |-> j.misused]) = [pending |-> FALSE, misused |-> j.misused]
      BY <3>3 DEF Checked
    <3> QED BY <1>1, <3>2, <3>4
  <2>2. CASE ~ t
    BY <2>2, <1>4, <1>5
  <2> QED BY <2>1, <2>2
<1>7. j.misused \in BOOLEAN
  OBVIOUS
<1>8. [pending |-> t, misused |-> j.misused] \in [pending : BOOLEAN, misused : BOOLEAN]
  BY <1>7
<1>9. [pending |-> t, misused |-> j.misused].misused = j.misused
  OBVIOUS
<1> QED BY <1>2, <1>3, <1>4, <1>5, <1>6, <1>8, <1>9

\* The lookups misuse the virtual machine only if close() is missing.
LEMMA LookupsMisuse ==
  ASSUME NEW j \in [pending : BOOLEAN, misused : BOOLEAN], ~ j.pending,
         NEW kind, NEW hasClose \in BOOLEAN, NEW noArray \in BOOLEAN
  PROVE  /\ Lookups(j, kind, hasClose, noArray) \in [pending : BOOLEAN, misused : BOOLEAN]
         /\ hasClose => Lookups(j, kind, hasClose, noArray) = JniCall(j, noArray)
<1>1. JniCall(j, FALSE) = j
  BY Calls
<1>2. JniCall(IF kind = "in" THEN JniCall(JniCall(j, FALSE), FALSE) ELSE JniCall(j, FALSE), FALSE) = j
  BY <1>1
<1>3. Lookups(j, kind, hasClose, noArray) = JniCall(JniCall(j, ~ hasClose), noArray)
  BY <1>2 DEF Lookups
<1>4. hasClose => JniCall(j, ~ hasClose) = j
  BY Calls
<1>5. JniCall(JniCall(j, ~ hasClose), noArray) \in [pending : BOOLEAN, misused : BOOLEAN]
  BY DEF JniCall
<1> QED BY <1>3, <1>4, <1>5

LEMMA PInit == Init => PInv
<1> SUFFICES ASSUME Init PROVE PInv
  OBVIOUS
<1>1. jvm = [pending |-> FALSE, misused |-> FALSE] /\ checks = FALSE /\ lacking = FALSE
  BY DEF Init, JniInit, StreamInit
<1>2. [pending |-> FALSE, misused |-> FALSE] \in [pending : BOOLEAN, misused : BOOLEAN]
  OBVIOUS
<1>3. JvmType
  BY <1>1, <1>2 DEF JvmType
<1>4. jvm.pending = FALSE /\ jvm.misused = FALSE
  BY <1>1
<1>5. ~ jvm.pending /\ ~ jvm.misused
  BY <1>4, Zenon
<1> QED BY <1>3, <1>5 DEF PInv, PendingRespected

LEMMA PNext == PInv /\ [Next]_vars => PInv'
<1> SUFFICES ASSUME PInv, [Next]_vars PROVE PInv'
  OBVIOUS
<1> USE DEF PInv, JvmType, PendingRespected
<1>1. MayCall => ~ jvm.pending
  BY DEF MayCall
<1>2. ASSUME NEW s \in Stream, NEW kind, Open(s, kind) PROVE PInv'
  <2>1. ~ jvm.pending /\ checks' = TRUE
    BY <1>1, <1>2 DEF Open
  <2>2. PICK hasClose \in BOOLEAN :
          /\ lacking' = (lacking \/ ~ hasClose)
          /\ \/ OpenRefused(kind, hasClose)
             \/ jvm' = JniCall(Lookups(jvm, kind, hasClose, FALSE), FALSE)
    BY <1>2 DEF Open
  <2>3. CASE OpenRefused(kind, hasClose)
    <3>1. PICK noArray \in BOOLEAN : jvm' = Lookups(jvm, kind, hasClose, noArray)
      BY <2>3 DEF OpenRefused
    <3>2. jvm' \in [pending : BOOLEAN, misused : BOOLEAN]
      BY <2>1, <3>1, LookupsMisuse
    <3>3. hasClose => jvm'.misused = jvm.misused
      <4>1. hasClose => jvm' = JniCall(jvm, noArray)
        BY <2>1, <3>1, LookupsMisuse
      <4>2. JniCall(jvm, noArray).misused = jvm.misused
        BY <2>1, Calls
      <4> QED BY <4>1, <4>2
    <3> QED BY <2>1, <2>2, <3>2, <3>3
  <2>4. CASE jvm' = JniCall(Lookups(jvm, kind, hasClose, FALSE), FALSE)
    <3>1. jvm' \in [pending : BOOLEAN, misused : BOOLEAN]
      BY <2>1, <2>4, LookupsMisuse DEF JniCall
    <3>2. hasClose => jvm' = jvm
      <4>1. hasClose => Lookups(jvm, kind, hasClose, FALSE) = JniCall(jvm, FALSE)
        BY <2>1, LookupsMisuse
      <4>2. JniCall(jvm, FALSE) = jvm
        BY <2>1, Calls
      <4> QED BY <2>4, <4>1, <4>2
    <3> QED BY <2>1, <2>2, <3>1, <3>2
  <2> QED BY <2>2, <2>3, <2>4
<1>3. ASSUME NEW s \in InputStream, YchannelJavaStreamRead(s) PROVE PInv'
  <2>1. ~ jvm.pending /\ checks' = FALSE /\ lacking' = lacking
    BY <1>1, <1>3 DEF YchannelJavaStreamRead, streamVars
  <2>2. JniCall(jvm, FALSE) = jvm
    BY <2>1, Calls
  <2>3. ASSUME NEW j \in TryRead(jvm) PROVE j = jvm
    <3>1. PICK t \in MayThrow : j \in {Checked(JniCall(jvm, t)), Checked(JniCall(JniCall(jvm, FALSE), t))}
      BY DEF TryRead
    <3>2. t \in BOOLEAN
      BY ThrowType
    <3>3. Checked(JniCall(jvm, t)) = jvm
      BY <2>1, <3>2, Calls
    <3> QED BY <2>2, <3>1, <3>3
  <2>4. jvm' = jvm
    BY <1>3, <2>2, <2>3 DEF YchannelJavaStreamRead
  <2> QED BY <2>1, <2>4
<1>4. ASSUME NEW s \in OutputStream, YchannelJavaStreamWrite(s) PROVE PInv'
  <2>1. ~ jvm.pending /\ checks' = FALSE /\ lacking' = lacking
    BY <1>1, <1>4 DEF YchannelJavaStreamWrite, streamVars
  <2>2. JniCall(jvm, FALSE) = jvm
    BY <2>1, Calls
  <2>3. jvm' = jvm
    BY <1>4, <2>1, <2>2, Calls, ThrowType DEF YchannelJavaStreamWrite
  <2> QED BY <2>1, <2>3
<1>5. ASSUME NEW s \in Stream, NEW autoRelease \in BOOLEAN,
             YchannelJavaStreamRelease(s, autoRelease)
      PROVE PInv'
  <2>1. ~ jvm.pending /\ checks' = TRUE /\ lacking' = lacking
    BY <1>1, <1>5 DEF YchannelJavaStreamRelease
  <2>2. jvm' = jvm \/ \E t \in MayThrow : jvm' = JniCall(jvm, t)
    BY <1>5 DEF YchannelJavaStreamRelease
  <2>3. ASSUME NEW t \in MayThrow, jvm' = JniCall(jvm, t)
        PROVE  jvm' \in [pending : BOOLEAN, misused : BOOLEAN] /\ jvm'.misused = jvm.misused
    <3>1. t \in BOOLEAN
      BY ThrowType
    <3>2. JniCall(jvm, t) \in [pending : BOOLEAN, misused : BOOLEAN]
      BY <2>1, <3>1, Calls
    <3>3. JniCall(jvm, t).misused = jvm.misused
      BY <2>1, <3>1, Calls
    <3> QED BY <2>3, <3>2, <3>3
  <2>4. jvm' \in [pending : BOOLEAN, misused : BOOLEAN] /\ (jvm'.misused => jvm.misused)
    BY <2>2, <2>3
  <2> QED BY <2>1, <2>4
<1>6. ASSUME jniutils_registerNativeMethods, UNCHANGED streamVars PROVE PInv'
  <2>1. ~ jvm.pending /\ checks' = TRUE /\ lacking' = lacking
    BY <1>1, <1>6 DEF jniutils_registerNativeMethods, streamVars
  <2>2. \E t \in BOOLEAN : jvm' = JniCall(jvm, t)
    BY <1>6, <2>1, Calls, ThrowType DEF jniutils_registerNativeMethods
  <2>3. PICK t \in BOOLEAN : jvm' = JniCall(jvm, t)
    BY <2>2
  <2>4. JniCall(jvm, t) \in [pending : BOOLEAN, misused : BOOLEAN]
    BY <2>1, Calls
  <2>5. JniCall(jvm, t).misused = jvm.misused
    BY <2>1, Calls
  <2>6. jvm' \in [pending : BOOLEAN, misused : BOOLEAN] /\ (jvm'.misused => jvm.misused)
    BY <2>3, <2>4, <2>5
  <2> QED BY <2>1, <2>6
<1>7. ASSUME jniutils_findFields, UNCHANGED streamVars PROVE PInv'
  <2>1. ~ jvm.pending /\ checks' = TRUE /\ lacking' = lacking
    BY <1>1, <1>7 DEF jniutils_findFields, streamVars
  <2>2. \E t \in BOOLEAN : jvm' = JniCall(jvm, t)
    BY <1>7, <2>1, Calls DEF jniutils_findFields
  <2>3. PICK t \in BOOLEAN : jvm' = JniCall(jvm, t)
    BY <2>2
  <2>4. JniCall(jvm, t) \in [pending : BOOLEAN, misused : BOOLEAN]
    BY <2>1, Calls
  <2>5. JniCall(jvm, t).misused = jvm.misused
    BY <2>1, Calls
  <2>6. jvm' \in [pending : BOOLEAN, misused : BOOLEAN] /\ (jvm'.misused => jvm.misused)
    BY <2>3, <2>4, <2>5
  <2> QED BY <2>1, <2>6
<1>8. ASSUME NEW text \in Texts, jniutils_NewStringUTF(text), UNCHANGED streamVars PROVE PInv'
  <2>1. ~ jvm.pending /\ checks' = FALSE /\ lacking' = lacking
    BY <1>1, <1>8 DEF jniutils_NewStringUTF, streamVars
  <2>2. jvm' = Checked(jvm) \/ \E t \in MayThrow : jvm' = Checked(JniCall(jvm, t))
    BY <1>8 DEF jniutils_NewStringUTF
  <2>3. jvm' = jvm
    BY <2>1, <2>2, Calls, ThrowType
  <2> QED BY <2>1, <2>3
<1>9. ASSUME HandleException, UNCHANGED <<streamVars, utilsVars>> PROVE PInv'
  BY <1>9 DEF HandleException, ExceptionClear, streamVars
<1>10. ASSUME UNCHANGED <<jvm, checks, lacking>> PROVE PInv'
  BY <1>10
<1>11. CASE UNCHANGED vars
  BY <1>10, <1>11 DEF vars, jniVars, streamVars
<1>12. CASE StreamNext
  BY <1>2, <1>3, <1>4, <1>5, <1>12
  DEF StreamNext, YchannelInitJavaInputStream, YchannelInitJavaOutputStream, Stream
<1>13. CASE UtilsNext /\ UNCHANGED streamVars
  BY <1>6, <1>7, <1>8, <1>13 DEF UtilsNext
<1>14. CASE ForgetString /\ UNCHANGED <<jniVars, streamVars>>
  BY <1>10, <1>14 DEF jniVars, streamVars
<1> QED BY <1>9, <1>11, <1>12, <1>13, <1>14 DEF Next

\* PendingRespected: as long as every stream has a close(), neither the stream engines
\* nor the JNI helpers make a call while an exception is pending.
THEOREM NoCallWhilePending == Spec => []PendingRespected
<1>1. PInv => PendingRespected
  BY DEF PInv
<1> QED BY PInit, PNext, <1>1, PTL DEF Spec

-----------------------------------------------------------------------------
(* References *)

EngineType ==
  [env : BOOLEAN, stream : Ref \cup {NULL},
   inbytearray : Ref \cup {NULL}, inputStreamClass : Ref \cup {NULL},
   outbytearray : Ref \cup {NULL}, outputStreamClass : Ref \cup {NULL}, close : BOOLEAN]

\* The inductive invariant.
RInv ==
  /\ engine \in [Stream -> EngineType]
  /\ global \subseteq Ref
  /\ \A s \in Stream : ~ Exists(engine[s]) => Held(engine[s]) = {}
  /\ RefsExact

LEMMA NewEngine == engineCreate \in EngineType /\ Held(engineCreate) = {} /\ ~ Exists(engineCreate)
BY JniAssumption DEF engineCreate, EngineType, Held, Exists

\* Of a finite set with three members or more, three differ.
LEMMA ThreeMembers ==
  ASSUME NEW S, IsFiniteSet(S), Cardinality(S) >= 3
  PROVE  \E a, b, c \in S : a # b /\ a # c /\ b # c
<1>1. PICK a : a \in S
  BY FS_EmptySet
<1>2. IsFiniteSet(S \ {a}) /\ Cardinality(S \ {a}) = Cardinality(S) - 1
  BY <1>1, FS_RemoveElement
<1>3. Cardinality(S) \in Nat
  BY FS_CardinalityType
<1>4. PICK b : b \in S \ {a}
  BY <1>2, <1>3, FS_EmptySet
<1>5. IsFiniteSet((S \ {a}) \ {b}) /\ Cardinality((S \ {a}) \ {b}) = Cardinality(S) - 2
  <2>1. /\ IsFiniteSet((S \ {a}) \ {b})
        /\ Cardinality((S \ {a}) \ {b}) = Cardinality(S \ {a}) - 1
    BY <1>2, <1>4, FS_RemoveElement
  <2> QED BY <1>2, <1>3, <2>1
<1>6. PICK c : c \in (S \ {a}) \ {b}
  BY <1>3, <1>5, FS_EmptySet
<1> QED BY <1>1, <1>4, <1>6

\* If there is room, the references of a new engine are three that did not exist.
LEMMA NewRefsType ==
  ASSUME Room
  PROVE  /\ NewRefs \in [1..3 -> Ref \ global]
         /\ \A i, k \in 1..3 : NewRefs[i] = NewRefs[k] => i = k
<1> DEFINE Free == Ref \ global
           Differ(r) == \A i, k \in 1..3 : r[i] = r[k] => i = k
<1>1. IsFiniteSet(Free) /\ Cardinality(Free) >= 3
  BY JniAssumption, FS_Subset DEF Room
<1>2. PICK a, b, c \in Free : a # b /\ a # c /\ b # c
  BY <1>1, ThreeMembers
<1>3. \E r \in [1..3 -> Free] : Differ(r)
  <2> DEFINE r == [i \in 1..3 |-> IF i = 1 THEN a ELSE IF i = 2 THEN b ELSE c]
  <2>1. r \in [1..3 -> Free]
    OBVIOUS
  <2>2. Differ(r)
    BY <1>2
  <2> QED BY <2>1, <2>2
<1>4. NewRefs = CHOOSE r \in [1..3 -> Free] : Differ(r)
  BY DEF NewRefs
<1> HIDE DEF Differ
<1>5. NewRefs \in [1..3 -> Free] /\ Differ(NewRefs)
  BY <1>3, <1>4
<1> QED BY <1>5 DEF Differ

\* What an engine with n of its references holds, and that three are three.
LEMMA HeldByNew ==
  ASSUME NEW kind \in {"in", "out"}, NEW r \in [1..3 -> Ref], NEW n \in 0..3
  PROVE  /\ WithRefs(kind, r, n) \in EngineType
         /\ Held(WithRefs(kind, r, n)) = {r[i] : i \in 1..n}
<1> DEFINE Part(i, k) == IF i <= n /\ k = kind THEN r[i] ELSE NULL
           e == WithRefs(kind, r, n)
<1>1. e = [env |-> FALSE, stream |-> Part(1, kind),
           inbytearray |-> Part(2, "in"), inputStreamClass |-> Part(3, "in"),
           outbytearray |-> Part(2, "out"), outputStreamClass |-> Part(3, "out"), close |-> FALSE]
  BY DEF WithRefs
<1>2. \A i \in 1..3 : r[i] \in Ref /\ r[i] # NULL
  BY JniAssumption
<1>3. \A i \in 1..3, k \in {"in", "out"} : Part(i, k) \in Ref \cup {NULL}
  BY <1>2
<1>4. e \in EngineType
  BY <1>1, <1>3 DEF EngineType
<1>5. Held(e) = {Part(1, kind), Part(2, "in"), Part(3, "in"), Part(2, "out"), Part(3, "out")} \cap Ref
  BY <1>1 DEF Held
<1>6. {Part(1, kind), Part(2, "in"), Part(3, "in"), Part(2, "out"), Part(3, "out")} \cap Ref
        = {Part(i, kind) : i \in 1..3} \cap Ref
  <2>1. CASE kind = "in"
    BY <2>1, JniAssumption
  <2>2. CASE kind = "out"
    BY <2>2, JniAssumption
  <2> QED BY <2>1, <2>2
<1>7. {Part(i, kind) : i \in 1..3} \cap Ref = {r[i] : i \in 1..n}
  BY <1>2, JniAssumption
<1> QED BY <1>4, <1>5, <1>6, <1>7

LEMMA ThreeHeld ==
  ASSUME NEW r \in [1..3 -> Ref], \A i, k \in 1..3 : r[i] = r[k] => i = k
  PROVE  Cardinality({r[i] : i \in 1..3}) = 3
<1>1. {r[i] : i \in 1..3} = {r[1], r[2], r[3]}
  OBVIOUS
<1>2. r[1] # r[2] /\ r[1] # r[3] /\ r[2] # r[3]
  OBVIOUS
<1>3. IsFiniteSet({r[1]}) /\ Cardinality({r[1]}) = 1
  BY FS_Singleton
<1>4. \A S, x : IsFiniteSet(S) /\ x \notin S =>
        IsFiniteSet(S \cup {x}) /\ Cardinality(S \cup {x}) = Cardinality(S) + 1
  BY FS_AddElement
<1>5. IsFiniteSet({r[1]} \cup {r[2]}) /\ Cardinality({r[1]} \cup {r[2]}) = 2
  <2>1. r[2] \notin {r[1]}
    BY <1>2
  <2> QED BY <1>3, <1>4, <2>1
<1>6. Cardinality(({r[1]} \cup {r[2]}) \cup {r[3]}) = 3
  <2>1. r[3] \notin {r[1]} \cup {r[2]}
    BY <1>2
  <2> QED BY <1>4, <1>5, <2>1
<1>7. {r[1], r[2], r[3]} = ({r[1]} \cup {r[2]}) \cup {r[3]}
  OBVIOUS
<1> QED BY <1>1, <1>6, <1>7

LEMMA RInit == Init => RInv
<1> SUFFICES ASSUME Init PROVE RInv
  OBVIOUS
<1>1. engine = [s \in Stream |-> engineCreate] /\ global = {} /\ leaked = {}
  BY DEF Init, JniInit, StreamInit
<1>2. \A s \in Stream : engine[s] = engineCreate
  BY <1>1
<1>3. UNION {Held(engine[s]) : s \in Stream} = {}
  BY <1>2, NewEngine
<1>4. RefsExact
  BY <1>1, <1>2, <1>3, NewEngine DEF RefsExact
<1> QED BY <1>1, <1>2, <1>4, NewEngine DEF RInv

\* The union over the streams, when one of them changes its engine.
LEMMA UnionChanges ==
  ASSUME NEW f \in [Stream -> EngineType], NEW s \in Stream, NEW e \in EngineType
  PROVE  UNION {Held([f EXCEPT ![s] = e][t]) : t \in Stream}
           = Held(e) \cup UNION {Held(f[t]) : t \in Stream \ {s}}
<1> DEFINE g == [f EXCEPT ![s] = e]
<1>1. g[s] = e /\ \A t \in Stream \ {s} : g[t] = f[t]
  OBVIOUS
<1> HIDE DEF g
<1>2. UNION {Held(g[t]) : t \in Stream} = Held(g[s]) \cup UNION {Held(g[t]) : t \in Stream \ {s}}
  OBVIOUS
<1>3. UNION {Held(g[t]) : t \in Stream \ {s}} = UNION {Held(f[t]) : t \in Stream \ {s}}
  BY <1>1
<1> QED BY <1>1, <1>2, <1>3 DEF g

LEMMA RNext == RInv /\ [Next]_vars => RInv'
<1> SUFFICES ASSUME RInv, [Next]_vars PROVE RInv'
  OBVIOUS
<1> USE DEF RInv
<1>1. ASSUME UNCHANGED <<engine, global, leaked>> PROVE RInv'
  BY <1>1 DEF RefsExact
<1>2. ASSUME NEW s \in Stream, NEW kind \in {"in", "out"}, Open(s, kind) PROVE RInv'
  <2>1. ~ Exists(engine[s])
    BY <1>2 DEF Open
  <2>2. PICK hasClose \in BOOLEAN :
          \/ OpenRefused(kind, hasClose)
          \/ /\ Room
             /\ \/ \E n \in 0..3 : OpenFails(kind, NewRefs, n)
                \/ OpenSucceeds(s, kind, NewRefs, hasClose)
    BY <1>2 DEF Open
  <2>3. CASE OpenRefused(kind, hasClose)
    BY <1>1, <2>3 DEF OpenRefused
  <2>4. ASSUME Room, NEW n \in 0..3, OpenFails(kind, NewRefs, n) PROVE RInv'
    <3> DEFINE w == WithRefs(kind, NewRefs, n)
               e == [w EXCEPT !.env = (n = 3)]
    <3>1. NewRefs \in [1..3 -> Ref \ global]
      BY <2>4, NewRefsType
    <3>2. w \in EngineType /\ Held(w) \subseteq Ref \ global
      BY <3>1, HeldByNew
    <3>3. e.env = (n = 3) /\ Held(e) = Held(w)
      BY <3>2 DEF EngineType, Held
    <3>4. /\ global' = (global \cup Held(e)) \ engineRelease(e)
          /\ leaked' = leaked \cup (IF e.env THEN {} ELSE Held(e))
          /\ engine' = engine
      BY <2>4 DEF OpenFails
    <3> HIDE DEF e, w
    <3>5. CASE n = 3
      <4>1. global' = global /\ leaked' = leaked
        BY <3>2, <3>3, <3>4, <3>5 DEF engineRelease
      <4> QED BY <1>1, <3>4, <4>1
    <3>6. CASE n # 3
      <4>1. global' = global \cup Held(e) /\ leaked' = leaked \cup Held(e)
        BY <3>3, <3>4, <3>6 DEF engineRelease
      <4>2. \A t \in Stream : Held(engine[t]) \subseteq global
        BY DEF RefsExact
      <4> QED BY <3>2, <3>3, <3>4, <4>1, <4>2 DEF RefsExact
    <3> QED BY <3>5, <3>6
  <2>5. ASSUME Room, OpenSucceeds(s, kind, NewRefs, hasClose) PROVE RInv'
    <3> DEFINE r == NewRefs
               w == WithRefs(kind, r, 3)
               e == [w EXCEPT !.env = TRUE, !.close = hasClose]
    <3>1. r \in [1..3 -> Ref \ global] /\ \A i, k \in 1..3 : r[i] = r[k] => i = k
      BY <2>5, NewRefsType
    <3>2. w \in EngineType /\ Held(w) = {r[i] : i \in 1..3}
      BY <3>1, HeldByNew
    <3>3. e \in EngineType /\ Held(e) = Held(w)
      BY <3>2 DEF EngineType, Held
    <3>4. Cardinality(Held(e)) = 3
      BY <3>1, <3>2, <3>3, ThreeHeld
    <3>5. Held(e) = {r[1], r[2], r[3]} /\ Held(e) \subseteq Ref \ global
      BY <3>1, <3>2, <3>3
    <3>6. engine' = [engine EXCEPT ![s] = e] /\ global' = global \cup Held(e) /\ leaked' = leaked
      BY <2>5, <3>5 DEF OpenSucceeds
    <3> HIDE DEF e, w, r
    <3>7. engine'[s] = e /\ \A t \in Stream \ {s} : engine'[t] = engine[t]
      BY <3>6
    <3>8. UNION {Held(engine'[t]) : t \in Stream}
            = Held(e) \cup UNION {Held(engine[t]) : t \in Stream \ {s}}
      BY <3>3, <3>6, UnionChanges
    <3>9. UNION {Held(engine[t]) : t \in Stream}
            = Held(engine[s]) \cup UNION {Held(engine[t]) : t \in Stream \ {s}}
      OBVIOUS
    <3>10. global' = leaked' \cup UNION {Held(engine'[t]) : t \in Stream}
      BY <2>1, <3>6, <3>8, <3>9 DEF RefsExact
    <3>11. \A t \in Stream : Held(engine[t]) \subseteq global /\ leaked \subseteq global
      BY DEF RefsExact
    <3>12. \A t \in Stream :
             /\ Exists(engine'[t]) => Cardinality(Held(engine'[t])) = 3
             /\ Held(engine'[t]) \cap leaked' = {}
      BY <3>4, <3>5, <3>6, <3>7, <3>11 DEF RefsExact
    <3>13. \A t, u \in Stream : t # u => Held(engine'[t]) \cap Held(engine'[u]) = {}
      BY <3>5, <3>7, <3>11 DEF RefsExact
    <3>14. RefsExact'
      BY <3>10, <3>12, <3>13 DEF RefsExact
    <3>15. Exists(engine'[s])
      <4>1. e.env = TRUE
        BY <3>2 DEF e, EngineType
      <4> QED BY <3>7, <4>1 DEF Exists
    <3>16. \A t \in Stream : ~ Exists(engine'[t]) => Held(engine'[t]) = {}
      BY <3>7, <3>15
    <3> QED BY <3>3, <3>5, <3>6, <3>14, <3>16
  <2> QED BY <2>2, <2>3, <2>4, <2>5
<1>3. ASSUME NEW s \in Stream, NEW autoRelease \in BOOLEAN,
             YchannelJavaStreamRelease(s, autoRelease)
      PROVE RInv'
  <2>1. /\ Exists(engine[s])
        /\ global' = global \ engineRelease(engine[s])
        /\ engine' = [engine EXCEPT ![s] = engineCreate]
        /\ leaked' = leaked
    BY <1>3 DEF YchannelJavaStreamRelease
  <2>2. global' = global \ Held(engine[s])
    BY <2>1 DEF engineRelease, Exists
  <2>3. engine'[s] = engineCreate /\ \A t \in Stream \ {s} : engine'[t] = engine[t]
    BY <2>1
  <2>4. UNION {Held(engine'[t]) : t \in Stream}
          = Held(engineCreate) \cup UNION {Held(engine[t]) : t \in Stream \ {s}}
    BY <2>1, NewEngine, UnionChanges
  <2>5. UNION {Held(engine[t]) : t \in Stream}
          = Held(engine[s]) \cup UNION {Held(engine[t]) : t \in Stream \ {s}}
    OBVIOUS
  <2>6. Held(engine[s]) \cap UNION {Held(engine[t]) : t \in Stream \ {s}} = {}
    BY DEF RefsExact
  <2>7. Held(engine[s]) \cap leaked = {}
    BY DEF RefsExact
  <2>8. global = leaked \cup UNION {Held(engine[t]) : t \in Stream}
    BY DEF RefsExact
  <2>9. global' = leaked' \cup UNION {Held(engine'[t]) : t \in Stream}
    BY <2>1, <2>2, <2>4, <2>5, <2>6, <2>7, <2>8, NewEngine
  <2>10. \A t \in Stream :
           /\ Exists(engine'[t]) => Cardinality(Held(engine'[t])) = 3
           /\ Held(engine'[t]) \cap leaked' = {}
           /\ ~ Exists(engine'[t]) => Held(engine'[t]) = {}
    BY <2>1, <2>3, NewEngine DEF RefsExact
  <2>11. \A t, u \in Stream : t # u => Held(engine'[t]) \cap Held(engine'[u]) = {}
    BY <2>3, NewEngine DEF RefsExact
  <2>12. RefsExact'
    BY <2>9, <2>10, <2>11 DEF RefsExact
  <2> QED BY <2>1, <2>10, <2>12, NewEngine
<1>4. CASE UNCHANGED vars
  BY <1>1, <1>4 DEF vars, jniVars, streamVars
<1>5. CASE StreamNext
  <2>1. ASSUME NEW s \in InputStream, YchannelJavaStreamRead(s) PROVE RInv'
    BY <1>1, <2>1 DEF YchannelJavaStreamRead, streamVars
  <2>2. ASSUME NEW s \in OutputStream, YchannelJavaStreamWrite(s) PROVE RInv'
    BY <1>1, <2>2 DEF YchannelJavaStreamWrite, streamVars
  <2> QED BY <1>2, <1>3, <1>5, <2>1, <2>2
          DEF StreamNext, YchannelInitJavaInputStream, YchannelInitJavaOutputStream, Stream
<1>6. CASE UtilsNext /\ UNCHANGED streamVars
  BY <1>1, <1>6 DEF UtilsNext, streamVars, jniutils_registerNativeMethods,
                    jniutils_findFields, jniutils_NewStringUTF
<1>7. CASE ForgetString /\ UNCHANGED <<jniVars, streamVars>>
  BY <1>1, <1>7 DEF jniVars, streamVars
<1>8. CASE HandleException /\ UNCHANGED <<streamVars, utilsVars>>
  BY <1>1, <1>8 DEF HandleException, streamVars
<1> QED BY <1>4, <1>5, <1>6, <1>7, <1>8 DEF Next

\* RefsExact: the global references that exist are those of the engines in use, three
\* for each and no two the same, and those of engines given up before they had an env.
THEOREM ReferencesExact == Spec => []RefsExact
<1>1. RInv => RefsExact
  BY DEF RInv
<1> QED BY RInit, RNext, <1>1, PTL DEF Spec

-----------------------------------------------------------------------------
(* Recursive functions.  f[d] is base[d] where the recursion stops, and is *)
(* else made from f[next[d]], next[d] being of a lower rank.               *)

\* A set of numbers that is not empty has a smallest one.
LEMMA Smallest ==
  ASSUME NEW S \in SUBSET Nat, S # {}
  PROVE  \E x \in S : \A y \in S : x <= y
<1> DEFINE Below == {0..x : x \in S}
           Less == StrictSubsetOrdering(Nat)
<1>1. IsWellFoundedOn(Less, FiniteSubsetsOf(Nat))
  BY FS_StrictSubsetOrderingWellFounded
<1>2. Below \subseteq FiniteSubsetsOf(Nat) /\ Below # {}
  <2>1. \A x \in S : IsFiniteSet(0..x) /\ 0..x \in SUBSET Nat
    BY FS_Interval
  <2> QED
    BY <2>1 DEF FiniteSubsetsOf
<1> HIDE DEF Less, Below
<1>3. PICK B \in Below : \A C \in Below : ~ (<<C, B>> \in Less)
  BY <1>1, <1>2, WFMin
<1>4. PICK x \in S : B = 0..x
  BY DEF Below
<1>5. ASSUME NEW y \in S, y < x PROVE FALSE
  <2>1. 0..y \in SUBSET Nat /\ 0..x \in SUBSET Nat /\ 0..y \subseteq 0..x
    BY <1>5
  <2>2. x \in 0..x /\ x \notin 0..y
    BY <1>5
  <2>3. <<0..y, B>> \in Less
    BY <1>4, <2>1, <2>2 DEF Less, StrictSubsetOrdering
  <2> QED
    BY <1>3, <2>3 DEF Below
<1> QED
  BY <1>5

\* What holds of 0, and of i + 1 if of i, holds of all numbers up to n.
LEMMA UpTo ==
  ASSUME NEW n \in Nat, NEW S, 0 \in S, \A i \in 0..(n - 1) : i \in S => i + 1 \in S
  PROVE  \A i \in 0..n : i \in S
<1> DEFINE Out == {i \in 0..n : i \notin S}
<1>1. ASSUME Out # {} PROVE FALSE
  <2>1. Out \in SUBSET Nat
    OBVIOUS
  <2>2. PICK x \in Out : \A y \in Out : x <= y
    BY <1>1, <2>1, Smallest
  <2>3. x # 0 /\ x \in 0..n
    BY <2>2
  <2>4. x - 1 \in 0..(n - 1) /\ x - 1 \notin Out
    BY <2>2, <2>3
  <2> QED
    BY <2>2, <2>3, <2>4
<1> QED
  BY <1>1

Descends(D, K, rank, stop, next) ==
  /\ K \in Nat /\ rank \in [D -> 0..K] /\ stop \in SUBSET D /\ next \in [D -> D]
  /\ \A d \in D \ stop : rank[next[d]] < rank[d]

Kept(D, stop, next, T) ==
  (\A d \in stop : d \in T) /\ \A d \in D \ stop : next[d] \in T => d \in T

Recurses(D, R, stop, base, next, make, f) ==
  f \in [D -> R] /\ \A d \in D : f[d] = IF d \in stop THEN base[d] ELSE make[<<d, f[next[d]]>>]

LEMMA RecursionExists ==
  ASSUME NEW D, NEW R, NEW K, NEW rank, NEW stop, NEW next, Descends(D, K, rank, stop, next),
         NEW base \in [D -> R], NEW make \in [D \X R -> R]
  PROVE  \E f : Recurses(D, R, stop, base, next, make, f)
<1> USE DEF Descends
<1> DEFINE Turn(f, d) == IF d \in stop THEN base[d] ELSE make[<<d, f[next[d]]>>]
           Good(f, k) == \A d \in D : rank[d] < k => f[d] = Turn(f, d)
           S == {k \in 0..(K + 1) : \E f \in [D -> R] : Good(f, k)}
<1>1. 0 \in S
  <2>1. \A d \in D : ~ (rank[d] < 0)
    OBVIOUS
  <2>2. Good(base, 0)
    BY <2>1
  <2> QED
    BY <2>2
<1>2. ASSUME NEW k \in 0..K, k \in S PROVE k + 1 \in S
  <2>1. PICK f \in [D -> R] : Good(f, k)
    BY <1>2
  <2> DEFINE g == [d \in D |-> IF rank[d] = k THEN Turn(f, d) ELSE f[d]]
  <2>2. \A d \in D : Turn(f, d) \in R
    OBVIOUS
  <2>3. g \in [D -> R]
    BY <2>2
  <2>4. ASSUME NEW d \in D, rank[d] < k + 1 PROVE g[d] = Turn(g, d)
    <3>1. g[d] = Turn(f, d)
      <4>1. CASE rank[d] = k
        BY <4>1
      <4>2. CASE rank[d] # k
        <5>1. rank[d] < k
          BY <2>4, <4>2
        <5> QED
          BY <2>1, <4>2, <5>1
      <4> QED
        BY <4>1, <4>2
    <3>2. d \notin stop => g[next[d]] = f[next[d]]
      <4>1. d \notin stop => next[d] \in D /\ rank[next[d]] \in 0..K /\ rank[next[d]] < k
        BY <2>4
      <4> QED
        BY <4>1
    <3> QED
      BY <3>1, <3>2
  <2> HIDE DEF g
  <2>5. Good(g, k + 1)
    BY <2>4
  <2>6. k + 1 \in 0..(K + 1)
    OBVIOUS
  <2>7. \E h \in [D -> R] : Good(h, k + 1)
    <3> HIDE DEF Good
    <3> QED
      BY <2>3, <2>5
  <2> HIDE DEF Good
  <2> QED
    BY <2>6, <2>7
<1> HIDE DEF S
<1>3. \A k \in 0..(K + 1) : k \in S
  <2>1. K + 1 \in Nat /\ (K + 1) - 1 = K
    OBVIOUS
  <2> QED
    BY <1>1, <1>2, <2>1, UpTo
<1>4. PICK f \in [D -> R] : Good(f, K + 1)
  <2>1. K + 1 \in 0..(K + 1)
    OBVIOUS
  <2>2. K + 1 \in S
    BY <1>3, <2>1
  <2> HIDE DEF Good
  <2> QED
    BY <2>2 DEF S
<1>5. \A d \in D : rank[d] < K + 1
  OBVIOUS
<1>6. Recurses(D, R, stop, base, next, make, f)
  BY <1>4, <1>5 DEF Recurses
<1> QED
  BY <1>6

\* What holds where the recursion stops, and of d if of next[d], holds everywhere.
LEMMA RecursionKeeps ==
  ASSUME NEW D, NEW K, NEW rank, NEW stop, NEW next, Descends(D, K, rank, stop, next),
         NEW T, Kept(D, stop, next, T)
  PROVE  \A d \in D : d \in T
<1> USE DEF Descends, Kept
<1> DEFINE S == {k \in 0..(K + 1) : \A d \in D : rank[d] < k => d \in T}
<1>1. 0 \in S
  OBVIOUS
<1>2. ASSUME NEW k \in 0..K, k \in S PROVE k + 1 \in S
  <2>1. ASSUME NEW d \in D, rank[d] < k + 1 PROVE d \in T
    <3>1. CASE d \notin stop
      <4>1. next[d] \in D /\ rank[next[d]] \in 0..K /\ rank[next[d]] < k
        BY <2>1, <3>1
      <4> QED
        BY <1>2, <3>1, <4>1
    <3> QED
      BY <3>1
  <2> QED
    BY <2>1
<1> HIDE DEF S
<1>3. K + 1 \in Nat /\ (K + 1) - 1 = K /\ K + 1 \in 0..(K + 1)
  OBVIOUS
<1>4. K + 1 \in S
  BY <1>1, <1>2, <1>3, UpTo
<1>5. \A d \in D : rank[d] < K + 1
  OBVIOUS
<1> QED
  BY <1>4, <1>5 DEF S

\* The same from n down to 0.
LEMMA DownTo ==
  ASSUME NEW n \in Nat, NEW S, n \in S, \A i \in 0..(n - 1) : i + 1 \in S => i \in S
  PROVE  \A i \in 0..n : i \in S
<1> DEFINE T == {k \in 0..n : n - k \in S}
<1>1. 0 \in T
  OBVIOUS
<1>2. ASSUME NEW k \in 0..(n - 1), k \in T PROVE k + 1 \in T
  <2>1. n - (k + 1) \in 0..(n - 1) /\ (n - (k + 1)) + 1 = n - k /\ k + 1 \in 0..n
    OBVIOUS
  <2> QED
    BY <1>2, <2>1
<1> HIDE DEF T
<1>3. \A k \in 0..n : k \in T
  BY <1>1, <1>2, UpTo
<1>4. ASSUME NEW i \in 0..n PROVE i \in S
  <2>1. n - i \in 0..n /\ n - (n - i) = i
    OBVIOUS
  <2> QED
    BY <1>3, <2>1 DEF T
<1> QED
  BY <1>4

-----------------------------------------------------------------------------
(* Sequences laid end to end.  f[i] is what the first i of them make. *)

Joins(S, seqs, f) ==
  /\ f \in [0..Len(seqs) -> Seq(S)]
  /\ f[0] = <<>>
  /\ \A i \in 1..Len(seqs) : f[i] = f[i - 1] \o seqs[i]

LEMMA FlattenJoins ==
  ASSUME NEW S, NEW seqs \in Seq(Seq(S))
  PROVE  \E f : Joins(S, seqs, f) /\ FlattenSeq(seqs) = f[Len(seqs)]
<1> DEFINE n == Len(seqs)
           R == Seq(S)
<1>1. n \in Nat /\ seqs \in [1..n -> R]
  BY LenProperties
<1>2. CASE n = 0
  <2> DEFINE f == [i \in 0..0 |-> <<>>]
  <2>1. seqs = <<>>
    BY <1>2, EmptySeq
  <2>2. FlattenSeq(seqs) = f[n]
    BY <1>2, <2>1 DEF FlattenSeq
  <2>3. f \in [0..n -> R] /\ f[0] = <<>> /\ 1..n = {}
    BY <1>2
  <2> HIDE DEF f
  <2> QED
    BY <2>2, <2>3 DEF Joins
<1>3. CASE n # 0
  <2> DEFINE Turns(g) == [i \in 1..n |-> IF i = 1 THEN seqs[i] ELSE g[i - 1] \o seqs[i]]
             flatten == CHOOSE g : g = Turns(g)
             D == 1..n
             rank == [i \in D |-> i]
             next == [i \in D |-> IF i = 1 THEN 1 ELSE i - 1]
             make == [p \in D \X R |-> p[2] \o seqs[p[1]]]
  <2>1. rank \in [D -> 0..n] /\ next \in [D -> D] /\ {1} \in SUBSET D /\ \A i \in D \ {1} : rank[next[i]] < rank[i]
    BY <1>1, <1>3
  <2>2. make \in [D \X R -> R]
    BY <1>1, ConcatProperties
  <2>3. \E g : g = Turns(g)
    <3>1. PICK g : Recurses(D, R, {1}, seqs, next, make, g)
      <4> HIDE DEF rank, next, make, D, R, n
      <4>1. Descends(D, n, rank, {1}, next)
        BY <1>1, <2>1 DEF Descends
      <4> QED
        BY <1>1, <2>2, <4>1, RecursionExists DEF D
    <3>2. g \in [D -> R] /\ \A i \in D : g[i] = IF i \in {1} THEN seqs[i] ELSE make[<<i, g[next[i]]>>]
      <4> HIDE DEF rank, next, make, D, R, n
      <4> QED
        BY <3>1 DEF Recurses
    <3>3. ASSUME NEW i \in D, i # 1 PROVE g[i] = g[i - 1] \o seqs[i]
      <4>1. next[i] = i - 1 /\ i - 1 \in D
        BY <1>1, <3>3
      <4>0. g[i - 1] \in R
        BY <3>2, <4>1
      <4>2. make[<<i, g[i - 1]>>] = g[i - 1] \o seqs[i]
        BY <4>0
      <4> HIDE DEF next, make
      <4> QED
        BY <3>2, <3>3, <4>1, <4>2 
    <3>4. g = Turns(g)
      <4> HIDE DEF next, make
      <4> QED
        BY <3>2, <3>3
    <3> QED
      BY <3>4
  <2>4. flatten = Turns(flatten)
    BY <2>3, ZenonT(60)
  <2>5. FlattenSeq(seqs) = flatten[n]
    BY <1>3 DEF FlattenSeq
  <2> HIDE DEF flatten
  <2>6. flatten[1] = seqs[1] /\ \A i \in 2..n : flatten[i] = flatten[i - 1] \o seqs[i]
    <3>1. 1 \in 1..n /\ \A i \in 2..n : i \in 1..n /\ i # 1
      BY <1>1, <1>3
    <3> HIDE DEF n
    <3> QED
      BY <2>4, <3>1, Zenon
  <2> DEFINE S0 == {i \in 0..(n - 1) : flatten[i + 1] \in R}
  <2>7. 0 \in S0
    BY <1>1, <1>3, <2>6
  <2>8. ASSUME NEW i \in 0..((n - 1) - 1), i \in S0 PROVE i + 1 \in S0
    <3>1. flatten[(i + 1) + 1] = flatten[i + 1] \o seqs[(i + 1) + 1] /\ seqs[(i + 1) + 1] \in R
      <4>1. (i + 1) + 1 \in 2..n /\ (i + 1) + 1 \in 1..n /\ ((i + 1) + 1) - 1 = i + 1
        BY <1>1
      <4>2. seqs[(i + 1) + 1] \in R
        BY <1>1, <4>1
      <4>3. flatten[(i + 1) + 1] = flatten[((i + 1) + 1) - 1] \o seqs[(i + 1) + 1]
        <5> HIDE DEF n, R
        <5> QED
          BY <2>6, <4>1, Zenon
      <4> QED
        BY <4>1, <4>2, <4>3, Zenon
    <3>2. flatten[(i + 1) + 1] \in R
      BY <2>8, <3>1, ConcatProperties
    <3>3. i + 1 \in 0..(n - 1)
      BY <1>1
    <3> QED
      BY <3>2, <3>3
  <2> HIDE DEF S0
  <2>9. \A i \in 0..(n - 1) : i \in S0
    <3>1. n - 1 \in Nat
      BY <1>1, <1>3
    <3> QED
      BY <2>7, <2>8, <3>1, UpTo
  <2>10. \A i \in 1..n : flatten[i] \in R
    <3>1. \A i \in 1..n : i - 1 \in 0..(n - 1) /\ (i - 1) + 1 = i
      BY <1>1
    <3> QED
      BY <2>9, <3>1 DEF S0
  <2> DEFINE f == [i \in 0..n |-> IF i = 0 THEN <<>> ELSE flatten[i]]
  <2>11. f \in [0..n -> R] /\ f[0] = <<>> /\ \A i \in 1..n : f[i] = flatten[i]
    <3>1. <<>> \in R
      BY EmptySeq
    <3>2. \A i \in 0..n : i # 0 => i \in 1..n
      BY <1>1
    <3> HIDE DEF R
    <3> QED
      BY <1>1, <2>10, <3>1, <3>2
  <2> HIDE DEF f
  <2>12. ASSUME NEW i \in 1..n PROVE f[i] = f[i - 1] \o seqs[i]
    <3>1. CASE i = 1
      <4>1. <<>> \o seqs[1] = seqs[1]
        <5>1. seqs[1] \in Seq(S)
          BY <1>1, <3>1
        <5> QED
          BY <5>1, ConcatEmptySeq
      <4>2. i - 1 = 0 /\ 1 \in 1..n
        BY <3>1
      <4> QED
        BY <2>6, <2>11, <3>1, <4>1, <4>2, Zenon
    <3>2. CASE i # 1
      <4>1. i \in 2..n /\ i - 1 \in 1..n
        BY <1>1, <3>2
      <4> QED
        BY <2>6, <2>11, <4>1
    <3> QED
      BY <3>1, <3>2
  <2>13. Joins(S, seqs, f) /\ FlattenSeq(seqs) = f[n]
    <3>1. n \in 1..n
      BY <1>1, <1>3
    <3> QED
      BY <2>5, <2>11, <2>12, <3>1 DEF Joins
  <2> QED
    BY <2>13
<1> QED
  BY <1>2, <1>3

\* Two sequences, one laid behind the other.
LEMMA ConcatKeeps ==
  ASSUME NEW S, NEW s \in Seq(S), NEW t \in Seq(S), NEW st, st = s \o t
  PROVE  /\ Len(s) \in Nat /\ Len(t) \in Nat
         /\ st \in Seq(S) /\ Len(st) = Len(s) + Len(t)
         /\ \A k \in 1..Len(s) : k \in 1..Len(st) /\ st[k] = s[k]
         /\ \A k \in 1..Len(t) : Len(s) + k \in 1..Len(st) /\ st[Len(s) + k] = t[k]
<1> DEFINE a == Len(s)
           b == Len(t)
<1>1. a \in Nat /\ b \in Nat
  BY LenProperties
<1>2. /\ st \in Seq(S) /\ Len(st) = a + b
      /\ \A i \in 1..(a + b) : st[i] = IF i <= a THEN s[i] ELSE t[i - a]
  BY ConcatProperties
<1> HIDE DEF a, b
<1>3. \A k \in 1..a : k \in 1..Len(st) /\ st[k] = s[k]
  BY <1>1, <1>2
<1>4. ASSUME NEW k \in 1..b PROVE a + k \in 1..Len(st) /\ st[a + k] = t[k]
  <2>1. a + k \in 1..(a + b) /\ ~ (a + k <= a) /\ (a + k) - a = k
    BY <1>1
  <2> QED
    BY <1>2, <2>1
<1> QED
  BY <1>1, <1>2, <1>3, <1>4 DEF a, b

LEMMA LessThanSum ==
  ASSUME NEW a \in Nat, NEW b \in Nat, NEW c \in Nat, a + b <= c
  PROVE  a <= c
  OBVIOUS

Placed(S, seqs, f, i) ==
  /\ f[i - 1] \in Seq(S) /\ f[i] \in Seq(S) /\ f[Len(seqs)] \in Seq(S)
  /\ Len(f[i]) = Len(f[i - 1]) + Len(seqs[i])
  /\ Len(f[i]) <= Len(f[Len(seqs)])
  /\ \A k \in 1..Len(seqs[i]) : f[Len(seqs)][Len(f[i - 1]) + k] = seqs[i][k]

\* Each of them is a piece of what they all make.
LEMMA Pieces ==
  ASSUME NEW S, NEW seqs \in Seq(Seq(S)), NEW f, Joins(S, seqs, f), NEW i \in 1..Len(seqs)
  PROVE  Placed(S, seqs, f, i)
<1> USE DEF Placed
<1> DEFINE n == Len(seqs)
           all == f[n]
           Same(j) == Len(f[j]) <= Len(all) /\ \A k \in 1..Len(f[j]) : all[k] = f[j][k]
           T == {j \in 0..n : Same(j)}
<1>1. n \in Nat /\ \A j \in 1..n : seqs[j] \in Seq(S)
  BY LenProperties
<1>2. /\ \A j \in 0..n : f[j] \in Seq(S) /\ Len(f[j]) \in Nat
      /\ \A j \in 1..n : f[j] = f[j - 1] \o seqs[j]
  BY LenProperties DEF Joins
<1>3. n \in T
  BY <1>1, <1>2
<1>4. ASSUME NEW j \in 0..(n - 1), j + 1 \in T PROVE j \in T
  <2>1. j \in 0..n /\ j + 1 \in 1..n /\ (j + 1) - 1 = j /\ n \in 0..n
    BY <1>1
  <2>2. f[j + 1] = f[j] \o seqs[j + 1] /\ f[j] \in Seq(S) /\ seqs[j + 1] \in Seq(S)
    BY <1>1, <1>2, <2>1
  <2>3. /\ Len(f[j]) \in Nat /\ Len(seqs[j + 1]) \in Nat
        /\ Len(f[j + 1]) = Len(f[j]) + Len(seqs[j + 1])
        /\ \A k \in 1..Len(f[j]) : k \in 1..Len(f[j + 1]) /\ f[j + 1][k] = f[j][k]
    <3> DEFINE before == f[j]
               piece == seqs[j + 1]
               after == f[j + 1]
    <3>1. before \in Seq(S) /\ piece \in Seq(S) /\ after = before \o piece
      BY <2>2
    <3> HIDE DEF before, piece, after
    <3>2. /\ Len(before) \in Nat /\ Len(piece) \in Nat
          /\ Len(after) = Len(before) + Len(piece)
          /\ \A k \in 1..Len(before) : k \in 1..Len(after) /\ after[k] = before[k]
      BY <3>1, ConcatKeeps
    <3> QED
      BY <3>2 DEF before, piece, after
  <2>4. Same(j + 1)
    BY <1>4
  <2>5. Same(j)
    <3>1. Len(all) \in Nat
      BY <1>1, <1>2, <2>1
    <3>2. Len(f[j]) + Len(seqs[j + 1]) <= Len(all)
      BY <2>3, <2>4
    <3> HIDE DEF all
    <3>3. Len(f[j]) <= Len(all)
      BY ONLY <2>3, <3>1, <3>2, LessThanSum
    <3> QED
      BY <2>3, <2>4, <3>3
  <2> QED
    BY <2>1, <2>5
<1> HIDE DEF T
<1>5. \A j \in 0..n : j \in T
  BY <1>1, <1>3, <1>4, DownTo
<1>6. Same(i)
  <2>1. i \in 0..n
    BY <1>1
  <2> QED
    BY <1>5, <2>1 DEF T
<1>7. /\ f[i - 1] \in Seq(S) /\ f[i] \in Seq(S) /\ f[n] \in Seq(S)
      /\ seqs[i] \in Seq(S) /\ f[i] = f[i - 1] \o seqs[i]
  <2>1. i - 1 \in 0..n /\ i \in 0..n /\ n \in 0..n /\ i \in 1..n
    BY <1>1
  <2> HIDE DEF n
  <2> QED
    BY <1>1, <1>2, <2>1, Zenon
<1>8. /\ Len(f[i]) = Len(f[i - 1]) + Len(seqs[i])
      /\ \A k \in 1..Len(seqs[i]) :
           Len(f[i - 1]) + k \in 1..Len(f[i]) /\ f[i][Len(f[i - 1]) + k] = seqs[i][k]
  <2> DEFINE before == f[i - 1]
             piece == seqs[i]
             after == f[i]
  <2>1. before \in Seq(S) /\ piece \in Seq(S) /\ after = before \o piece
    BY <1>7
  <2> HIDE DEF before, piece, after
  <2>2. /\ Len(after) = Len(before) + Len(piece)
        /\ \A k \in 1..Len(piece) :
             Len(before) + k \in 1..Len(after) /\ after[Len(before) + k] = piece[k]
    BY <2>1, ConcatKeeps
  <2> QED
    BY <2>2 DEF before, piece, after
<1> QED
  BY <1>6, <1>7, <1>8

-----------------------------------------------------------------------------
(* The two loops over the bytes of a text.  Byte is what a C string is     *)
(* made of.                                                                *)

Byte == 1..255

LEMMA WidthType == \A b \in Byte : Width(b) \in 0..4
<1> SUFFICES ASSUME NEW b \in Byte PROVE Width(b) \in 0..4
  OBVIOUS
<1> QED
  BY DEF Width

\* What validateUtf8 finds from a position on.
Found == [units : Nat, wide : BOOLEAN, bad : BOOLEAN, beyond : BOOLEAN]

Nothing(data, at) == [units |-> 0, wide |-> FALSE, bad |-> FALSE, beyond |-> at > Len(data) + 1]
BadByte == [units |-> 0, wide |-> FALSE, bad |-> TRUE, beyond |-> FALSE]
OneMore(w, rest) == [rest EXCEPT !.units = @ + (IF w = 4 THEN 2 ELSE 1), !.wide = @ \/ w = 4]

Scans(data, scan) ==
  /\ scan \in [1..(Len(data) + 4) -> Found]
  /\ \A at \in 1..(Len(data) + 4) :
       scan[at] = IF at > Len(data) THEN Nothing(data, at)
                  ELSE IF Width(data[at]) = 0 THEN BadByte
                  ELSE OneMore(Width(data[at]), scan[at + Width(data[at])])

LEMMA OneMoreType ==
  ASSUME NEW w, NEW rest \in Found
  PROVE  /\ OneMore(w, rest) \in Found
         /\ OneMore(w, rest).units = rest.units + (IF w = 4 THEN 2 ELSE 1)
         /\ OneMore(w, rest).wide = (rest.wide \/ w = 4)
         /\ OneMore(w, rest).bad = rest.bad /\ OneMore(w, rest).beyond = rest.beyond
<1>1. OneMore(w, rest) = [units |-> rest.units + (IF w = 4 THEN 2 ELSE 1),
                          wide |-> (rest.wide \/ w = 4), bad |-> rest.bad, beyond |-> rest.beyond]
  <2> DEFINE more == IF w = 4 THEN 2 ELSE 1
  <2>1. PICK u \in Nat, v \in BOOLEAN, x \in BOOLEAN, y \in BOOLEAN :
          rest = [units |-> u, wide |-> v, bad |-> x, beyond |-> y]
    BY DEF Found
  <2>2. OneMore(w, rest) = [[rest EXCEPT !.units = @ + more] EXCEPT !.wide = @ \/ w = 4]
    BY DEF OneMore
  <2> HIDE DEF more
  <2>3. [rest EXCEPT !.units = @ + more] = [units |-> u + more, wide |-> v, bad |-> x, beyond |-> y]
    BY <2>1
  <2>4. OneMore(w, rest) = [units |-> u + more, wide |-> (v \/ w = 4), bad |-> x, beyond |-> y]
    BY <2>2, <2>3
  <2> QED
    BY <2>1, <2>4 DEF more
<1>2. /\ rest.units + (IF w = 4 THEN 2 ELSE 1) \in Nat /\ (rest.wide \/ w = 4) \in BOOLEAN
      /\ rest.bad \in BOOLEAN /\ rest.beyond \in BOOLEAN
  BY DEF Found
<1> QED
  BY <1>1, <1>2 DEF Found

Need(data, all) ==
  CASE all.beyond -> {0} \cup {all.units + k : k \in 0..MaxBeyond}
    [] ~ all.beyond /\ (all.bad \/ ~ all.wide) -> {0}
    [] OTHER -> {all.units}

LEMMA ScanExists ==
  ASSUME NEW data \in Seq(Byte)
  PROVE  \E scan : Scans(data, scan) /\ validateUtf8(data) = Need(data, scan[1])
<1> DEFINE m == Len(data)
           M == m + 4
           D == 1..M
           Turns(g) == [at \in D |->
                          IF at > m THEN Nothing(data, at)
                          ELSE IF Width(data[at]) = 0 THEN BadByte
                          ELSE OneMore(Width(data[at]), g[at + Width(data[at])])]
           scan == CHOOSE g : g = Turns(g)
           stop == {at \in D : at > m \/ Width(data[at]) = 0}
           base == [at \in D |-> IF at > m THEN Nothing(data, at) ELSE BadByte]
           rank == [at \in D |-> M - at]
           next == [at \in D |-> IF at \in stop THEN at ELSE at + Width(data[at])]
           make == [p \in D \X Found |-> OneMore(Width(data[p[1]]), p[2])]
<1>1. m \in Nat /\ \A at \in 1..m : data[at] \in Byte /\ Width(data[at]) \in 0..4
  BY LenProperties, ElementOfSeq, WidthType
<1>2. ASSUME NEW at \in D, at \notin stop
      PROVE  at \in 1..m /\ Width(data[at]) \in 1..4 /\ at + Width(data[at]) \in D
  <2>1. at \in 1..m /\ Width(data[at]) # 0
    BY <1>1, <1>2
  <2>2. Width(data[at]) \in 1..4
    BY <1>1, <2>1
  <2> QED
    BY <1>1, <2>1, <2>2
<1>3. base \in [D -> Found]
  <2>1. \A at \in D : Nothing(data, at) \in Found
    BY DEF Nothing, Found
  <2>2. BadByte \in Found
    BY DEF BadByte, Found
  <2> HIDE DEF D
  <2> QED
    BY <2>1, <2>2
<1>4. next \in [D -> D]
  <2> HIDE DEF stop, D
  <2> QED
    BY <1>2
<1>5. rank \in [D -> 0..M] /\ \A at \in D \ stop : rank[next[at]] < rank[at]
  <2>1. rank \in [D -> 0..M]
    BY <1>1
  <2>2. ASSUME NEW at \in D \ stop PROVE rank[next[at]] < rank[at]
    <3>1. next[at] = at + Width(data[at]) /\ next[at] \in D /\ Width(data[at]) \in 1..4
      <4> HIDE DEF stop, D
      <4> QED
        BY <1>2
    <3>2. rank[next[at]] = M - next[at] /\ rank[at] = M - at
      BY <3>1
    <3> HIDE DEF rank, next
    <3> QED
      BY <1>1, <3>1, <3>2
  <2> QED
    BY <2>1, <2>2
<1>13. Descends(D, M, rank, stop, next)
  <2>1. M \in Nat /\ stop \in SUBSET D
    BY <1>1
  <2> HIDE DEF D, M, stop, next, rank
  <2> QED
    BY <1>4, <1>5, <2>1 DEF Descends
<1>6. make \in [D \X Found -> Found]
  BY OneMoreType
<1>7. \E g : g = Turns(g)
  <2>1. PICK g : Recurses(D, Found, stop, base, next, make, g)
    <3> HIDE DEF D, M, stop, base, next, make, rank
    <3> QED
      BY <1>3, <1>6, <1>13, RecursionExists
  <2>2. /\ g \in [D -> Found]
        /\ \A at \in D : g[at] = IF at \in stop THEN base[at] ELSE make[<<at, g[next[at]]>>]
    <3> HIDE DEF D, stop, base, next, make
    <3> QED
      BY <2>1 DEF Recurses
  <2>3. ASSUME NEW at \in D
        PROVE  g[at] = IF at > m THEN Nothing(data, at)
                       ELSE IF Width(data[at]) = 0 THEN BadByte
                       ELSE OneMore(Width(data[at]), g[at + Width(data[at])])
    <3>1. CASE at \in stop
      <4>1. g[at] = base[at] /\ base[at] = IF at > m THEN Nothing(data, at) ELSE BadByte
        <5> HIDE DEF stop, next, make
        <5> QED
          BY <2>2, <3>1
      <4>2. at > m \/ Width(data[at]) = 0
        BY <3>1
      <4> HIDE DEF base, stop
      <4> QED
        BY <4>1, <4>2, Zenon
    <3>2. CASE at \notin stop
      <4>1. ~ (at > m) /\ Width(data[at]) # 0
        BY <3>2
      <4>2. next[at] = at + Width(data[at]) /\ next[at] \in D
        <5> HIDE DEF stop, D
        <5> QED
          BY <1>2, <3>2
      <4>3. g[next[at]] \in Found
        BY <2>2, <4>2
      <4>4. make[<<at, g[next[at]]>>] = OneMore(Width(data[at]), g[next[at]])
        BY <4>3
      <4> HIDE DEF base, stop, make, next, D
      <4> QED
        BY <2>2, <3>2, <4>1, <4>2, <4>4, Zenon
    <3> QED
      BY <3>1, <3>2
  <2>4. g = Turns(g)
    <3> HIDE DEF D, stop, base, next, make
    <3> QED
      BY <2>2, <2>3
  <2> QED
    BY <2>4
<1>8. scan = Turns(scan)
  BY <1>7
<1> HIDE DEF scan
<1>10. \A at \in D : scan[at] = IF at > m THEN Nothing(data, at)
                                ELSE IF Width(data[at]) = 0 THEN BadByte
                                ELSE OneMore(Width(data[at]), scan[at + Width(data[at])])
  <2> HIDE DEF D
  <2> QED
    BY <1>8
<1>11. \A at \in D : scan[at] \in Found
  <2>1. ASSUME NEW at \in stop PROVE scan[at] \in Found
    <3>1. at \in D /\ (at > m \/ Width(data[at]) = 0)
      OBVIOUS
    <3>2. Nothing(data, at) \in Found /\ BadByte \in Found
      BY DEF Nothing, BadByte, Found
    <3> HIDE DEF D, stop
    <3> QED
      BY <1>10, <3>1, <3>2
  <2>2. ASSUME NEW at \in D \ stop, scan[next[at]] \in Found PROVE scan[at] \in Found
    <3>1. ~ (at > m) /\ Width(data[at]) # 0 /\ at \in D
      OBVIOUS
    <3>2. next[at] = at + Width(data[at])
      <4> HIDE DEF stop, D
      <4> QED
        BY <1>2, <3>1
    <3>3. scan[at] = OneMore(Width(data[at]), scan[next[at]])
      <4> HIDE DEF D, stop, next
      <4> QED
        BY <1>10, <3>1, <3>2
    <3> HIDE DEF D, stop, next
    <3> QED
      BY <2>2, <3>3, OneMoreType
  <2>3. \A at \in stop : at \in D
    OBVIOUS
  <2> HIDE DEF D, M, stop, next, rank
  <2> DEFINE T == {at \in D : scan[at] \in Found}
  <2>4. Kept(D, stop, next, T)
    BY <2>1, <2>2, <2>3 DEF Kept
  <2> HIDE DEF T
  <2>5. \A at \in D : at \in T
    BY <1>13, <2>4, RecursionKeeps
  <2> QED
    BY <2>5 DEF T
<1>12. Scans(data, scan)
  <2>1. scan \in [D -> Found]
    <3> HIDE DEF D
    <3> QED
      BY <1>8, <1>11
  <2> QED
    BY <1>10, <2>1 DEF Scans
<1>9. validateUtf8(data) = Need(data, scan[1])
  BY DEF validateUtf8, Need, Nothing, BadByte, OneMore, scan
<1> QED
  BY <1>9, <1>12

\* The points that take one unit are below FirstWide.
FirstWide == 65536
LastPoint == 1114111

LEMMA UnitsType ==
  ASSUME NEW point \in Nat
  PROVE  /\ UnitsOf(point) \in Seq(Nat) /\ Len(UnitsOf(point)) \in 0..2
         /\ point < FirstWide => UnitsOf(point) = <<point>> /\ Len(UnitsOf(point)) = 1
         /\ ~ (point < FirstWide) /\ point <= LastPoint => Len(UnitsOf(point)) = 2
         /\ point > LastPoint => UnitsOf(point) = <<>>
<1> USE DEF FirstWide, LastPoint
<1>1. CASE point < 65536
  <2>1. UnitsOf(point) = <<point>>
    BY <1>1, SMT DEF UnitsOf
  <2> QED
    BY <1>1, <2>1, SMT
<1>2. CASE point >= 65536 /\ point <= 1114111
  <2>1. UnitsOf(point) = <<point \div 1024 + 55232, (point % 1024) + 56320>>
    BY <1>2, SMT DEF UnitsOf
  <2>2. point \div 1024 + 55232 \in Nat /\ (point % 1024) + 56320 \in Nat
    BY SMT
  <2> QED
    BY <1>2, <2>1, <2>2, SMT
<1>3. CASE point > 1114111
  <2>1. UnitsOf(point) = <<>>
    BY <1>3, SMT DEF UnitsOf
  <2> QED
    BY <1>3, <2>1, SMT
<1> QED
  BY <1>1, <1>2, <1>3, SMT

LEMMA CodePointType ==
  ASSUME NEW data \in Seq(Byte), NEW at \in 1..Len(data), NEW w \in 1..4, Complete(data, at, w)
  PROVE  /\ CodePoint(data, at, w) \in Nat
         /\ w < 4 => CodePoint(data, at, w) < FirstWide
<1> USE DEF FirstWide
<1>1. ASSUME NEW k \in 0..3, k < w
      PROVE  /\ data[at + k] \in Nat /\ data[at + k] <= 255
             /\ data[at + k] % 64 \in Nat /\ data[at + k] % 64 <= 63
  <2>1. at + k \in 1..Len(data)
    BY <1>1, LenProperties, SMT DEF Complete
  <2>2. PICK b \in Byte : b = data[at + k]
    BY <2>1, ElementOfSeq
  <2>3. b \in Nat /\ b <= 255 /\ b % 64 \in Nat /\ b % 64 <= 63
    BY SMT DEF Byte
  <2> QED
    BY <2>2, <2>3
<1>2. PICK b \in Nat : b = data[at] /\ b <= 255
  <2>1. at + 0 = at /\ 0 < w
    BY SMT
  <2> QED
    BY <1>1, <2>1, SMT
<1>3. CASE w = 1
  <2>1. CodePoint(data, at, w) = b
    BY <1>2, <1>3, SMT DEF CodePoint
  <2> QED
    BY <1>2, <1>3, <2>1, SMT
<1>4. CASE w = 2
  <2>1. PICK c \in Nat : c = data[at + 1] % 64 /\ c <= 63
    BY <1>1, <1>4, SMT
  <2>2. CodePoint(data, at, w) = 64 * (b % 32) + c
    BY <1>2, <1>4, <2>1, SMT DEF CodePoint
  <2> QED
    BY <1>4, <2>1, <2>2, SMT
<1>5. CASE w = 3
  <2>1. PICK c \in Nat : c = data[at + 1] % 64 /\ c <= 63
    BY <1>1, <1>5, SMT
  <2>2. PICK d \in Nat : d = data[at + 2] % 64 /\ d <= 63
    BY <1>1, <1>5, SMT
  <2>3. PICK m \in Nat : m = b % 16 /\ m <= 15
    BY SMT
  <2>4. CodePoint(data, at, w) = 4096 * m + 64 * c + d
    BY <1>2, <1>5, <2>1, <2>2, <2>3, SMT DEF CodePoint
  <2>5. 4096 * m + 64 * c + d \in Nat /\ 4096 * m + 64 * c + d < 65536
    BY <2>1, <2>2, <2>3, SMT
  <2> QED
    BY ONLY <1>5, <2>4, <2>5, SMT
<1>6. CASE w = 4
  <2>1. PICK c \in Nat : c = data[at + 1] % 64 /\ c <= 63
    BY <1>1, <1>6, SMT
  <2>2. PICK d \in Nat : d = data[at + 2] % 64 /\ d <= 63
    BY <1>1, <1>6, SMT
  <2>3. PICK z \in Nat : z = data[at + 3] % 64 /\ z <= 63
    BY <1>1, <1>6, SMT
  <2>4. PICK m \in Nat : m = b % 8 /\ m <= 7
    BY SMT
  <2>5. CodePoint(data, at, w) = 262144 * m + 4096 * c + 64 * d + z
    BY <1>2, <1>6, <2>1, <2>2, <2>3, <2>4, SMT DEF CodePoint
  <2>6. 262144 * m + 4096 * c + 64 * d + z \in Nat
    BY <2>1, <2>2, <2>3, <2>4, SMTT(30)
  <2> QED
    BY ONLY <1>6, <2>5, <2>6, SMT
<1> QED
  BY <1>3, <1>4, <1>5, <1>6, SMT

\* What utf16FromUtf8 writes from a position on.
UnitsAt(data, at) == UnitsOf(CodePoint(data, at, Width(data[at])))

Ends(data, at) ==
  at > Len(data) \/ ~ Complete(data, at, Width(data[at])) \/ UnitsAt(data, at) = <<>>

Converts(data, n, from) ==
  /\ from \in [1..(Len(data) + 1) -> [-1..n -> Seq(Nat)]]
  /\ \A at \in 1..(Len(data) + 1), left \in -1..n :
       from[at][left] = IF Ends(data, at) \/ left <= 0 THEN <<>>
                        ELSE UnitsAt(data, at) \o from[at + Width(data[at])][left - Len(UnitsAt(data, at))]

\* Where it goes on, it has written one or two units, and goes on behind the character.
LEMMA GoesOn ==
  ASSUME NEW data \in Seq(Byte), NEW at \in 1..(Len(data) + 1), ~ Ends(data, at)
  PROVE  /\ at \in 1..Len(data) /\ Width(data[at]) \in 1..4
         /\ at + Width(data[at]) \in 1..(Len(data) + 1)
         /\ UnitsAt(data, at) \in Seq(Nat)
         /\ Len(UnitsAt(data, at)) \in 1..(IF Width(data[at]) = 4 THEN 2 ELSE 1)
<1>1. Len(data) \in Nat /\ at \in 1..Len(data)
  BY LenProperties, SMT DEF Ends
<1>2. Complete(data, at, Width(data[at])) /\ UnitsAt(data, at) # <<>>
  BY Zenon DEF Ends
<1>3. PICK w \in 0..4 : w = Width(data[at])
  BY <1>1, ElementOfSeq, WidthType
<1>4. w \in 1..4 /\ at + w \in 1..(Len(data) + 1)
  BY <1>1, <1>2, <1>3, SMT DEF Complete
<1>5. PICK point \in Nat : point = CodePoint(data, at, w) /\ (w < 4 => point < FirstWide)
  BY <1>1, <1>2, <1>3, <1>4, CodePointType, SMT
<1>6. UnitsAt(data, at) = UnitsOf(point)
  BY <1>3, <1>5, Zenon DEF UnitsAt
<1>7. PICK l \in 0..2 : l = Len(UnitsOf(point)) /\ l # 0 /\ (point < FirstWide => l = 1)
  BY <1>2, <1>6, UnitsType, EmptySeq, SMT
<1>8. l \in 1..(IF w = 4 THEN 2 ELSE 1)
  BY <1>4, <1>5, <1>7, SMT
<1>9. UnitsOf(point) \in Seq(Nat)
  BY UnitsType, Zenon
<1> QED
  BY <1>1, <1>3, <1>4, <1>6, <1>7, <1>8, <1>9, Zenon

LEMMA ConvertExists ==
  ASSUME NEW data \in Seq(Byte), NEW n \in Nat
  PROVE  \E from : Converts(data, n, from) /\ utf16FromUtf8(data, n) = from[1][n]
<1> DEFINE m == Len(data)
           D == 1..(m + 1)
           L == -1..n
           R == [L -> Seq(Nat)]
           W(at) == Width(data[at])
           U(at) == UnitsAt(data, at)
           Turns(g) == [at \in D |-> [left \in L |->
                          IF Ends(data, at) \/ left <= 0 THEN <<>>
                          ELSE U(at) \o g[at + W(at)][left - Len(U(at))]]]
           from == CHOOSE g : g = Turns(g)
           none == [left \in L |-> <<>>]
           stop == {at \in D : Ends(data, at)}
           base == [at \in D |-> none]
           rank == [at \in D |-> (m + 1) - at]
           next == [at \in D |-> IF at \in stop THEN at ELSE at + W(at)]
           longer(at, r) == [left \in L |-> IF left <= 0 THEN <<>> ELSE U(at) \o r[left - Len(U(at))]]
           make == [p \in D \X R |-> IF p[1] \in stop THEN none ELSE longer(p[1], p[2])]
<1>1. m \in Nat /\ m + 1 \in Nat
  BY LenProperties
<1>2. ASSUME NEW at \in D, at \notin stop
      PROVE  /\ ~ Ends(data, at) /\ W(at) \in 1..4 /\ at + W(at) \in D
             /\ U(at) \in Seq(Nat) /\ Len(U(at)) \in 1..2
  <2>1. ~ Ends(data, at)
    BY <1>2
  <2>2. /\ W(at) \in 1..4 /\ at + W(at) \in D /\ U(at) \in Seq(Nat)
        /\ Len(U(at)) \in 1..(IF W(at) = 4 THEN 2 ELSE 1)
    BY <2>1, GoesOn
  <2>3. PICK l \in 1..(IF W(at) = 4 THEN 2 ELSE 1) : l = Len(U(at))
    BY <2>2
  <2>4. l \in 1..2
    OBVIOUS
  <2> HIDE DEF W, U, D
  <2> QED
    BY <2>1, <2>2, <2>3, <2>4
<1>3. none \in R /\ base \in [D -> R]
  <2>1. <<>> \in Seq(Nat)
    BY EmptySeq
  <2>2. none \in R
    BY <2>1
  <2> HIDE DEF none, R, D
  <2> QED
    BY <2>2
<1>4. next \in [D -> D]
  <2> HIDE DEF stop, D, W
  <2> QED
    BY <1>2
<1>5. Descends(D, m + 1, rank, stop, next)
  <2>1. rank \in [D -> 0..(m + 1)] /\ stop \in SUBSET D
    BY <1>1
  <2>2. ASSUME NEW at \in D \ stop PROVE rank[next[at]] < rank[at]
    <3>1. next[at] = at + W(at) /\ next[at] \in D /\ W(at) \in 1..4
      <4> HIDE DEF stop, D, W
      <4> QED
        BY <1>2
    <3>2. rank[next[at]] = (m + 1) - next[at] /\ rank[at] = (m + 1) - at
      BY <3>1
    <3> HIDE DEF rank, next, W
    <3> QED
      BY <1>1, <3>1, <3>2
  <2> HIDE DEF D, m, stop, next, rank
  <2> QED
    BY <1>1, <1>4, <2>1, <2>2 DEF Descends
<1>6. ASSUME NEW at \in D, at \notin stop, NEW r \in R PROVE longer(at, r) \in R
  <2>1. ASSUME NEW left \in L, ~ (left <= 0) PROVE U(at) \o r[left - Len(U(at))] \in Seq(Nat)
    <3>1. left - Len(U(at)) \in L /\ U(at) \in Seq(Nat)
      <4>1. U(at) \in Seq(Nat) /\ Len(U(at)) \in 1..2
        <5> HIDE DEF U, W, D, stop
        <5> QED
          BY <1>2, <1>6
      <4>2. PICK l \in 1..2 : l = Len(U(at))
        BY <4>1
      <4>3. left - l \in L
        BY <2>1
      <4> HIDE DEF U, L
      <4> QED
        BY <4>1, <4>2, <4>3
    <3>2. r[left - Len(U(at))] \in Seq(Nat)
      BY <3>1
    <3> QED
      BY <3>1, <3>2, ConcatProperties
  <2>2. <<>> \in Seq(Nat)
    BY EmptySeq
  <2> HIDE DEF L, U
  <2> QED
    BY <2>1, <2>2
<1>7. make \in [D \X R -> R]
  <2>1. ASSUME NEW p \in D \X R
        PROVE  (IF p[1] \in stop THEN none ELSE longer(p[1], p[2])) \in R
    <3>1. p[1] \in D /\ p[2] \in R
      OBVIOUS
    <3> HIDE DEF D, R, stop, none, longer
    <3> QED
      BY <1>3, <1>6, <3>1
  <2> HIDE DEF D, R, stop, none, longer
  <2> QED
    BY <2>1
\* What the recursion has at a position is what from has there.
<1>8. ASSUME NEW at \in D, NEW g
      PROVE  Turns(g)[at] = IF at \in stop THEN none ELSE longer(at, g[next[at]])
  <2>1. Turns(g)[at] = [left \in L |-> IF Ends(data, at) \/ left <= 0 THEN <<>>
                          ELSE U(at) \o g[at + W(at)][left - Len(U(at))]]
    <3> HIDE DEF D, L, U, W
    <3> QED
      OBVIOUS
  <2>2. CASE at \in stop
    <3>1. Ends(data, at)
      BY <2>2
    <3> HIDE DEF D, stop, L, U, W, Turns
    <3> QED
      BY <2>1, <2>2, <3>1
  <2>3. CASE at \notin stop
    <3>1. ~ Ends(data, at)
      BY <2>3
    <3>2. next[at] = at + W(at)
      <4> HIDE DEF D, stop, W
      <4> QED
        BY <2>3
    <3> HIDE DEF D, stop, next, L, U, W, Turns
    <3> QED
      BY <2>1, <2>3, <3>1, <3>2
  <2> HIDE DEF Turns, stop, none, longer, next
  <2> QED
    BY <2>2, <2>3
<1>9. \E g : g = Turns(g)
  <2>1. PICK g : Recurses(D, R, stop, base, next, make, g)
    <3> HIDE DEF D, R, stop, base, next, make, rank
    <3> QED
      BY <1>3, <1>5, <1>7, RecursionExists
  <2>2. /\ g \in [D -> R]
        /\ \A at \in D : g[at] = IF at \in stop THEN base[at] ELSE make[<<at, g[next[at]]>>]
    <3> HIDE DEF D, R, stop, base, next, make
    <3> QED
      BY <2>1 DEF Recurses
  <2>3. ASSUME NEW at \in D PROVE g[at] = Turns(g)[at]
    <3>1. next[at] \in D /\ base[at] = none
      BY <1>4
    <3>2. g[next[at]] \in R
      <4> HIDE DEF D, R, next
      <4> QED
        BY <2>2, <3>1
    <3>3. at \notin stop => make[<<at, g[next[at]]>>] = longer(at, g[next[at]])
      <4> HIDE DEF D, R, next, stop, none, longer
      <4> QED
        BY <3>2
    <3> HIDE DEF D, R, stop, base, next, make, none, longer, Turns
    <3> QED
      BY <1>8, <2>2, <3>1, <3>3
  <2>4. g = Turns(g)
    <3>1. Turns(g) = [at \in D |-> Turns(g)[at]]
      <4> HIDE DEF D, L, U, W
      <4> QED
        OBVIOUS
    <3> HIDE DEF D, R, Turns
    <3> QED
      BY <2>2, <2>3, <3>1
  <2> QED
    BY <2>4
<1>10. from = Turns(from)
  BY <1>9, ZenonT(60)
<1>11. utf16FromUtf8(data, n) = from[1][n]
  BY DEF utf16FromUtf8, Ends, UnitsAt
<1> HIDE DEF from
<1>12. \A at \in D : from[at] = IF at \in stop THEN none ELSE longer(at, from[next[at]])
  <2> HIDE DEF D, R, stop, base, next, make, none, longer, Turns
  <2> QED
    BY <1>8, <1>10
<1>13. \A at \in D : from[at] \in R
  <2> DEFINE T == {at \in D : from[at] \in R}
  <2>1. stop \subseteq D
    OBVIOUS
  <2>2. Kept(D, stop, next, T)
    <3> HIDE DEF D, R, stop, next, none, longer
    <3> QED
      BY <1>3, <1>6, <1>12, <2>1 DEF Kept
  <2> HIDE DEF D, m, stop, next, rank, R, T
  <2>3. \A at \in D : at \in T
    BY <1>5, <2>2, RecursionKeeps
  <2> QED
    BY <2>3 DEF T
<1>14. Converts(data, n, from)
  <2>1. from \in [D -> R]
    <3>1. from = [at \in D |-> from[at]]
      <4> HIDE DEF D, L, U, W
      <4> QED
        BY <1>10
    <3> HIDE DEF D, R
    <3> QED
      BY <1>13, <3>1
  <2>2. ASSUME NEW at \in D, NEW left \in L
        PROVE  from[at][left] = IF Ends(data, at) \/ left <= 0 THEN <<>>
                                ELSE U(at) \o from[at + W(at)][left - Len(U(at))]
    <3> DEFINE row(k) == [j \in L |-> IF Ends(data, k) \/ j <= 0 THEN <<>>
                                     ELSE U(k) \o from[k + W(k)][j - Len(U(k))]]
    <3>1. from = [k \in D |-> row(k)]
      BY <1>10
    <3>2. from[at] = row(at)
      <4> HIDE DEF row, D
      <4> QED
        BY <3>1
    <3> HIDE DEF D, L, U, W
    <3> QED
      BY <3>2
  <2> QED
    BY <2>1, <2>2 DEF Converts
<1> QED
  BY <1>11, <1>14

-----------------------------------------------------------------------------
(* The characters *)

LEMMA Quotients ==
  ASSUME NEW q \in Nat, NEW e \in Nat
  PROVE  /\ e <= 63 => (64 * q + e) \div 64 = q /\ (64 * q + e) % 64 = e
         /\ e <= 4095 => (4096 * q + e) \div 4096 = q
         /\ e <= 262143 => (262144 * q + e) \div 262144 = q
<1>1. e <= 63 => (64 * q + e) \div 64 = q /\ (64 * q + e) % 64 = e
  BY SMT
<1>2. e <= 4095 => (4096 * q + e) \div 4096 = q
  BY SMT
<1>3. e <= 262143 => (262144 * q + e) \div 262144 = q
  BY SMT
<1> QED
  BY <1>1, <1>2, <1>3, SMT

LEMMA LastDigit ==
  ASSUME NEW p \in Nat
  PROVE  \E q, d \in Nat : d <= 63 /\ p = 64 * q + d /\ p \div 64 = q /\ p % 64 = d
<1>1. p \div 64 \in Nat /\ p % 64 \in Nat /\ p % 64 <= 63 /\ p = 64 * (p \div 64) + (p % 64)
  BY SMT
<1> QED
  BY <1>1, SMT

\* The digits of a number to the base 64.
LEMMA Digits ==
  ASSUME NEW p \in Nat
  PROVE  \E a, b, c, d \in Nat :
           /\ b <= 63 /\ c <= 63 /\ d <= 63 /\ p = 262144 * a + 4096 * b + 64 * c + d
           /\ p % 64 = d /\ (p \div 64) % 64 = c /\ p \div 64 = 4096 * a + 64 * b + c
           /\ p \div 4096 = 64 * a + b /\ (p \div 4096) % 64 = b /\ p \div 262144 = a
<1>1. PICK q1, d \in Nat : d <= 63 /\ p = 64 * q1 + d /\ p \div 64 = q1 /\ p % 64 = d
  BY LastDigit, SMT
<1>2. PICK q2, c \in Nat : c <= 63 /\ q1 = 64 * q2 + c /\ q1 \div 64 = q2 /\ q1 % 64 = c
  BY LastDigit, SMT
<1>3. PICK a, b \in Nat : b <= 63 /\ q2 = 64 * a + b /\ q2 \div 64 = a /\ q2 % 64 = b
  BY LastDigit, SMT
<1>4. p \div 4096 = q2
  <2>1. PICK e \in Nat : e = 64 * c + d
    BY SMT
  <2>2. e <= 4095 /\ p = 4096 * q2 + e
    BY <1>1, <1>2, <2>1, SMT
  <2> QED
    BY <2>2, Quotients, SMT
<1>5. p = 262144 * a + 4096 * b + 64 * c + d /\ q1 = 4096 * a + 64 * b + c
  BY <1>1, <1>2, <1>3, SMT
<1>6. p \div 262144 = a
  <2>1. PICK e \in Nat : e = 4096 * b + 64 * c + d
    BY SMT
  <2>2. e <= 262143
    BY <1>1, <1>2, <1>3, <2>1, SMT
  <2>3. p = 262144 * a + e
    BY ONLY <1>5, <2>1, SMT
  <2> QED
    BY <2>2, <2>3, Quotients, SMT
<1>7. p % 64 = d /\ (p \div 64) % 64 = c /\ (p \div 4096) % 64 = b /\ p \div 64 = q1
  BY <1>1, <1>2, <1>3, <1>4, SMT
<1>8. b <= 63 /\ c <= 63 /\ d <= 63 /\ q2 = 64 * a + b
  BY <1>1, <1>2, <1>3, SMT
<1> QED
  BY ONLY <1>4, <1>5, <1>6, <1>7, <1>8, SMT

LEMMA Widths ==
  ASSUME NEW b \in Nat
  PROVE  /\ b < 128 => Width(b) = 1
         /\ (128 <= b /\ b < 160) \/ (192 <= b /\ b < 224) => Width(b) = 2
         /\ (160 <= b /\ b < 176) \/ (224 <= b /\ b < 240) => Width(b) = 3
         /\ (176 <= b /\ b < 184) \/ (240 <= b /\ b < 248) => Width(b) = 4
<1>1. CASE b < 128
  <2>1. Bit(b, 128) = 0
    BY <1>1, SMT DEF Bit
  <2> QED
    BY <1>1, <2>1, SMT DEF Width
<1>2. CASE (128 <= b /\ b < 160) \/ (192 <= b /\ b < 224)
  <2>1. Bit(b, 128) = 1 /\ Bit(b, 32) = 0
    BY <1>2, SMT DEF Bit
  <2> QED
    BY <1>2, <2>1, SMT DEF Width
<1>3. CASE (160 <= b /\ b < 176) \/ (224 <= b /\ b < 240)
  <2>1. Bit(b, 128) = 1 /\ Bit(b, 32) = 1 /\ Bit(b, 16) = 0
    BY <1>3, SMT DEF Bit
  <2> QED
    BY <1>3, <2>1, SMT DEF Width
<1>4. CASE (176 <= b /\ b < 184) \/ (240 <= b /\ b < 248)
  <2>1. Bit(b, 128) = 1 /\ Bit(b, 32) = 1 /\ Bit(b, 16) = 1 /\ Bit(b, 8) = 0
    BY <1>4, SMT DEF Bit
  <2> QED
    BY <1>4, <2>1, SMT DEF Width
<1> QED
  BY <1>1, <1>2, <1>3, <1>4, SMT

\* The bytes of a character, read by the code, give its point.
LEMMA Utf8Decodes ==
  ASSUME NEW p \in Nat, NEW bytes, ReadAs(bytes, p), NEW w, w = Len(bytes)
  PROVE  /\ w \in 1..4 /\ Width(bytes[1]) = w
         /\ w = 4 <=> ~ (p < FirstWide)
         /\ \A k \in 2..w : bytes[k] \div 64 = 2
         /\ CodePoint(bytes, 1, w) = p
         /\ p <= LastPoint
<1> DEFINE Decoded == /\ w \in 1..4 /\ Width(bytes[1]) = w
                      /\ w = 4 <=> ~ (p < FirstWide)
                      /\ \A k \in 2..w : bytes[k] \div 64 = 2
                      /\ CodePoint(bytes, 1, w) = p
                      /\ p <= LastPoint
<1> SUFFICES Decoded
  OBVIOUS
<1> HIDE DEF Decoded
<1> USE DEF LastPoint, FirstWide
<1>1. PICK a, b, c, d \in Nat :
        /\ b <= 63 /\ c <= 63 /\ d <= 63 /\ p = 262144 * a + 4096 * b + 64 * c + d
        /\ p % 64 = d /\ (p \div 64) % 64 = c /\ p \div 64 = 4096 * a + 64 * b + c
        /\ p \div 4096 = 64 * a + b /\ (p \div 4096) % 64 = b /\ p \div 262144 = a
  BY Digits, SMT
<1>2. p \div 1 = p
  BY SMT
<1>3. /\ (128 + b) % 64 = b /\ (128 + b) \div 64 = 2
      /\ (128 + c) % 64 = c /\ (128 + c) \div 64 = 2
      /\ (128 + d) % 64 = d /\ (128 + d) \div 64 = 2
  BY <1>1, SMT
<1>4. CASE p > 0 /\ p < 128 /\ bytes = <<p>>
  <2>1. w = 1 /\ Width(p) = 1
    BY <1>4, Widths, SMT
  <2>2. CodePoint(bytes, 1, 1) = p
    BY <1>4, SMT DEF CodePoint
  <2> QED
    BY <1>4, <2>1, <2>2, SMT DEF Decoded
<1>5. ASSUME p < 2048, NEW lead \in {128, 192}, bytes = <<lead + (p \div 64), 128 + ((p \div 1) % 64)>>
      PROVE  Decoded
  <2>1. a = 0 /\ b = 0 /\ c < 32
    BY <1>1, <1>5, SMT
  <2>2. p \div 64 = c
    BY <1>1, <2>1, SMT
  <2>3. bytes = <<lead + c, 128 + d>>
    BY <1>1, <1>2, <1>5, <2>2, SMT
  <2>4. w = 2 /\ Width(lead + c) = 2
    BY <2>1, <2>3, Widths, SMT
  <2>5. (lead + c) % 32 = c /\ p = 64 * c + d
    BY <1>1, <2>1, SMT
  <2>6. CodePoint(bytes, 1, 2) = 64 * ((lead + c) % 32) + ((128 + d) % 64)
    BY <2>3, SMT DEF CodePoint
  <2> QED
    BY <1>3, <1>5, <2>3, <2>4, <2>5, <2>6, SMT DEF Decoded
<1>6. ASSUME p < 65536, NEW lead \in {160, 224},
             bytes = <<lead + (p \div 4096), 128 + ((p \div 64) % 64), 128 + ((p \div 1) % 64)>>
      PROVE  Decoded
  <2>1. a = 0 /\ b < 16
    BY <1>1, <1>6, SMT
  <2>2. p \div 4096 = b
    BY <1>1, <2>1, SMT
  <2>3. bytes = <<lead + b, 128 + c, 128 + d>>
    BY <1>1, <1>2, <1>6, <2>2, SMT
  <2>4. w = 3 /\ Width(lead + b) = 3
    BY <2>1, <2>3, Widths, SMT
  <2>5. (lead + b) % 16 = b /\ p = 4096 * b + 64 * c + d
    BY <1>1, <2>1, SMT
  <2>6. CodePoint(bytes, 1, 3) = 4096 * ((lead + b) % 16) + 64 * ((128 + c) % 64) + ((128 + d) % 64)
    BY <2>3, SMT DEF CodePoint
  <2>7. CodePoint(bytes, 1, 3) = p
    BY <1>3, <2>5, <2>6, SMT
  <2>8. \A k \in 2..3 : bytes[k] \div 64 = 2
    BY <1>3, <2>3, SMT
  <2>9. bytes[1] = lead + b
    BY <2>3, SMT
  <2>10. (w = 4 <=> ~ (p < FirstWide)) /\ p <= LastPoint
    BY ONLY <1>6, <2>4, p \in Nat, SMT DEF LastPoint, FirstWide
  <2>11. w = 3 /\ w \in 1..4 /\ Width(bytes[1]) = w
    BY ONLY <2>4, <2>9, SMT
  <2> QED
    BY ONLY <2>7, <2>8, <2>10, <2>11, SMT DEF Decoded
<1>7. ASSUME p >= 65536, p <= 1114111, NEW lead \in {176, 240},
             bytes = <<lead + (p \div 262144), 128 + ((p \div 4096) % 64),
                       128 + ((p \div 64) % 64), 128 + ((p \div 1) % 64)>>
      PROVE  Decoded
  <2>1. a <= 4
    BY <1>1, <1>7, SMT
  <2>2. bytes = <<lead + a, 128 + b, 128 + c, 128 + d>>
    BY <1>1, <1>2, <1>7, SMT
  <2>3. w = 4 /\ Width(lead + a) = 4
    BY <2>1, <2>2, Widths, SMT
  <2>4. (lead + a) % 8 = a
    BY <2>1, SMT
  <2>5. CodePoint(bytes, 1, 4) = 262144 * ((lead + a) % 8) + 4096 * ((128 + b) % 64)
                                     + 64 * ((128 + c) % 64) + ((128 + d) % 64)
    BY <2>2, SMT DEF CodePoint
  <2>6. CodePoint(bytes, 1, 4) = p
    BY <1>1, <1>3, <2>4, <2>5, SMT
  <2>7. \A k \in 2..4 : bytes[k] \div 64 = 2
    BY <1>3, <2>2, SMT
  <2>8. bytes[1] = lead + a
    BY <2>2, SMT
  <2> QED
    BY ONLY <1>7, <2>3, <2>6, <2>7, <2>8, p \in Nat, SMT DEF LastPoint, FirstWide, Decoded
<1> QED
  BY <1>4, <1>5, <1>6, <1>7, SMT DEF ReadAs

LEMMA Utf16Is ==
  ASSUME NEW p \in Nat, p <= LastPoint
  PROVE  UnitsOf(p) = Utf16(p)
<1> USE DEF LastPoint
<1>1. CASE p < 65536
  BY <1>1, SMT DEF UnitsOf, Utf16
<1>2. CASE p >= 65536
  <2>1. PICK q \in Nat, r \in 0..1023 : p = 65536 + (1024 * q + r)
    <3>1. PICK k \in Nat : p = 65536 + k
      BY <1>2, SMT
    <3>2. k \div 1024 \in Nat /\ k % 1024 \in 0..1023 /\ k = 1024 * (k \div 1024) + (k % 1024)
      BY SMT
    <3> QED
      BY <3>1, <3>2, SMT
  <2>2. p \div 1024 = 64 + q /\ p % 1024 = r
    BY <2>1, SMT
  <2>3. (p - 65536) \div 1024 = q /\ (p - 65536) % 1024 = r
    BY <2>1, SMT
  <2>4. UnitsOf(p) = <<p \div 1024 + 55232, (p % 1024) + 56320>>
    BY <1>2, SMT DEF UnitsOf
  <2>5. Utf16(p) = <<55296 + (p - 65536) \div 1024, 56320 + ((p - 65536) % 1024)>>
    BY <1>2, SMT DEF Utf16
  <2> QED
    BY <2>1, <2>2, <2>3, <2>4, <2>5, SMT
<1> QED
  BY <1>1, <1>2, SMT

\* The units that a character counts for.
Counts(data, at) == IF Width(data[at]) = 4 THEN 2 ELSE 1

\* One step of the conversion next to the same step of the scan.
LEMMA BothStep ==
  ASSUME NEW data \in Seq(Byte), NEW n \in Nat, NEW scan, Scans(data, scan),
         NEW from, Converts(data, n, from),
         NEW at \in 1..(Len(data) + 1), NEW left \in -1..n
  PROVE  /\ scan[at].units \in Nat
         /\ from[at][left] \in Seq(Nat) /\ Len(from[at][left]) \in Nat
         /\ Ends(data, at) \/ left <= 0 => from[at][left] = <<>> /\ Len(from[at][left]) = 0
         /\ at <= Len(data) /\ ~ scan[at].bad => scan[at].units > 0
<1>1. Len(data) \in Nat /\ at \in 1..(Len(data) + 4)
  BY LenProperties, SMT
<1>2. scan[at] \in Found /\ from[at] \in [-1..n -> Seq(Nat)]
  BY <1>1, Zenon DEF Scans, Converts
<1>3. scan[at].units \in Nat /\ from[at][left] \in Seq(Nat)
  BY <1>2, Zenon DEF Found
<1>4. Len(from[at][left]) \in Nat
  BY <1>3, LenProperties, Zenon
<1>5. from[at][left] = IF Ends(data, at) \/ left <= 0 THEN <<>>
                       ELSE UnitsAt(data, at) \o from[at + Width(data[at])][left - Len(UnitsAt(data, at))]
  BY Zenon DEF Converts
<1>6. ASSUME Ends(data, at) \/ left <= 0 PROVE from[at][left] = <<>> /\ Len(from[at][left]) = 0
  BY <1>5, <1>6, EmptySeq, Zenon
<1>7. ASSUME at <= Len(data), ~ scan[at].bad PROVE scan[at].units > 0
  <2>1. data[at] \in Byte
    BY <1>1, <1>7, ElementOfSeq, SMT
  <2>2. PICK w \in 0..4 : w = Width(data[at])
    BY <2>1, WidthType, Zenon
  <2>3. scan[at] = IF w = 0 THEN BadByte ELSE OneMore(w, scan[at + w])
    BY <1>1, <1>7, <2>2, SMT DEF Scans
  <2>4. BadByte.bad = TRUE
    BY DEF BadByte
  <2>5. w \in 1..4 /\ scan[at] = OneMore(w, scan[at + w])
    BY <1>7, <2>2, <2>3, <2>4, SMT
  <2>6. at + w \in 1..(Len(data) + 4)
    BY <1>1, <1>7, <2>5, SMT
  <2>7. scan[at + w] \in Found
    BY <2>6, Zenon DEF Scans
  <2>8. scan[at].units = scan[at + w].units + (IF w = 4 THEN 2 ELSE 1)
    <3>1. OneMore(w, scan[at + w]).units = scan[at + w].units + (IF w = 4 THEN 2 ELSE 1)
      BY <2>7, OneMoreType, SMT
    <3> QED
      BY <2>5, <3>1, Zenon
  <2>9. scan[at + w].units \in Nat
    BY <2>7, Zenon DEF Found
  <2> QED
    BY <2>8, <2>9, SMT
<1> QED
  BY <1>3, <1>4, <1>6, <1>7, Zenon

LEMMA Stops ==
  ASSUME NEW data \in Seq(Byte), NEW n \in Nat, NEW from, Converts(data, n, from),
         NEW at \in 1..(Len(data) + 1), NEW left \in -1..n, Ends(data, at) \/ left <= 0
  PROVE  from[at][left] = <<>> /\ Len(from[at][left]) = 0
<1>1. from[at][left] = IF Ends(data, at) \/ left <= 0 THEN <<>>
                       ELSE UnitsAt(data, at) \o from[at + Width(data[at])][left - Len(UnitsAt(data, at))]
  BY Zenon DEF Converts
<1> QED
  BY <1>1, EmptySeq, Zenon

\* The conversion goes on behind the character at a position, with what room is left.
GoOn(data, n, scan, from, at, left, next, rest) ==
  /\ next = at + Width(data[at]) /\ rest = left - Len(UnitsAt(data, at))
  /\ next \in 1..(Len(data) + 1) /\ rest \in -1..n /\ next > at /\ ~ scan[next].bad
  /\ scan[at].units = scan[next].units + Counts(data, at)
  /\ from[at][left] = UnitsAt(data, at) \o from[next][rest]
  /\ Len(from[at][left]) = Len(UnitsAt(data, at)) + Len(from[next][rest])
  /\ scan[next].units \in Nat /\ from[next][rest] \in Seq(Nat) /\ Len(from[next][rest]) \in Nat
  /\ Len(UnitsAt(data, at)) \in 1..Counts(data, at) /\ Counts(data, at) \in 1..2

LEMMA Continues ==
  ASSUME NEW data \in Seq(Byte), NEW n \in Nat, NEW scan, Scans(data, scan),
         NEW from, Converts(data, n, from),
         NEW at \in 1..(Len(data) + 1), NEW left \in -1..n, ~ Ends(data, at), left > 0, ~ scan[at].bad
  PROVE  \E next, rest : GoOn(data, n, scan, from, at, left, next, rest)
<1>1. PICK w \in 1..4 : w = Width(data[at])
  BY GoesOn, Zenon
<1>2. Len(data) \in Nat /\ at \in 1..(Len(data) + 4)
  BY LenProperties, SMT
<1>3. at <= Len(data) /\ at + w \in 1..(Len(data) + 1) /\ at + w \in 1..(Len(data) + 4) /\ at + w > at
  BY <1>1, <1>2, GoesOn, SMT
<1>4. PICK u \in Seq(Nat) : u = UnitsAt(data, at)
  BY GoesOn, Zenon
<1>5. PICK c \in 1..2 : c = (IF w = 4 THEN 2 ELSE 1)
  BY SMT
<1>6. c = Counts(data, at)
  BY <1>1, <1>5, Zenon DEF Counts
<1>7. PICK l \in 1..c : l = Len(u)
  <2>1. Len(UnitsAt(data, at)) \in 1..(IF Width(data[at]) = 4 THEN 2 ELSE 1)
    BY GoesOn, Zenon
  <2>2. Len(u) \in 1..c
    BY <1>1, <1>4, <1>5, <2>1, Zenon
  <2> QED
    BY <2>2, Zenon
<1>8. scan[at] = OneMore(w, scan[at + w])
  <2>1. scan[at] = IF w = 0 THEN BadByte ELSE OneMore(w, scan[at + w])
    BY <1>1, <1>2, <1>3, SMT DEF Scans
  <2>2. w # 0
    BY SMT
  <2> QED
    BY <2>1, <2>2, Zenon
<1>9. scan[at + w] \in Found
  BY <1>3, Zenon DEF Scans
<1>10. scan[at].units = scan[at + w].units + c /\ scan[at].bad = scan[at + w].bad
  <2>1. /\ OneMore(w, scan[at + w]).units = scan[at + w].units + (IF w = 4 THEN 2 ELSE 1)
        /\ OneMore(w, scan[at + w]).bad = scan[at + w].bad
    BY <1>9, OneMoreType, SMT
  <2> QED
    BY <1>5, <1>8, <2>1, Zenon
<1>11. left - l \in -1..n
  BY <1>5, <1>7, SMT
<1>12. from[at][left] = u \o from[at + w][left - l]
  <2>1. ~ (left <= 0)
    BY SMT
  <2>2. from[at][left] = IF Ends(data, at) \/ left <= 0 THEN <<>>
                         ELSE UnitsAt(data, at) \o from[at + Width(data[at])][left - Len(UnitsAt(data, at))]
    BY Zenon DEF Converts
  <2> QED
    BY <1>1, <1>4, <1>7, <2>1, <2>2, Zenon
<1>13. from[at + w][left - l] \in Seq(Nat)
  <2>1. from[at + w] \in [-1..n -> Seq(Nat)]
    BY <1>3, Zenon DEF Converts
  <2> QED
    BY <1>11, <2>1, Zenon
<1>14. /\ Len(u \o from[at + w][left - l]) = Len(u) + Len(from[at + w][left - l])
       /\ Len(from[at + w][left - l]) \in Nat
  BY <1>13, ConcatProperties, LenProperties, Zenon
<1>15. scan[at + w].units \in Nat
  BY <1>9, Zenon DEF Found
<1>16. GoOn(data, n, scan, from, at, left, at + w, left - l)
  BY <1>1, <1>3, <1>4, <1>5, <1>6, <1>7, <1>10, <1>11, <1>12, <1>13, <1>14, <1>15, Zenon DEF GoOn
<1> QED
  BY <1>16, Zenon

\* No more units are written from a position than are counted from there.
LEMMA CountBounds ==
  ASSUME NEW data \in Seq(Byte), NEW n \in Nat, NEW scan, Scans(data, scan),
         NEW from, Converts(data, n, from)
  PROVE  \A at \in 1..(Len(data) + 1), left \in -1..n :
           ~ scan[at].bad => Len(from[at][left]) <= scan[at].units
<1> DEFINE m == Len(data)
           P(at) == \A left \in -1..n : ~ scan[at].bad => Len(from[at][left]) <= scan[at].units
           S == {i \in 0..(m + 1) : \A at \in 1..(m + 1) : at > i => P(at)}
<1>1. m \in Nat
  BY LenProperties, Zenon
<1> HIDE DEF m
<1>2. m + 1 \in Nat /\ m + 1 \in S
  BY <1>1, SMT
<1>3. ASSUME NEW i \in 0..m, i + 1 \in S PROVE i \in S
  <2>1. \A at \in 1..(m + 1) : at > i + 1 => P(at)
    BY <1>3, Zenon
  <2>2. PICK at \in 1..(m + 1) : at = i + 1
    BY <1>1, SMT
  <2>3. ASSUME NEW left \in -1..n, ~ scan[at].bad PROVE Len(from[at][left]) <= scan[at].units
    <3>1. scan[at].units \in Nat
      BY BothStep, Zenon DEF m
    <3>2. CASE Ends(data, at) \/ left <= 0
      <4>1. Len(from[at][left]) = 0
        BY <3>2, Stops, Zenon DEF m
      <4> QED
        BY <3>1, <4>1, SMT
    <3>3. CASE ~ Ends(data, at) /\ ~ (left <= 0)
      <4>1. left > 0
        BY <3>3, SMT
      <4>2. PICK next, rest : GoOn(data, n, scan, from, at, left, next, rest)
        BY <2>3, <3>3, <4>1, Continues, Zenon DEF m
      <4>3. /\ next \in 1..(m + 1) /\ rest \in -1..n /\ ~ scan[next].bad /\ next > at
            /\ scan[at].units = scan[next].units + Counts(data, at)
            /\ Len(from[at][left]) = Len(UnitsAt(data, at)) + Len(from[next][rest])
            /\ scan[next].units \in Nat /\ Len(from[next][rest]) \in Nat
            /\ Len(UnitsAt(data, at)) \in 1..Counts(data, at) /\ Counts(data, at) \in 1..2
        BY <4>2, Zenon DEF m, GoOn
      <4>4. next > i + 1
        BY <2>2, <4>3, Zenon
      <4>5. Len(from[next][rest]) <= scan[next].units
        BY <2>1, <4>3, <4>4, Zenon
      <4>6. PICK l, c, x, y : /\ l = Len(UnitsAt(data, at)) /\ c = Counts(data, at)
                              /\ x = Len(from[next][rest]) /\ y = scan[next].units
        OBVIOUS
      <4>7. l \in 1..c /\ c \in 1..2 /\ x \in Nat /\ y \in Nat /\ x <= y
        BY <4>3, <4>5, <4>6, Zenon
      <4>8. l + x <= y + c
        BY <4>7, SMT
      <4> QED
        BY <4>3, <4>6, <4>8, Zenon
    <3> QED
      BY <3>2, <3>3, Zenon
  <2>4. \A other \in 1..(m + 1) : other > i => other = at \/ other > i + 1
    BY <1>1, <2>2, SMT
  <2>5. i \in 0..(m + 1)
    BY <1>1, SMT
  <2> QED
    BY <2>1, <2>3, <2>4, <2>5, Zenon
<1>4. \A i \in 0..((m + 1) - 1) : i + 1 \in S => i \in S
  <2>1. (m + 1) - 1 = m
    BY <1>1, SMT
  <2> QED
    BY <1>3, <2>1, Zenon
<1> HIDE DEF S
<1>5. \A i \in 0..(m + 1) : i \in S
  BY <1>2, <1>4, DownTo, Zenon
<1>6. 0 \in S
  BY <1>1, <1>5, SMT
<1>7. \A at \in 1..(m + 1) : P(at)
  <2>1. \A at \in 1..(m + 1) : at > 0
    BY <1>1, SMT
  <2> QED
    BY <1>6, <2>1, Zenon DEF S
<1> QED
  BY <1>7, Zenon DEF m

\* What stands at a position where no character does: the conversion ends there, or
\* writes one unit for a character that counts for two.
Stray(data, at) ==
  at <= Len(data) /\ (Ends(data, at) \/ (Width(data[at]) = 4 /\ Len(UnitsAt(data, at)) = 1))

LEMMA StrayLoses ==
  ASSUME NEW data \in Seq(Byte), NEW n \in Nat, NEW scan, Scans(data, scan),
         NEW from, Converts(data, n, from),
         NEW at \in 1..(Len(data) + 1), NEW left \in -1..n, Stray(data, at), ~ scan[at].bad
  PROVE  Len(from[at][left]) < scan[at].units
<1>1. scan[at].units \in Nat /\ scan[at].units > 0
  BY BothStep, Zenon DEF Stray
<1>2. CASE Ends(data, at) \/ left <= 0
  <2>1. Len(from[at][left]) = 0
    BY <1>2, Stops, Zenon
  <2> QED
    BY <1>1, <2>1, SMT
<1>3. CASE ~ Ends(data, at) /\ ~ (left <= 0)
  <2>1. Width(data[at]) = 4 /\ Len(UnitsAt(data, at)) = 1
    BY <1>3, Zenon DEF Stray
  <2>2. Counts(data, at) = 2
    BY <2>1, Zenon DEF Counts
  <2>3. left > 0
    BY <1>3, SMT
  <2>4. PICK next, rest : GoOn(data, n, scan, from, at, left, next, rest)
    BY <1>3, <2>3, Continues, Zenon
  <2>5. /\ next \in 1..(Len(data) + 1) /\ rest \in -1..n /\ ~ scan[next].bad
        /\ scan[at].units = scan[next].units + Counts(data, at)
        /\ Len(from[at][left]) = Len(UnitsAt(data, at)) + Len(from[next][rest])
        /\ scan[next].units \in Nat /\ Len(from[next][rest]) \in Nat
    BY <2>4, Zenon DEF GoOn
  <2>6. Len(from[next][rest]) <= scan[next].units
    BY <2>5, CountBounds, Zenon
  <2>7. PICK x, y : x = Len(from[next][rest]) /\ y = scan[next].units
    OBVIOUS
  <2>8. x \in Nat /\ y \in Nat /\ x <= y
    BY <2>5, <2>6, <2>7, Zenon
  <2>9. 1 + x < y + 2
    BY <2>8, SMT
  <2> QED
    BY <2>1, <2>2, <2>5, <2>7, <2>9, Zenon
<1> QED
  BY <1>2, <1>3, Zenon

LEMMA Associates ==
  ASSUME NEW a \in Seq(Nat), NEW b \in Seq(Nat), NEW c \in Seq(Nat)
  PROVE  (a \o b) \o c = a \o (b \o c)
<1>1. /\ a \o b \in Seq(Nat) /\ b \o c \in Seq(Nat)
      /\ Len(a \o b) = Len(a) + Len(b) /\ Len(b \o c) = Len(b) + Len(c)
  BY ConcatProperties
<1> QED
  BY <1>1, ConcatAssociative

\* Characters at positions: those in good can be converted, to the units of us, and the
\* next one follows; where the others are, no character is.
Laid(data, m, pos, good, us) ==
  /\ pos \in [1..(m + 1) -> 1..(Len(data) + 1)] /\ pos[m + 1] = Len(data) + 1
  /\ \A i \in 1..m :
       IF i \in good THEN /\ ~ Ends(data, pos[i]) /\ pos[i + 1] = pos[i] + Width(data[pos[i]])
                          /\ UnitsAt(data, pos[i]) = us[i]
       ELSE Stray(data, pos[i])

\* A conversion that writes all the units that were counted has converted every character.
Converted(n, scan, from, m, pos, good, U) ==
  \A i \in 0..m, left \in -1..n :
    ~ scan[pos[i + 1]].bad /\ Len(from[pos[i + 1]][left]) = scan[pos[i + 1]].units =>
      (\A k \in (i + 1)..m : k \in good) /\ U[i] \o from[pos[i + 1]][left] = U[m]

LEMMA AllConverted ==
  ASSUME NEW data \in Seq(Byte), NEW n \in Nat, NEW scan, Scans(data, scan),
         NEW from, Converts(data, n, from),
         NEW m \in Nat, NEW pos, NEW good, NEW us \in Seq(Seq(Nat)), Len(us) = m,
         Laid(data, m, pos, good, us), NEW U, Joins(Nat, us, U)
  PROVE  Converted(n, scan, from, m, pos, good, U)
<1> DEFINE Q(i) == \A left \in -1..n :
                     ~ scan[pos[i + 1]].bad /\ Len(from[pos[i + 1]][left]) = scan[pos[i + 1]].units =>
                       (\A k \in (i + 1)..m : k \in good) /\ U[i] \o from[pos[i + 1]][left] = U[m]
           S == {i \in 0..m : Q(i)}
<1>1. \A i \in 0..m : U[i] \in Seq(Nat)
  BY Zenon DEF Joins
<1>2. Len(data) \in Nat
  BY LenProperties, Zenon
<1>3. Q(m)
  <2>1. pos[m + 1] = Len(data) + 1 /\ pos[m + 1] > Len(data) /\ pos[m + 1] \in 1..(Len(data) + 1)
    <3>1. pos[m + 1] = Len(data) + 1
      BY Zenon DEF Laid
    <3> QED
      BY <1>2, <3>1, SMT
  <2>2. Ends(data, pos[m + 1])
    BY <2>1, Zenon DEF Ends
  <2>3. ASSUME NEW left \in -1..n PROVE U[m] \o from[pos[m + 1]][left] = U[m]
    <3>1. from[pos[m + 1]][left] = <<>>
      BY <2>1, <2>2, Stops, Zenon
    <3>2. m \in 0..m
      BY SMT
    <3> QED
      BY <1>1, <3>1, <3>2, ConcatEmptySeq, Zenon
  <2>4. \A k \in (m + 1)..m : k \in good
    BY SMT
  <2> QED
    BY <2>3, <2>4, Zenon
<1>4. ASSUME NEW i \in 0..(m - 1), Q(i + 1) PROVE Q(i)
  <2> DEFINE j == i + 1
             at == pos[j]
  <2>1. j \in 1..m /\ j \in 0..m /\ i \in 0..m /\ j \in 1..(m + 1) /\ j + 1 \in 1..(m + 1)
    BY SMT
  <2>2. at \in 1..(Len(data) + 1)
    BY <2>1, Zenon DEF Laid
  <2> SUFFICES ASSUME NEW left \in -1..n, ~ scan[at].bad, Len(from[at][left]) = scan[at].units
               PROVE  (\A k \in j..m : k \in good) /\ U[i] \o from[at][left] = U[m]
    BY Zenon
  <2>3. scan[at].units \in Nat /\ Len(from[at][left]) \in Nat
    BY <2>2, BothStep, Zenon
  <2>4. j \in good
    <3>1. ASSUME j \notin good PROVE FALSE
      <4>1. Stray(data, at)
        BY <2>1, <3>1, Zenon DEF Laid
      <4>2. Len(from[at][left]) < scan[at].units
        BY <2>2, <4>1, StrayLoses, Zenon
      <4>3. PICK x \in Nat : x = scan[at].units
        BY <2>3, Zenon
      <4>4. x < x
        BY <4>2, <4>3, Zenon
      <4> QED
        BY <4>4, SMT
    <3> QED
      BY <3>1, Zenon
  <2>5. ~ Ends(data, at) /\ pos[j + 1] = at + Width(data[at]) /\ UnitsAt(data, at) = us[j]
    BY <2>1, <2>4, Zenon DEF Laid
  <2>6. left > 0
    <3>1. ASSUME left <= 0 PROVE FALSE
      <4>1. Len(from[at][left]) = 0
        BY <2>2, <3>1, Stops, Zenon
      <4>2. at <= Len(data)
        BY <2>2, <2>5, GoesOn, SMT
      <4>3. scan[at].units > 0
        BY <2>2, <4>2, BothStep, Zenon
      <4>4. PICK x \in Nat : x = scan[at].units
        BY <2>3, Zenon
      <4>5. x = 0 /\ x > 0
        BY <4>1, <4>3, <4>4, Zenon
      <4> QED
        BY <4>5, SMT
    <3> QED
      BY <3>1, SMT
  <2>7. PICK next, rest : GoOn(data, n, scan, from, at, left, next, rest)
    BY <2>2, <2>5, <2>6, Continues, Zenon
  <2>8. next = pos[j + 1] /\ next \in 1..(Len(data) + 1) /\ rest \in -1..n /\ ~ scan[next].bad
    BY <2>5, <2>7, Zenon DEF GoOn
  <2>9. Len(from[next][rest]) = scan[next].units
    <3>1. /\ scan[at].units = scan[next].units + Counts(data, at)
          /\ Len(from[at][left]) = Len(UnitsAt(data, at)) + Len(from[next][rest])
          /\ scan[next].units \in Nat /\ Len(from[next][rest]) \in Nat
          /\ Len(UnitsAt(data, at)) \in 1..Counts(data, at) /\ Counts(data, at) \in 1..2
      BY <2>7, Zenon DEF GoOn
    <3>2. Len(from[next][rest]) <= scan[next].units
      BY <2>8, CountBounds, Zenon
    <3>3. PICK x, y, l, c : /\ x = Len(from[next][rest]) /\ y = scan[next].units
                            /\ l = Len(UnitsAt(data, at)) /\ c = Counts(data, at)
      OBVIOUS
    <3>4. x \in Nat /\ y \in Nat /\ c \in 1..2 /\ l \in 1..c /\ x <= y /\ l + x = y + c
      BY <3>1, <3>2, <3>3, Zenon
    <3>5. x = y
      BY <3>4, SMT
    <3> QED
      BY <3>3, <3>5, Zenon
  <2>10. (\A k \in (j + 1)..m : k \in good) /\ U[j] \o from[next][rest] = U[m]
    BY <1>4, <2>8, <2>9, Zenon
  <2>11. \A k \in j..m : k \in good
    <3>1. \A k \in j..m : k = j \/ k \in (j + 1)..m
      BY SMT
    <3> QED
      BY <2>4, <2>10, <3>1, Zenon
  <2>12. from[at][left] = us[j] \o from[next][rest] /\ from[next][rest] \in Seq(Nat)
    BY <2>5, <2>7, Zenon DEF GoOn
  <2>13. us[j] \in Seq(Nat) /\ U[i] \in Seq(Nat)
    BY <1>1, <2>1, ElementOfSeq, Zenon
  <2>14. U[j] = U[i] \o us[j]
    <3>1. U[j] = U[j - 1] \o us[j]
      BY <2>1, Zenon DEF Joins
    <3>2. j - 1 = i
      BY SMT
    <3> QED
      BY <3>1, <3>2, Zenon
  <2>15. (U[i] \o us[j]) \o from[next][rest] = U[i] \o (us[j] \o from[next][rest])
    <3>1. PICK a \in Seq(Nat), b \in Seq(Nat), c \in Seq(Nat) :
            a = U[i] /\ b = us[j] /\ c = from[next][rest]
      BY <2>12, <2>13, Zenon
    <3>2. (a \o b) \o c = a \o (b \o c)
      BY Associates, Zenon
    <3> QED
      BY <3>1, <3>2, Zenon
  <2> QED
    BY <2>10, <2>11, <2>12, <2>14, <2>15, Zenon
<1>5. m \in S
  <2>1. m \in 0..m
    BY SMT
  <2> QED
    BY <1>3, <2>1, Zenon
<1>6. \A i \in 0..(m - 1) : i + 1 \in S => i \in S
  <2>1. \A i \in 0..(m - 1) : i \in 0..m
    BY SMT
  <2> QED
    BY <1>4, <2>1, Zenon
<1> HIDE DEF S
<1>7. \A i \in 0..m : i \in S
  BY <1>5, <1>6, DownTo, Zenon
<1> QED
  BY <1>7, Zenon DEF S, Converted

\* A scan that meets a byte that begins no character has not passed the end of the data.
LEMMA BadIsWithin ==
  ASSUME NEW data \in Seq(Byte), NEW scan, Scans(data, scan)
  PROVE  \A at \in 1..(Len(data) + 4) : ~ (scan[at].bad /\ scan[at].beyond)
<1> DEFINE m == Len(data) + 4
           P(at) == ~ (scan[at].bad /\ scan[at].beyond)
           S == {i \in 0..m : \A at \in 1..m : at > i => P(at)}
<1>1. Len(data) \in Nat /\ m \in Nat
  BY LenProperties, SMT
<1>2. m \in S
  BY <1>1, SMT
<1>3. ASSUME NEW i \in 0..(m - 1), i + 1 \in S PROVE i \in S
  <2>1. \A at \in 1..m : at > i + 1 => P(at)
    BY <1>3, Zenon
  <2>2. PICK at \in 1..m : at = i + 1
    BY <1>1, SMT
  <2>3. scan[at] = IF at > Len(data) THEN Nothing(data, at)
                   ELSE IF Width(data[at]) = 0 THEN BadByte
                   ELSE OneMore(Width(data[at]), scan[at + Width(data[at])])
    BY <2>2, Zenon DEF Scans
  <2>4. P(at)
    <3>1. CASE at > Len(data)
      <4>1. scan[at] = Nothing(data, at) /\ Nothing(data, at).bad = FALSE
        BY <2>3, <3>1 DEF Nothing
      <4> QED
        BY <4>1, Zenon
    <3>2. CASE ~ (at > Len(data)) /\ Width(data[at]) = 0
      <4>1. scan[at] = BadByte /\ BadByte.beyond = FALSE
        BY <2>3, <3>2 DEF BadByte
      <4> QED
        BY <4>1, Zenon
    <3>3. CASE ~ (at > Len(data)) /\ Width(data[at]) # 0
      <4>1. data[at] \in Byte
        BY <1>1, <3>3, ElementOfSeq, SMT
      <4>2. PICK w \in 1..4 : w = Width(data[at])
        BY <3>3, <4>1, WidthType, SMT
      <4>3. at + w \in 1..m /\ at + w > i + 1
        BY <1>1, <2>2, <3>3, SMT
      <4>4. scan[at] = OneMore(w, scan[at + w])
        BY <2>3, <3>3, <4>2, Zenon
      <4>5. scan[at + w] \in Found
        BY <4>3, Zenon DEF Scans
      <4>6. /\ OneMore(w, scan[at + w]).bad = scan[at + w].bad
            /\ OneMore(w, scan[at + w]).beyond = scan[at + w].beyond
        BY <4>5, OneMoreType, SMT
      <4>7. P(at + w)
        BY <2>1, <4>3, Zenon
      <4> QED
        BY <4>4, <4>6, <4>7, Zenon
    <3> QED
      BY <3>1, <3>2, <3>3, Zenon
  <2>5. \A other \in 1..m : other > i => other = at \/ other > i + 1
    BY <1>1, <2>2, SMT
  <2>6. i \in 0..m
    BY <1>1, SMT
  <2> QED
    BY <2>1, <2>4, <2>5, <2>6, Zenon
<1> HIDE DEF S, m
<1>4. \A i \in 0..m : i \in S
  BY <1>1, <1>2, <1>3, DownTo, Zenon
<1>5. 0 \in S /\ \A at \in 1..m : at > 0
  BY <1>1, <1>4, SMT
<1> QED
  BY <1>5, Zenon DEF S, m

\* The scan of a character that can be converted.
LEMMA ScanStep ==
  ASSUME NEW data \in Seq(Byte), NEW scan, Scans(data, scan),
         NEW at \in 1..(Len(data) + 1), ~ Ends(data, at)
  PROVE  /\ scan[at].bad = scan[at + Width(data[at])].bad
         /\ scan[at].beyond = scan[at + Width(data[at])].beyond
         /\ scan[at].wide = (scan[at + Width(data[at])].wide \/ Width(data[at]) = 4)
<1>1. PICK w \in 1..4 : w = Width(data[at])
  BY GoesOn, Zenon
<1>2. Len(data) \in Nat /\ at \in 1..(Len(data) + 4)
  BY LenProperties, SMT
<1>3. at <= Len(data) /\ at + w \in 1..(Len(data) + 4)
  BY <1>1, <1>2, GoesOn, SMT
<1>4. scan[at] = OneMore(w, scan[at + w])
  <2>1. scan[at] = IF w = 0 THEN BadByte ELSE OneMore(w, scan[at + w])
    BY <1>1, <1>2, <1>3, SMT DEF Scans
  <2>2. w # 0
    BY SMT
  <2> QED
    BY <2>1, <2>2, Zenon
<1>5. scan[at + w] \in Found
  BY <1>3, Zenon DEF Scans
<1>6. /\ OneMore(w, scan[at + w]).bad = scan[at + w].bad
      /\ OneMore(w, scan[at + w]).beyond = scan[at + w].beyond
      /\ OneMore(w, scan[at + w]).wide = (scan[at + w].wide \/ w = 4)
  BY <1>5, OneMoreType, SMT
<1> QED
  BY <1>1, <1>4, <1>6, Zenon

\* Where all characters can be converted, the scan sees those of four bytes.
LEMMA AllScanned ==
  ASSUME NEW data \in Seq(Byte), NEW scan, Scans(data, scan),
         NEW m \in Nat, NEW pos, NEW good, NEW us, Laid(data, m, pos, good, us),
         \A k \in 1..m : k \in good
  PROVE  \A i \in 0..m : /\ ~ scan[pos[i + 1]].bad /\ ~ scan[pos[i + 1]].beyond
                         /\ \A k \in (i + 1)..m : Width(data[pos[k]]) = 4 => scan[pos[i + 1]].wide
<1> DEFINE Q(i) == /\ ~ scan[pos[i + 1]].bad /\ ~ scan[pos[i + 1]].beyond
                   /\ \A k \in (i + 1)..m : Width(data[pos[k]]) = 4 => scan[pos[i + 1]].wide
           S == {i \in 0..m : Q(i)}
<1>1. Len(data) \in Nat
  BY LenProperties, Zenon
<1>2. m \in S
  <2>1. pos[m + 1] = Len(data) + 1
    BY Zenon DEF Laid
  <2>2. /\ Len(data) + 1 > Len(data) /\ ~ (Len(data) + 1 > Len(data) + 1)
        /\ Len(data) + 1 \in 1..(Len(data) + 4)
    BY <1>1, SMT
  <2>3. scan[Len(data) + 1] = Nothing(data, Len(data) + 1)
    BY <2>2, Zenon DEF Scans
  <2>4. ~ scan[Len(data) + 1].bad /\ ~ scan[Len(data) + 1].beyond
    <3>1. /\ Nothing(data, Len(data) + 1).bad = FALSE
          /\ Nothing(data, Len(data) + 1).beyond = (Len(data) + 1 > Len(data) + 1)
      BY DEF Nothing
    <3> QED
      BY <2>2, <2>3, <3>1, Zenon
  <2>5. m \in 0..m /\ \A k \in (m + 1)..m : FALSE
    BY SMT
  <2> QED
    BY <2>1, <2>4, <2>5, Zenon
<1>3. ASSUME NEW i \in 0..(m - 1), i + 1 \in S PROVE i \in S
  <2> DEFINE j == i + 1
             at == pos[j]
  <2>1. j \in 1..m /\ i \in 0..m /\ j \in 1..(m + 1)
    BY SMT
  <2>2. at \in 1..(Len(data) + 1)
    BY <2>1, Zenon DEF Laid
  <2>3. ~ Ends(data, at) /\ pos[j + 1] = at + Width(data[at])
    BY <2>1, Zenon DEF Laid
  <2>4. /\ scan[at].bad = scan[pos[j + 1]].bad /\ scan[at].beyond = scan[pos[j + 1]].beyond
        /\ scan[at].wide = (scan[pos[j + 1]].wide \/ Width(data[at]) = 4)
    <3>1. /\ scan[at].bad = scan[at + Width(data[at])].bad
          /\ scan[at].beyond = scan[at + Width(data[at])].beyond
          /\ scan[at].wide = (scan[at + Width(data[at])].wide \/ Width(data[at]) = 4)
      BY <2>2, <2>3, ScanStep, Zenon
    <3> QED
      BY <2>3, <3>1, Zenon
  <2>5. \A k \in j..m : k = j \/ k \in (j + 1)..m
    BY SMT
  <2>6. Q(j)
    BY <1>3, Zenon
  <2> QED
    BY <2>1, <2>4, <2>5, <2>6, Zenon
<1> HIDE DEF S
<1>4. \A i \in 0..m : i \in S
  BY <1>2, <1>3, DownTo, Zenon
<1> QED
  BY <1>4, Zenon DEF S

\* The bytes of a character where they lie in the data.
LiesAt(data, base, bytes) ==
  /\ base \in Nat /\ base + Len(bytes) <= Len(data)
  /\ \A k \in 1..Len(bytes) : data[base + k] = bytes[k]

LEMMA SamePoint ==
  ASSUME NEW data, NEW base, NEW bytes, LiesAt(data, base, bytes), NEW w \in 1..4, w = Len(bytes)
  PROVE  CodePoint(data, base + 1, w) = CodePoint(bytes, 1, w)
<1>1. base \in Nat /\ \A k \in 1..w : data[base + k] = bytes[k]
  BY Zenon DEF LiesAt
<1>2. CASE w = 1
  <2>1. data[base + 1] = bytes[1]
    BY <1>1, <1>2, SMT
  <2>2. CodePoint(data, base + 1, 1) = data[base + 1] /\ CodePoint(bytes, 1, 1) = bytes[1]
    BY DEF CodePoint
  <2> QED
    BY <1>2, <2>1, <2>2, Zenon
<1>3. CASE w = 2
  <2>1. data[base + 1] = bytes[1] /\ data[base + 1 + 1] = bytes[1 + 1]
    BY <1>1, <1>3, SMT
  <2>2. /\ CodePoint(data, base + 1, 2) = 64 * (data[base + 1] % 32) + (data[base + 1 + 1] % 64)
        /\ CodePoint(bytes, 1, 2) = 64 * (bytes[1] % 32) + (bytes[1 + 1] % 64)
    BY DEF CodePoint
  <2> QED
    BY <1>3, <2>1, <2>2, Zenon
<1>4. CASE w = 3
  <2>1. data[base + 1] = bytes[1] /\ data[base + 1 + 1] = bytes[1 + 1] /\ data[base + 1 + 2] = bytes[1 + 2]
    BY <1>1, <1>4, SMT
  <2>2. /\ CodePoint(data, base + 1, 3) =
             4096 * (data[base + 1] % 16) + 64 * (data[base + 1 + 1] % 64) + (data[base + 1 + 2] % 64)
        /\ CodePoint(bytes, 1, 3) = 4096 * (bytes[1] % 16) + 64 * (bytes[1 + 1] % 64) + (bytes[1 + 2] % 64)
    BY SMT DEF CodePoint
  <2> QED
    BY ONLY <1>4, <2>1, <2>2, SMT
<1>5. CASE w = 4
  <2>1. /\ data[base + 1] = bytes[1] /\ data[base + 1 + 1] = bytes[1 + 1]
        /\ data[base + 1 + 2] = bytes[1 + 2] /\ data[base + 1 + 3] = bytes[1 + 3]
    BY <1>1, <1>5, SMT
  <2>2. /\ CodePoint(data, base + 1, 4) =
             262144 * (data[base + 1] % 8) + 4096 * (data[base + 1 + 1] % 64)
             + 64 * (data[base + 1 + 2] % 64) + (data[base + 1 + 3] % 64)
        /\ CodePoint(bytes, 1, 4) =
             262144 * (bytes[1] % 8) + 4096 * (bytes[1 + 1] % 64) + 64 * (bytes[1 + 2] % 64) + (bytes[1 + 3] % 64)
    BY SMT DEF CodePoint
  <2> QED
    BY ONLY <1>5, <2>1, <2>2, SMT
<1> QED
  BY <1>2, <1>3, <1>4, <1>5, SMT

\* A character can be converted, to its UTF-16.
LEMMA GoodChar ==
  ASSUME NEW data \in Seq(Byte), NEW bytes \in Seq(Byte), NEW p \in Nat, ReadAs(bytes, p),
         NEW base, LiesAt(data, base, bytes)
  PROVE  /\ Width(data[base + 1]) = Len(bytes) /\ ~ Ends(data, base + 1)
         /\ UnitsAt(data, base + 1) = Utf16(p)
         /\ Width(data[base + 1]) = 4 <=> ~ (p < FirstWide)
<1> DEFINE at == base + 1
<1>1. PICK w \in 1..4 : /\ w = Len(bytes) /\ Width(bytes[1]) = w /\ (w = 4 <=> ~ (p < FirstWide))
                        /\ \A k \in 2..w : bytes[k] \div 64 = 2
                        /\ CodePoint(bytes, 1, w) = p /\ p <= LastPoint
  BY Utf8Decodes, Zenon
<1>2. base \in Nat /\ base + w <= Len(data) /\ \A k \in 1..w : data[base + k] = bytes[k]
  BY <1>1, Zenon DEF LiesAt
<1>3. Len(data) \in Nat /\ at <= Len(data) /\ data[at] = bytes[1]
  BY <1>2, LenProperties, SMT
<1>4. Width(data[at]) = w
  BY <1>1, <1>3, Zenon
<1>5. Complete(data, at, w)
  <2>1. w > 0 /\ at + w - 1 <= Len(data)
    BY <1>2, <1>3, SMT
  <2>2. ASSUME NEW i \in (at + 1)..(at + w - 1) PROVE data[i] \div 64 = 2
    <3>1. PICK k \in 2..w : i = base + k /\ k \in 1..w
      BY <1>2, SMT
    <3>2. data[i] = bytes[k] /\ bytes[k] \div 64 = 2
      BY <1>1, <1>2, <3>1, Zenon
    <3> QED
      BY <3>2, Zenon
  <2> QED
    BY <2>1, <2>2, Zenon DEF Complete
<1>6. CodePoint(data, at, w) = p
  BY <1>1, SamePoint, Zenon
<1>7. UnitsAt(data, at) = Utf16(p)
  BY <1>1, <1>4, <1>6, Utf16Is, Zenon DEF UnitsAt
<1>8. UnitsAt(data, at) # <<>>
  <2>1. Len(UnitsOf(p)) # 0
    <3>1. /\ p < FirstWide => Len(UnitsOf(p)) = 1
          /\ ~ (p < FirstWide) /\ p <= LastPoint => Len(UnitsOf(p)) = 2
      BY UnitsType, Zenon
    <3>2. 1 # 0 /\ 2 # 0
      OBVIOUS
    <3> QED
      BY <1>1, <3>1, <3>2, Zenon
  <2>2. UnitsAt(data, at) = UnitsOf(p)
    BY <1>4, <1>6, Zenon DEF UnitsAt
  <2> QED
    BY <2>1, <2>2, EmptySeq, Zenon
<1>9. ~ (at > Len(data))
  BY <1>2, <1>3, SMT
<1>10. ~ Ends(data, at)
  BY <1>4, <1>5, <1>8, <1>9, Zenon DEF Ends
<1> QED
  BY <1>1, <1>4, <1>7, <1>10, Zenon

\* Where bytes lie that are no character, no character is.
LEMMA StrayChar ==
  ASSUME NEW data \in Seq(Byte), NEW bytes \in Seq(Byte), bytes # <<>>,
         NEW base, LiesAt(data, base, bytes),
         Malformed(bytes) \/ (Len(bytes) < Width(bytes[1]) /\ base + Len(bytes) = Len(data))
  PROVE  Stray(data, base + 1)
<1> DEFINE at == base + 1
<1>1. PICK l \in Nat : l = Len(bytes) /\ l > 0
  BY EmptySeq, LenProperties, SMT
<1>2. base \in Nat /\ base + l <= Len(data) /\ \A k \in 1..l : data[base + k] = bytes[k]
  BY <1>1, Zenon DEF LiesAt
<1>3. Len(data) \in Nat /\ at \in 1..Len(data) /\ at <= Len(data) /\ data[at] = bytes[1]
  BY <1>1, <1>2, LenProperties, SMT
<1>4. PICK w \in 0..4 : w = Width(bytes[1]) /\ w = Width(data[at])
  <2>1. bytes[1] \in Byte
    BY <1>1, ElementOfSeq, SMT
  <2> QED
    BY <1>3, <2>1, WidthType, Zenon
<1>5. ASSUME ~ Complete(data, at, w) PROVE Stray(data, at)
  BY <1>3, <1>4, <1>5, Zenon DEF Stray, Ends
<1>6. CASE w = 0
  <2>1. ~ Complete(data, at, w)
    BY <1>6, SMT DEF Complete
  <2> QED
    BY <1>5, <2>1, Zenon
<1>7. CASE \E i \in 2..w : i <= l /\ bytes[i] \div 64 # 2
  <2>1. PICK i \in 2..w : i <= l /\ bytes[i] \div 64 # 2
    BY <1>7, Zenon
  <2>2. i \in 1..l /\ base + i \in (at + 1)..(at + w - 1)
    BY <1>1, <1>2, <1>4, <2>1, SMT
  <2>3. data[base + i] \div 64 # 2
    BY <1>2, <2>1, <2>2, Zenon
  <2>4. ~ Complete(data, at, w)
    BY <2>2, <2>3, Zenon DEF Complete
  <2> QED
    BY <1>5, <2>4, Zenon
<1>8. CASE w = 4 /\ l = 4 /\ (CodePoint(bytes, 1, 4) < FirstWide \/ CodePoint(bytes, 1, 4) > LastPoint)
  <2>1. CASE ~ Complete(data, at, w)
    BY <1>5, <2>1, Zenon
  <2>2. CASE Complete(data, at, w)
    <3>1. 4 \in 1..4
      BY SMT
    <3>2. PICK point \in Nat : point = CodePoint(data, at, 4)
      BY <1>3, <1>8, <2>2, <3>1, CodePointType, Zenon
    <3>3. point = CodePoint(bytes, 1, 4)
      BY <1>1, <1>8, <3>1, <3>2, SamePoint, ZenonT(60)
    <3>4. UnitsAt(data, at) = UnitsOf(point)
      BY <1>4, <1>8, <3>2, Zenon DEF UnitsAt
    <3>5. Len(UnitsOf(point)) = 1 \/ UnitsOf(point) = <<>>
      BY <1>8, <3>3, UnitsType, Zenon
    <3> QED
      BY <1>3, <1>4, <1>8, <3>4, <3>5, Zenon DEF Stray, Ends
  <2> QED
    BY <2>1, <2>2, Zenon
<1>9. CASE l < w /\ base + l = Len(data)
  <2>1. ~ (at + w - 1 <= Len(data))
    BY <1>2, <1>3, <1>4, <1>9, SMT
  <2>2. ~ Complete(data, at, w)
    BY <2>1, Zenon DEF Complete
  <2> QED
    BY <1>5, <2>2, Zenon
<1>10. ASSUME Malformed(bytes)
       PROVE  \/ w = 0
              \/ \E i \in 2..w : i <= l /\ bytes[i] \div 64 # 2
              \/ w = 4 /\ l = 4 /\ (CodePoint(bytes, 1, 4) < FirstWide \/ CodePoint(bytes, 1, 4) > LastPoint)
  <2>1. \/ Width(bytes[1]) = 0
        \/ \E i \in 2..Width(bytes[1]) : i <= Len(bytes) /\ bytes[i] \div 64 # 2
        \/ /\ Width(bytes[1]) = 4 /\ Len(bytes) = 4
           /\ CodePoint(bytes, 1, 4) < FirstWide \/ CodePoint(bytes, 1, 4) > LastPoint
    BY ONLY <1>10, SMT DEF Malformed, FirstWide, LastPoint
  <2> QED
    BY <1>1, <1>4, <2>1, Zenon
<1> QED
  BY <1>1, <1>4, <1>6, <1>7, <1>8, <1>9, <1>10, Zenon

\* A text: characters, at the end of which there may be the beginning of one.
LEMMA TextShape ==
  ASSUME NEW text \in Texts
  PROVE  /\ text \in Seq(Char \cup Truncated)
         /\ \A i \in 1..Len(text) : text[i] \in Char \/ (i = Len(text) /\ text[i] \in Truncated)
<1>1. MaxChars \in Nat
  BY JniUtilsAssumption, Zenon DEF JniUtilsAssumption
<1>2. ASSUME NEW k \in Nat, NEW t \in [1..k -> Char]
      PROVE  t \in Seq(Char) /\ Len(t) = k
  OBVIOUS
<1>3. ASSUME NEW t \in Seq(Char) PROVE t \in Seq(Char \cup Truncated)
  <2>1. Len(t) \in Nat /\ t \in [1..Len(t) -> Char]
    BY <1>3, LenProperties, Zenon
  <2>2. t \in [1..Len(t) -> Char \cup Truncated]
    BY <2>1, Zenon
  <2> QED
    BY <2>1, <2>2
<1>4. CASE text \in SeqOf(Char, MaxChars)
  <2>1. PICK k \in 0..MaxChars : text \in [1..k -> Char]
    BY <1>4, Zenon DEF SeqOf
  <2>2. k \in Nat
    BY <1>1, <2>1, SMT
  <2>3. text \in Seq(Char) /\ Len(text) = k
    BY <1>2, <2>1, <2>2, Zenon
  <2> QED
    BY <1>3, <2>1, <2>3, Zenon
<1>5. CASE \E t \in SeqOf(Char, MaxChars - 1), c \in Truncated : text = Append(t, c)
  <2>1. PICK t \in SeqOf(Char, MaxChars - 1), c \in Truncated : text = Append(t, c)
    BY <1>5, Zenon
  <2>2. PICK k \in 0..(MaxChars - 1) : t \in [1..k -> Char]
    BY <2>1, Zenon DEF SeqOf
  <2>3. k \in Nat
    BY <1>1, <2>2, SMT
  <2>4. t \in Seq(Char) /\ Len(t) = k
    BY <1>2, <2>2, <2>3, Zenon
  <2>5. t \in Seq(Char \cup Truncated) /\ c \in Char \cup Truncated
    BY <1>3, <2>1, <2>4, Zenon
  <2>6. /\ text \in Seq(Char \cup Truncated) /\ Len(text) = k + 1
        /\ \A i \in 1..k : text[i] = t[i]
        /\ text[k + 1] = c
    <3>1. /\ Append(t, c) \in Seq(Char \cup Truncated) /\ Len(Append(t, c)) = Len(t) + 1
          /\ \A i \in 1..Len(t) : Append(t, c)[i] = t[i]
          /\ Append(t, c)[Len(t) + 1] = c
      BY <2>5, AppendProperties
    <3> QED
      BY <2>1, <2>4, <3>1, Zenon
  <2>7. \A i \in 1..(k + 1) : i \in 1..k \/ i = k + 1
    BY <2>3, SMT
  <2> QED
    BY <2>1, <2>2, <2>6, <2>7, Zenon
<1>6. \/ text \in SeqOf(Char, MaxChars)
      \/ \E t \in SeqOf(Char, MaxChars - 1), c \in Truncated : text = Append(t, c)
  BY SMT DEF Texts
<1> QED
  BY <1>4, <1>5, <1>6, Zenon

LEMMA CharKinds ==
  ASSUME NEW c \in Char \cup Truncated
  PROVE  /\ c.bytes \in Seq(Byte) /\ c.bytes # <<>>
         /\ c.point = NULL \/ (c.point # NULL /\ c.point \in Nat /\ ReadAs(c.bytes, c.point))
         /\ c.point = NULL => Malformed(c.bytes) \/ Len(c.bytes) < Width(c.bytes[1])
         /\ c.point = NULL /\ c \in Char => Malformed(c.bytes)
         /\ c \in Truncated => c.point = NULL /\ Len(c.bytes) < Width(c.bytes[1])
<1>1. NULL \notin Nat
  BY JniUtilsAssumption, Zenon DEF JniUtilsAssumption
<1>2. c.bytes \in Seq(Byte) /\ c.bytes # <<>>
  BY JniUtilsAssumption, Zenon DEF JniUtilsAssumption, Byte
<1>3. CASE c \in Char
  <2>1. \/ c.point \in Nat /\ ReadAs(c.bytes, c.point)
        \/ c.point = NULL /\ Malformed(c.bytes)
    BY <1>3, JniUtilsAssumption, Zenon DEF JniUtilsAssumption
  <2>2. c \in Truncated => c.point = NULL /\ Len(c.bytes) < Width(c.bytes[1])
    BY JniUtilsAssumption, Zenon DEF JniUtilsAssumption
  <2> QED
    BY <1>1, <1>2, <1>3, <2>1, <2>2, Zenon
<1>4. CASE c \in Truncated
  <2>1. c.point = NULL /\ Len(c.bytes) < Width(c.bytes[1])
    BY <1>4, JniUtilsAssumption, Zenon DEF JniUtilsAssumption
  <2>2. c \in Char => \/ c.point \in Nat /\ ReadAs(c.bytes, c.point)
                      \/ c.point = NULL /\ Malformed(c.bytes)
    BY JniUtilsAssumption, Zenon DEF JniUtilsAssumption
  <2> QED
    BY <1>1, <1>2, <2>1, <2>2, Zenon
<1> QED
  BY <1>3, <1>4, Zenon

Good(text) == {i \in 1..Len(text) : text[i].point # NULL}

\* Where the characters of a text lie, and the units they are worth.
LEMMA TextLaid ==
  ASSUME NEW text \in Texts
  PROVE  \E pos, us, U :
           /\ Data(text) \in Seq(Byte) /\ us \in Seq(Seq(Nat)) /\ Len(us) = Len(text)
           /\ Joins(Nat, us, U) /\ Laid(Data(text), Len(text), pos, Good(text), us) /\ pos[1] = 1
           /\ \A i \in Good(text) : Width(Data(text)[pos[i]]) = 4 <=> ~ (text[i].point < FirstWide)
           /\ Good(text) = 1..Len(text) =>
                FlattenSeq([i \in DOMAIN text |-> Utf16(text[i].point)]) = U[Len(text)]
<1> DEFINE m == Len(text)
           all == [i \in 1..m |-> text[i].bytes]
           us == [i \in 1..m |-> IF i \in Good(text) THEN Utf16(text[i].point) ELSE <<>>]
<1>1. /\ text \in Seq(Char \cup Truncated)
      /\ \A i \in 1..m : text[i] \in Char \/ (i = m /\ text[i] \in Truncated)
  BY TextShape, Zenon
<1>2. m \in Nat /\ DOMAIN text = 1..m
  BY <1>1, LenProperties, Zenon
<1> HIDE DEF m
<1>3. ASSUME NEW i \in 1..m PROVE text[i] \in Char \cup Truncated
  BY <1>1, <1>3, Zenon
<1>4. all \in Seq(Seq(Byte)) /\ Len(all) = m /\ \A i \in 1..m : all[i] = text[i].bytes
  <2>1. \A i \in 1..m : text[i].bytes \in Seq(Byte)
    BY <1>3, CharKinds, Zenon
  <2>2. all \in [1..m -> Seq(Byte)]
    BY <2>1, Zenon
  <2> QED
    BY <1>2, <2>2
<1>5. ASSUME NEW i \in Good(text)
      PROVE  /\ i \in 1..m /\ text[i].point \in Nat /\ ReadAs(text[i].bytes, text[i].point)
             /\ Utf16(text[i].point) \in Seq(Nat)
  <2>1. i \in 1..m /\ text[i].point # NULL
    BY Zenon DEF Good, m
  <2>2. text[i].point \in Nat /\ ReadAs(text[i].bytes, text[i].point)
    BY <1>3, <2>1, CharKinds, Zenon
  <2>3. text[i].point <= LastPoint
    BY <2>2, Utf8Decodes, Zenon
  <2>4. Utf16(text[i].point) \in Seq(Nat)
    BY <2>2, <2>3, Utf16Is, UnitsType, Zenon
  <2> QED
    BY <2>1, <2>2, <2>4, Zenon
<1>6. us \in Seq(Seq(Nat)) /\ Len(us) = m /\ \A i \in Good(text) : us[i] = Utf16(text[i].point)
  <2>1. <<>> \in Seq(Nat)
    BY EmptySeq, Zenon
  <2>2. us \in [1..m -> Seq(Nat)]
    BY <1>5, <2>1, Zenon
  <2>3. us \in Seq(Seq(Nat)) /\ Len(us) = m
    BY <1>2, <2>2
  <2> QED
    BY <1>5, <2>3, Zenon
<1>7. Data(text) = FlattenSeq(all)
  BY <1>2, Zenon DEF Data
<1> HIDE DEF all
<1>8. PICK J : Joins(Byte, all, J) /\ FlattenSeq(all) = J[m]
  BY <1>4, FlattenJoins, Zenon
<1>9. PICK U : Joins(Nat, us, U) /\ FlattenSeq(us) = U[m]
  <2> HIDE DEF us
  <2> QED
    BY <1>6, FlattenJoins, Zenon
<1>10. Good(text) = 1..m => FlattenSeq([i \in DOMAIN text |-> Utf16(text[i].point)]) = U[m]
  <2>1. ASSUME Good(text) = 1..m PROVE us = [i \in 1..m |-> Utf16(text[i].point)]
    BY <2>1, Zenon
  <2> QED
    BY <1>2, <1>9, <2>1, Zenon
<1> HIDE DEF us
<1> DEFINE data == Data(text)
           pos == [j \in 1..(m + 1) |-> Len(J[j - 1]) + 1]
<1>11. data = J[m] /\ data \in Seq(Byte) /\ Len(data) \in Nat /\ Len(data) = Len(J[m])
  <2>1. m \in 0..m
    BY <1>2, SMT
  <2>2. J[m] \in Seq(Byte)
    BY <1>4, <1>8, <2>1, Zenon DEF Joins
  <2> QED
    BY <1>7, <1>8, <2>2, LenProperties, Zenon
<1>12. pos[1] = 1
  <2>1. J[0] = <<>> /\ Len(J[0]) = 0
    BY <1>8, EmptySeq, Zenon DEF Joins
  <2>2. 1 \in 1..(m + 1) /\ 1 - 1 = 0
    BY <1>2, SMT
  <2>3. pos[1] = Len(J[0]) + 1
    BY <2>2, Zenon
  <2> QED
    BY <2>1, <2>3, SMT
<1>13. pos[m + 1] = Len(data) + 1
  <2>1. m + 1 \in 1..(m + 1) /\ (m + 1) - 1 = m
    BY <1>2, SMT
  <2> QED
    BY <1>11, <2>1, Zenon
<1>14. ASSUME NEW i \in 1..m
       PROVE  /\ LiesAt(data, Len(J[i - 1]), text[i].bytes)
              /\ pos[i] = Len(J[i - 1]) + 1
              /\ pos[i + 1] = Len(J[i - 1]) + Len(text[i].bytes) + 1
              /\ pos[i] \in Nat /\ pos[i] >= 1 /\ pos[i] <= Len(data) + 1
              /\ i = m => Len(J[i - 1]) + Len(text[i].bytes) = Len(data)
  <2>1. /\ J[i - 1] \in Seq(Byte) /\ J[i] \in Seq(Byte)
        /\ Len(J[i]) = Len(J[i - 1]) + Len(all[i])
        /\ Len(J[i]) <= Len(J[m])
        /\ \A k \in 1..Len(all[i]) : J[m][Len(J[i - 1]) + k] = all[i][k]
    <3>1. i \in 1..Len(all)
      BY <1>4, Zenon
    <3>2. /\ J[i - 1] \in Seq(Byte) /\ J[i] \in Seq(Byte)
          /\ Len(J[i]) = Len(J[i - 1]) + Len(all[i])
          /\ Len(J[i]) <= Len(J[Len(all)])
          /\ \A k \in 1..Len(all[i]) : J[Len(all)][Len(J[i - 1]) + k] = all[i][k]
      <4>1. all \in Seq(Seq(Byte)) /\ Joins(Byte, all, J)
        BY <1>4, <1>8, Zenon
      <4>2. Placed(Byte, all, J, i)
        BY <3>1, <4>1, Pieces, Zenon
      <4> QED
        BY <4>2, Zenon DEF Placed
    <3> QED
      BY <1>4, <3>2, Zenon
  <2>2. PICK x \in Nat, y \in Nat : x = Len(J[i - 1]) /\ y = Len(text[i].bytes)
    <3>1. all[i] \in Seq(Byte)
      BY <1>4, ElementOfSeq, Zenon
    <3> QED
      BY <1>4, <2>1, <3>1, LenProperties, Zenon
  <2>3. /\ Len(J[i]) = x + y /\ x + y <= Len(data)
        /\ \A k \in 1..y : data[x + k] = text[i].bytes[k]
    BY <1>4, <1>11, <2>1, <2>2, Zenon
  <2>4. LiesAt(data, x, text[i].bytes)
    BY <2>2, <2>3, Zenon DEF LiesAt
  <2>5. i \in 1..(m + 1) /\ i + 1 \in 1..(m + 1) /\ (i + 1) - 1 = i
    BY <1>2, SMT
  <2>6. pos[i] = x + 1 /\ pos[i + 1] = x + y + 1
    BY <2>2, <2>3, <2>5, Zenon
  <2>7. x + 1 \in Nat /\ x + 1 >= 1 /\ x + 1 <= Len(data) + 1
    BY <1>11, <2>3, SMT
  <2> QED
    BY <1>11, <2>2, <2>3, <2>4, <2>6, <2>7, Zenon
<1>15. pos \in [1..(m + 1) -> 1..(Len(data) + 1)]
  <2>1. ASSUME NEW j \in 1..(m + 1) PROVE pos[j] \in 1..(Len(data) + 1)
    <3>1. CASE j = m + 1
      <4>1. Len(data) + 1 \in 1..(Len(data) + 1)
        BY <1>11, SMT
      <4> QED
        BY <1>13, <3>1, <4>1, Zenon
    <3>2. CASE j # m + 1
      <4>1. j \in 1..m
        BY <1>2, <3>2, SMT
      <4>2. PICK x \in Nat : x = pos[j] /\ x >= 1 /\ x <= Len(data) + 1
        BY <1>14, <4>1, Zenon
      <4>3. x \in 1..(Len(data) + 1)
        BY <1>11, <4>2, SMT
      <4> QED
        BY <4>2, <4>3, Zenon
    <3> QED
      BY <3>1, <3>2, Zenon
  <2> QED
    BY <2>1, Zenon
<1> HIDE DEF pos
<1>16. ASSUME NEW i \in Good(text)
       PROVE  /\ ~ Ends(data, pos[i]) /\ pos[i + 1] = pos[i] + Width(data[pos[i]])
              /\ UnitsAt(data, pos[i]) = us[i]
              /\ Width(data[pos[i]]) = 4 <=> ~ (text[i].point < FirstWide)
  <2>1. text[i].bytes \in Seq(Byte)
    BY <1>3, <1>5, CharKinds, Zenon
  <2>2. PICK base : /\ base = Len(J[i - 1]) /\ pos[i] = base + 1 /\ LiesAt(data, base, text[i].bytes)
                    /\ pos[i + 1] = base + Len(text[i].bytes) + 1
    BY <1>5, <1>14, Zenon
  <2>3. /\ Width(data[base + 1]) = Len(text[i].bytes) /\ ~ Ends(data, base + 1)
        /\ UnitsAt(data, base + 1) = Utf16(text[i].point)
        /\ Width(data[base + 1]) = 4 <=> ~ (text[i].point < FirstWide)
    <3>1. PICK p \in Nat, bytes \in Seq(Byte) : p = text[i].point /\ bytes = text[i].bytes
      BY <1>5, <2>1, Zenon
    <3>2. ReadAs(bytes, p) /\ LiesAt(data, base, bytes)
      BY <1>5, <2>2, <3>1, Zenon
    <3>3. /\ Width(data[base + 1]) = Len(bytes) /\ ~ Ends(data, base + 1)
          /\ UnitsAt(data, base + 1) = Utf16(p)
          /\ Width(data[base + 1]) = 4 <=> ~ (p < FirstWide)
      BY <1>11, <3>2, GoodChar, Zenon
    <3> QED
      BY <3>1, <3>3, Zenon
  <2>4. Len(text[i].bytes) \in Nat /\ base \in Nat
    <3>1. base \in Nat
      BY <2>2, Zenon DEF LiesAt
    <3> QED
      BY <2>1, <3>1, LenProperties, Zenon
  <2>5. base + Len(text[i].bytes) + 1 = (base + 1) + Len(text[i].bytes)
    <3>1. \A l \in Nat : base + l + 1 = (base + 1) + l
      BY <2>4, SMT
    <3> QED
      BY <2>4, <3>1, Zenon
  <2> QED
    BY <1>6, <2>2, <2>3, <2>5, Zenon
<1>17. ASSUME NEW i \in 1..m, i \notin Good(text) PROVE Stray(data, pos[i])
  <2>1. text[i].point = NULL
    BY <1>17, Zenon DEF Good, m
  <2>2. text[i].bytes \in Seq(Byte) /\ text[i].bytes # <<>>
    BY <1>3, CharKinds, Zenon
  <2>3. /\ pos[i] = Len(J[i - 1]) + 1 /\ LiesAt(data, Len(J[i - 1]), text[i].bytes)
        /\ i = m => Len(J[i - 1]) + Len(text[i].bytes) = Len(data)
    BY <1>14, Zenon
  <2>4. Malformed(text[i].bytes) \/ (Len(text[i].bytes) < Width(text[i].bytes[1]) /\ i = m)
    BY <1>1, <1>3, <2>1, CharKinds, Zenon
  <2> QED
    BY <1>11, <2>2, <2>3, <2>4, StrayChar, Zenon
<1>18. Laid(data, m, pos, Good(text), us)
  BY <1>13, <1>15, <1>16, <1>17, Zenon DEF Laid
<1>19. /\ Data(text) \in Seq(Byte) /\ us \in Seq(Seq(Nat)) /\ Len(us) = Len(text)
       /\ Joins(Nat, us, U) /\ Laid(Data(text), Len(text), pos, Good(text), us) /\ pos[1] = 1
       /\ \A i \in Good(text) : Width(Data(text)[pos[i]]) = 4 <=> ~ (text[i].point < FirstWide)
       /\ Good(text) = 1..Len(text) =>
            FlattenSeq([i \in DOMAIN text |-> Utf16(text[i].point)]) = U[Len(text)]
  BY <1>6, <1>9, <1>10, <1>11, <1>12, <1>16, <1>18, Zenon DEF m
<1> QED
  BY <1>19, Zenon

\* What validateUtf8 asks for and utf16FromUtf8 writes.
Exact(text, n, units) ==
  /\ n \in Nat /\ Len(units) <= n /\ (n = 0 => units = <<>>)
  /\ n > 0 /\ Len(units) = n =>
       /\ Readable(text)
       /\ units = FlattenSeq([i \in DOMAIN text |-> Utf16(text[i].point)])
  /\ n = 0 /\ Readable(text) => \A i \in DOMAIN text : text[i].point < FirstWide

LEMMA TextExact ==
  ASSUME NEW text \in Texts, NEW n \in validateUtf8(Data(text))
  PROVE  Exact(text, n, utf16FromUtf8(Data(text), n))
<1> DEFINE data == Data(text)
           m == Len(text)
<1>1. PICK pos, us, U :
        /\ data \in Seq(Byte) /\ us \in Seq(Seq(Nat)) /\ Len(us) = m
        /\ Joins(Nat, us, U) /\ Laid(data, m, pos, Good(text), us) /\ pos[1] = 1
        /\ \A i \in Good(text) : Width(data[pos[i]]) = 4 <=> ~ (text[i].point < FirstWide)
        /\ Good(text) = 1..m => FlattenSeq([i \in DOMAIN text |-> Utf16(text[i].point)]) = U[m]
  BY TextLaid, Zenon
<1>2. m \in Nat /\ DOMAIN text = 1..m
  BY TextShape, LenProperties, Zenon
<1>3. Readable(text) <=> Good(text) = 1..m
  BY <1>2, Zenon DEF Readable, Good
<1> HIDE DEF data, m
<1>4. PICK scan : Scans(data, scan) /\ validateUtf8(data) = Need(data, scan[1])
  BY <1>1, ScanExists, Zenon
<1>5. Len(data) \in Nat /\ 1 \in 1..(Len(data) + 1) /\ 1 \in 1..(Len(data) + 4)
  BY <1>1, LenProperties, SMT
<1>6. n \in Need(data, scan[1])
  BY <1>4, Zenon DEF data
<1>7. PICK units \in Nat, wide \in BOOLEAN, bad \in BOOLEAN, beyond \in BOOLEAN :
        /\ units = scan[1].units /\ wide = scan[1].wide /\ bad = scan[1].bad /\ beyond = scan[1].beyond
        /\ ~ (bad /\ beyond)
  <2>1. scan[1] \in Found /\ ~ (scan[1].bad /\ scan[1].beyond)
    BY <1>1, <1>4, <1>5, BadIsWithin, Zenon DEF Scans
  <2> QED
    BY <2>1, Zenon DEF Found
<1>8. n \in Nat /\ (n > 0 => ~ bad /\ n >= units) /\ (~ bad /\ ~ beyond /\ wide => n = units)
  <2>1. MaxBeyond \in Nat
    BY JniUtilsAssumption, Zenon DEF JniUtilsAssumption
  <2>2. CASE beyond
    <3>1. n \in {0} \cup {units + k : k \in 0..MaxBeyond}
      BY <1>6, <1>7, <2>2, SMT DEF Need
    <3> QED
      BY <1>7, <2>1, <2>2, <3>1, SMT
  <2>3. CASE ~ beyond /\ (bad \/ ~ wide)
    <3>1. n = 0
      BY <1>6, <1>7, <2>3, SMT DEF Need
    <3> QED
      BY <2>3, <3>1, SMT
  <2>4. CASE ~ beyond /\ ~ (bad \/ ~ wide)
    <3>1. n = units
      BY <1>6, <1>7, <2>4, SMT DEF Need
    <3> QED
      BY <2>4, <3>1, SMT
  <2> QED
    BY <2>2, <2>3, <2>4, Zenon
<1>9. PICK from : Converts(data, n, from) /\ utf16FromUtf8(data, n) = from[1][n]
  BY <1>1, <1>8, ConvertExists, Zenon
<1>10. n \in -1..n
  BY <1>8, SMT
<1>11. from[1][n] \in Seq(Nat) /\ Len(from[1][n]) \in Nat
  BY <1>1, <1>4, <1>5, <1>8, <1>9, <1>10, BothStep, Zenon
<1>12. n = 0 => from[1][n] = <<>> /\ Len(from[1][n]) = 0
  <2>1. ASSUME n = 0 PROVE n <= 0
    BY <2>1, SMT
  <2> QED
    BY <1>1, <1>5, <1>8, <1>9, <1>10, <2>1, Stops, Zenon
<1>13. ~ bad => Len(from[1][n]) <= units
  BY <1>1, <1>4, <1>5, <1>7, <1>8, <1>9, <1>10, CountBounds, Zenon
<1>14. Len(from[1][n]) <= n
  BY <1>8, <1>11, <1>12, <1>13, SMT
<1>15. 0 \in 0..m /\ 0 + 1 = 1
  BY <1>2, SMT
<1>16. ASSUME n > 0, Len(from[1][n]) = n
       PROVE  Readable(text) /\ from[1][n] = FlattenSeq([i \in DOMAIN text |-> Utf16(text[i].point)])
  <2>1. ~ bad /\ Len(from[1][n]) = units
    BY <1>7, <1>8, <1>13, <1>16, SMT
  <2>2. Converted(n, scan, from, m, pos, Good(text), U)
    BY <1>1, <1>2, <1>4, <1>8, <1>9, AllConverted, Zenon
  <2>3. (\A k \in 1..m : k \in Good(text)) /\ U[0] \o from[1][n] = U[m]
    BY <1>1, <1>7, <1>10, <1>15, <2>1, <2>2, Zenon DEF Converted
  <2>4. Good(text) = 1..m
    BY <2>3, Zenon DEF Good, m
  <2>5. U[0] = <<>>
    BY <1>1, Zenon DEF Joins
  <2>6. <<>> \o from[1][n] = from[1][n]
    BY <1>11, ConcatEmptySeq, Zenon
  <2> QED
    BY <1>1, <1>3, <2>3, <2>4, <2>5, <2>6, Zenon
<1>17. ASSUME n = 0, Readable(text), NEW i \in DOMAIN text, ~ (text[i].point < FirstWide) PROVE FALSE
  <2>1. \A k \in 1..m : k \in Good(text)
    BY <1>3, <1>17, Zenon
  <2>2. i \in 1..m /\ Width(data[pos[i]]) = 4
    BY <1>1, <1>2, <1>17, <2>1, Zenon
  <2>3. \A j \in 0..m : /\ ~ scan[pos[j + 1]].bad /\ ~ scan[pos[j + 1]].beyond
                        /\ \A k \in (j + 1)..m : Width(data[pos[k]]) = 4 => scan[pos[j + 1]].wide
    BY <1>1, <1>2, <1>4, <2>1, AllScanned
  <2>4. ~ bad /\ ~ beyond /\ wide
    BY <1>1, <1>7, <1>15, <2>2, <2>3, Zenon
  <2>5. units = 0
    BY <1>8, <1>17, <2>4, Zenon
  <2>6. pos[i] \in 1..(Len(data) + 1) /\ ~ Ends(data, pos[i])
    <3>1. i \in 1..(m + 1)
      BY <1>2, <2>2, SMT
    <3> QED
      BY <1>1, <2>1, <2>2, <3>1, Zenon DEF Laid
  <2>7. 1 <= Len(data)
    <3>1. PICK x \in 1..Len(data) : x = pos[i]
      BY <1>1, <2>6, GoesOn, Zenon
    <3> QED
      BY <1>5, SMT
  <2>8. units > 0
    <3>1. 1 <= Len(data) /\ ~ scan[1].bad => scan[1].units > 0
      BY <1>1, <1>4, <1>5, <1>8, <1>9, <1>10, BothStep, Zenon
    <3> QED
      BY <1>7, <2>4, <2>7, <3>1, Zenon
  <2> QED
    BY <2>5, <2>8, SMT
<1> QED
  BY <1>8, <1>9, <1>12, <1>14, <1>16, <1>17, Zenon DEF Exact, data

StringExact(s) ==
  /\ Len(s.units) <= s.noOfUnits
  /\ s.made = "utf16" =>
       /\ Readable(s.text)
       /\ s.units = FlattenSeq([i \in DOMAIN s.text |-> Utf16(s.text[i].point)])
  /\ s.made = "modified" /\ Readable(s.text) =>
       \A i \in DOMAIN s.text : s.text[i].point < FirstWide

LEMMA StringsExact ==
  ASSUME NEW text \in Texts, NEW s \in Strings(text), NEW t, t = [s EXCEPT !.made = "none"]
  PROVE  StringExact(s) /\ StringExact(t)
<1> DEFINE Of(n, u) ==
             [text  |-> text,
              made  |-> CASE n = 0 -> "modified" [] n > 0 /\ Len(u) = n -> "utf16" [] OTHER -> "none",
              units |-> IF n = 0 THEN <<>> ELSE u,
              noOfUnits |-> n]
<1>0. PICK n \in validateUtf8(Data(text)) : s = Of(n, utf16FromUtf8(Data(text), n))
  BY Zenon DEF Strings
<1> DEFINE u == utf16FromUtf8(Data(text), n)
<1>1. s = Of(n, u)
  BY <1>0, Zenon
<1>2. Exact(text, n, u)
  BY TextExact, Zenon
<1> HIDE DEF u
<1>3. /\ s.text = text /\ s.noOfUnits = n /\ s.units = (IF n = 0 THEN <<>> ELSE u)
      /\ s.made = (CASE n = 0 -> "modified" [] n > 0 /\ Len(u) = n -> "utf16" [] OTHER -> "none")
  BY <1>1
<1>4. s.units = u
  BY <1>2, <1>3, Zenon DEF Exact
<1>5. (s.made = "modified" => n = 0) /\ (s.made = "utf16" => n > 0 /\ Len(u) = n)
  BY <1>3
<1>6. t.text = s.text /\ t.units = s.units /\ t.noOfUnits = s.noOfUnits /\ t.made = "none"
  BY <1>1
<1>7. StringExact(s)
  BY <1>2, <1>3, <1>4, <1>5, Zenon DEF StringExact, Exact
<1>8. "none" # "utf16" /\ "none" # "modified"
  OBVIOUS
<1>9. StringExact(t)
  BY <1>6, <1>7, <1>8, Zenon DEF StringExact
<1> QED
  BY <1>7, <1>9, Zenon

UInv == StringExact(string)

LEMMA UInit == Init => UInv
<1> USE DEF UInv
<1> SUFFICES ASSUME Init PROVE StringExact(string)
  OBVIOUS
<1>1. /\ string.text = <<>> /\ string.units = <<>> /\ string.made = "none" /\ string.noOfUnits = 0
  BY DEF Init, UtilsInit, NoString
<1>2. Len(string.units) <= string.noOfUnits
  BY <1>1
<1>3. string.made # "utf16" /\ string.made # "modified"
  BY <1>1
<1> QED
  BY <1>2, <1>3, Zenon DEF StringExact

LEMMA UNext == UInv /\ [Next]_vars => UInv'
<1> SUFFICES ASSUME UInv, [Next]_vars PROVE StringExact(string')
  BY DEF UInv
<1> USE DEF UInv
<1>1. ASSUME string' = string PROVE StringExact(string')
  BY <1>1, Zenon
<1>2. ASSUME string' = NoString PROVE StringExact(string')
  <2>1. NoString.units = <<>> /\ NoString.made = "none" /\ NoString.noOfUnits = 0
    BY DEF NoString
  <2>2. Len(NoString.units) <= NoString.noOfUnits
    BY <2>1
  <2>3. NoString.made # "utf16" /\ NoString.made # "modified"
    BY <2>1
  <2> QED
    BY <1>2, <2>2, <2>3, Zenon DEF StringExact
<1>3. ASSUME NEW text \in Texts, jniutils_NewStringUTF(text) PROVE StringExact(string')
  <2>1. PICK s \in Strings(text) : string' = s \/ string' = [s EXCEPT !.made = "none"]
    BY <1>3, Zenon DEF jniutils_NewStringUTF
  <2> QED
    BY <2>1, StringsExact, Zenon
<1>4. CASE UNCHANGED vars
  BY <1>1, <1>4, Zenon DEF vars, utilsVars
<1>5. CASE UNCHANGED utilsVars
  BY <1>1, <1>5, Zenon DEF utilsVars
<1>6. CASE UtilsNext
  <2>1. ASSUME jniutils_registerNativeMethods \/ jniutils_findFields PROVE string' = string
    BY <2>1, Zenon DEF jniutils_registerNativeMethods, jniutils_findFields
  <2> QED
    BY <1>1, <1>3, <1>6, <2>1, Zenon DEF UtilsNext
<1>7. CASE ForgetString
  BY <1>2, <1>7, Zenon DEF ForgetString
<1> QED
  BY <1>4, <1>5, <1>6, <1>7, Zenon DEF Next

\* Utf16Exact: the conversion of a text to UTF-16 never writes more units than were
\* counted for it; a string that it makes is the UTF-16 of what the whole text is read as,
\* all of which can be read; and the virtual machine's NewStringUTF gets no text that can
\* be read and has a character beyond U+FFFF.  The texts are any bytes.
THEOREM StringsAreExact == Spec => []Utf16Exact
<1>1. UInv <=> Utf16Exact
  BY SMT DEF UInv, StringExact, Utf16Exact, FirstWide
<1> QED
  BY UInit, UNext, <1>1, PTL DEF Spec
=============================================================================

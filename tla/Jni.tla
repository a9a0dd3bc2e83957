-------------------------------- MODULE Jni ---------------------------------
(***************************************************************************)
(* What the C code sees of a Java virtual machine: whether an exception is *)
(* pending, and the global references that keep objects alive.  JNI allows *)
(* few calls while an exception is pending (to look at it, to clear it and *)
(* to delete references); misused is set by any other.                     *)
(***************************************************************************)
EXTENDS Integers, FiniteSets, Sequences

CONSTANTS
  Ref,        \* global references (bound)
  NULL,
  Failures    \* can a call of the virtual machine fail?

ASSUME JniAssumption == IsFiniteSet(Ref) /\ NULL \notin Ref /\ Failures \in BOOLEAN

VARIABLES
  jvm,      \* the exception state
  global,   \* the global references that exist
  checks    \* does the caller of the last function look for exceptions itself?

jniVars == <<jvm, global, checks>>

MayThrow == IF Failures THEN BOOLEAN ELSE {FALSE}

\* A call, which throws or not.
JniCall(j, throws) ==
  [pending |-> j.pending \/ throws, misused |-> j.misused \/ j.pending]

ExceptionClear(j) == [pending |-> FALSE, misused |-> j.misused]

\* ExceptionCheck and, if need be, ExceptionClear.
Checked(j) == IF j.pending THEN ExceptionClear(j) ELSE j

JniInit ==
  /\ jvm = [pending |-> FALSE, misused |-> FALSE]
  /\ global = {}
  /\ checks = FALSE

\* The callers of some functions handle the exception that they left.
MayCall == ~ (checks /\ jvm.pending)

HandleException ==
  /\ checks
  /\ jvm.pending
  /\ jvm' = ExceptionClear(jvm)
  /\ UNCHANGED <<global, checks>>
=============================================================================

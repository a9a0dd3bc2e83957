------------------------------ MODULE YosalJni ------------------------------
(***************************************************************************)
(* What the library does on a Java thread: the Java stream engine and the  *)
(* JNI helpers share the thread's virtual machine, so that an exception    *)
(* which one of them leaves is met by the next call of the other.          *)
(***************************************************************************)
EXTENDS JavaStream, JniUtils

vars == <<jniVars, streamVars, utilsVars>>

Init == JniInit /\ StreamInit /\ UtilsInit

\* The caller of a string uses it before it calls again, which spares the model the
\* product of every string with every stream.
Next ==
  \/ string = NoString /\ StreamNext /\ UNCHANGED utilsVars
  \/ string = NoString /\ UtilsNext /\ UNCHANGED streamVars
  \/ ForgetString /\ UNCHANGED <<jniVars, streamVars>>
  \/ HandleException /\ UNCHANGED <<streamVars, utilsVars>>

Spec == Init /\ [][Next]_vars
=============================================================================

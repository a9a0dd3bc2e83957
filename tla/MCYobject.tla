----------------------------- MODULE MCYobject -----------------------------
(* Three threads share up to three counted references of a yobject: while  *)
(* one of them tears it down, two more may be on their way to its mutex.   *)
EXTENDS Yobject
=============================================================================

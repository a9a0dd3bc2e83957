---------------------------- MODULE MCYosalInit -----------------------------
(* Three threads: one initialises, one waits for the mutex, one comes late. *)
EXTENDS YosalInit
=============================================================================

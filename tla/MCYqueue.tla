------------------------------ MODULE MCYqueue ------------------------------
(* Two values and up to five records at once, without symmetry, as the run *)
(* has a liveness property.                                                *)
EXTENDS Yqueue
=============================================================================

----------------------------- MODULE MCYdigest ------------------------------
(* Blocks of four bytes of which the length takes two, and counters of six *)
(* bits, whose low word overflows at eight bytes: an update of nine is one *)
(* of which SHA-1 counts the high bits only if the low word overflows.     *)
EXTENDS Ydigest
=============================================================================

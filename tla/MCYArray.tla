------------------------------ MODULE MCYArray ------------------------------
(* An array that grows in steps of 4 (64 in the code) and then by a        *)
(* quarter, so that six elements make it grow both ways.                   *)
EXTENDS YArray, TLC

Symmetry == Permutations(Element)

MCLengths == -5..5
=============================================================================

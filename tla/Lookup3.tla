------------------------------ MODULE Lookup3 ------------------------------
(***************************************************************************)
(* hash_lookup3 of src/hash/lookup3.c, as it is compiled: hashlittle2 with *)
(* the reads that stay inside the key (VALGRIND is defined).  The key is   *)
(* read in one of three ways, chosen by its address: in aligned 32-bit     *)
(* words, in 16-bit halves, or byte by byte.  Each way has code of its own *)
(* for the last, partial block.                                            *)
(*                                                                         *)
(* What a way adds to the lanes a, b and c is computed from the bytes.     *)
(* The mixing of the lanes (mix, final, the initial values) is symbolic:   *)
(* Mixed is a function of the length and of what was added, no more.       *)
(***************************************************************************)
EXTENDS Integers, Sequences

CONSTANTS
  LittleEndian,   \* YOSAL_ARCH_LITTLE_ENDIAN
  Mixed(_)        \* the primary hash for a length and the blocks that were added

ASSUME Lookup3Assumption == LittleEndian \in BOOLEAN

BlockBytes == 12

\* Memory at offset o of the key, read as bytes, halves and words.
Byte(k, o) == k[o + 1]
Half(k, o) == Byte(k, o) + Byte(k, o + 1) * 256
Word(k, o) == Half(k, o) + Half(k, o + 2) * 65536

\* The three blocks of code: what they add to a lane that starts at offset o,
\* when m bytes of the key lie there or behind it (none, if m is not positive).

\* One byte, then the cases that fall through to it.
FirstBytes(k, o, m) ==
  IF m <= 0 THEN 0
  ELSE Byte(k, o) + (IF m >= 2 THEN Byte(k, o + 1) * 256 ELSE 0)
                  + (IF m >= 3 THEN Byte(k, o + 2) * 65536 ELSE 0)

ByteLane(k, o, m) ==
  FirstBytes(k, o, m) + (IF m >= 4 THEN Byte(k, o + 3) * 16777216 ELSE 0)

\* Mutant: case 3 does not fall through to the half before its byte.
HalfLane_NoFallThrough(k, o, m) ==
  CASE m >= 4 -> Half(k, o) + Half(k, o + 2) * 65536
    [] m = 3  -> Byte(k, o + 2) * 65536
    [] m = 2  -> Half(k, o)
    [] OTHER  -> FirstBytes(k, o, m)

HalfLane(k, o, m) ==
  CASE m >= 4 -> Half(k, o) + Half(k, o + 2) * 65536
    [] m = 3  -> Byte(k, o + 2) * 65536 + Half(k, o)
    [] m = 2  -> Half(k, o)
    [] OTHER  -> FirstBytes(k, o, m)

WordLane(k, o, m) == IF m >= 4 THEN Word(k, o) ELSE FirstBytes(k, o, m)

\* The way of a key at address p.
Lane(p, k, o, m) ==
  CASE LittleEndian /\ p % 4 = 0              -> WordLane(k, o, m)
    [] LittleEndian /\ p % 4 # 0 /\ p % 2 = 0 -> HalfLane(k, o, m)
    [] ~ LittleEndian \/ p % 2 # 0            -> ByteLane(k, o, m)

\* The loop takes a block while more than one block is left, so that the last
\* block has 1 to 12 bytes.  A key without bytes is not mixed at all.
BlockCount(k) == (Len(k) + BlockBytes - 1) \div BlockBytes

AddedBlock(p, k, n) ==
  LET o    == (n - 1) * BlockBytes
      left == Len(k) - o
  IN  [a |-> Lane(p, k, o, left), b |-> Lane(p, k, o + 4, left - 4), c |-> Lane(p, k, o + 8, left - 8)]

hashlittle2(p, k) ==
  [length |-> Len(k), blocks |-> [n \in 1..BlockCount(k) |-> AddedBlock(p, k, n)]]

hash_lookup3(p, k) == Mixed(hashlittle2(p, k))
=============================================================================

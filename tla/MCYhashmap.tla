----------------------------- MODULE MCYhashmap -----------------------------
(* Of the keys, ka and kb have the same hash, kc another one that selects  *)
(* the same of 4 buckets, and the empty key ke selects the last bucket.    *)
(* Capacities of up to 2 make 4 buckets, a capacity of 7 makes 16.  With   *)
(* ints of 6 bits, 17 overflows: it makes 2 buckets, or would make 32; 15  *)
(* becomes negative, for which the loop never ends, or makes 32.           *)
EXTENDS Yhashmap, TLC

CONSTANTS ka, kb, kc, ke

MCKey   == {ka, kb, kc, ke}

\* Keys of 3 bytes, of 12 and 3, and of none.
MCBytes ==
  [k \in MCKey |->
     CASE k = ka -> <<11, 2, 3>>
       [] k = kb -> <<11, 5, 6>>
       [] k = kc -> <<3, 7, 1, 9,  0, 2, 5, 8,  0, 4, 0, 1,  0, 6, 2>>
       [] k = ke -> <<>>]

\* The hashes 1 of ka and kb, 5 of kc, and 3 of ke.
MCMixed(added) ==
  FoldLeft(LAMBDA s, x : (s + x.a + x.b + x.c) % 16, 3 + added.length, added.blocks)

MCCapacities == {-1, 2, 7, 15, 17}

Symmetry ==
  Permutations(Entry) \cup Permutations(Block) \cup Permutations(Thread)
    \cup Permutations(Value)
=============================================================================

----------------------------- MODULE MCYbase64 ------------------------------
(* Blocks at addresses that are aligned to 8, to 2 and to nothing, and     *)
(* messages that end in each of the three steps, in the first block, at    *)
(* its end and in the second one.  4 members of 16 bytes overflow a size.  *)
EXTENDS Ybase64

MCTexts   == {<<>>, <<97>>, <<98, 99, 100>>}
MCValues  == {-1, 10}
MCLengths == {-1, 0, 4}

Plain(n)   == [i \in 1..n |-> (i * 83) % 256]
MCMessages == {Plain(n) : n \in {1, 2, 3, 12, 14}}
=============================================================================

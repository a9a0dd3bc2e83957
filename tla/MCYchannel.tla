----------------------------- MODULE MCYchannel -----------------------------
(* An input of four bytes, a prefetch buffer of two, a Java array of one,  *)
(* requests of up to two bytes, and one or two bytes to push back.  Ints   *)
(* are so narrow that the count can get more than an int above the length. *)
EXTENDS Ychannel

MCData     == <<1, 2, 3, 4>>
MCPushable == {<<8>>, <<7, 8>>}
MCRequests == {-1, 1, 2}
=============================================================================

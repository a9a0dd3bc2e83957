-------------------------- MODULE MCYchannelWriter --------------------------
(* Up to five bytes in calls of up to three, a sink of two bytes, a buffer *)
(* of two and chunks of two.                                               *)
EXTENDS YchannelWriter

MCRequests == {-1, 1, 2, 3}
=============================================================================

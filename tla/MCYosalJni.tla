----------------------------- MODULE MCYosalJni -----------------------------
(* One Java thread with two input streams and an output stream. *)
EXTENDS YosalJni

Point(p, bytes) == [point |-> p, bytes |-> bytes]

\* A, modified NUL, a surrogate, the ends of the range of three bytes and of four,
\* points of fewer bytes than they have, and first bytes 10xxxxxx.
MCChar ==
  {Point(65, <<65>>), Point(0, <<192, 128>>), Point(233, <<195, 169>>),
   Point(55296, <<237, 160, 128>>), Point(65535, <<239, 191, 191>>),
   Point(65536, <<240, 144, 128, 128>>), Point(1114111, <<244, 143, 191, 191>>),
   Point(1, <<192, 129>>), Point(65, <<224, 129, 129>>),
   Point(65, <<129, 129>>), Point(65536, <<176, 144, 128, 128>>)}
  \cup {Point(NULL, b) : b \in {<<244, 144, 128, 128>>, <<240, 128, 128, 128>>,
                                <<226, 65, 172>>, <<240, 65, 128, 128>>, <<248>>}}

MCTruncated == {Point(NULL, b) : b \in {<<195>>, <<226, 130>>, <<240, 144, 128>>}}
=============================================================================

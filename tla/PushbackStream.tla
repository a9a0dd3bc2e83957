--------------------------- MODULE PushbackStream ---------------------------
(***************************************************************************)
(* What the read side of a Ychannel promises (include/yosal/ychannel.h): a *)
(* stream of bytes, read from the front, onto which a reader may push bytes *)
(* back.  No buffer, position or engine appears here.                      *)
(***************************************************************************)
EXTENDS Naturals, Sequences

CONSTANTS Pushable    \* what a reader pushes back

VARIABLES
  pushed,   \* the bytes pushed back and not read again
  source,   \* the bytes of the underlying input that were not read
  fragile,  \* an input that may fail after it has given up some bytes
  out       \* the bytes the current call has read

streamVars == <<pushed, source, fragile, out>>

Unread == pushed \o source

Begin == out' = <<>> /\ UNCHANGED <<pushed, source>>

\* A call reads some of the bytes, in order; what was pushed back comes first.
Deliver ==
  \E n \in 1..Len(Unread) :
    /\ \/ out' = SubSeq(Unread, 1, n)
       \/ out' = out \o SubSeq(Unread, 1, n)
    /\ pushed' = SubSeq(pushed, n + 1, Len(pushed))
    /\ source' = IF n <= Len(pushed) THEN source
                 ELSE SubSeq(source, n - Len(pushed) + 1, Len(source))

\* Such an input fails: the bytes it had in hand are gone.
Lose ==
  /\ fragile
  /\ pushed = <<>>
  /\ \E n \in 1..Len(source) : source' = SubSeq(source, n + 1, Len(source))
  /\ pushed' = pushed
  /\ out' \in {out, <<>>}

Push(data) ==
  /\ pushed' = data \o pushed
  /\ out' = <<>>
  /\ UNCHANGED source

\* The channel gives up its reference to the input.
Detach == source' = <<>> /\ out' = <<>> /\ UNCHANGED pushed

Close == source' = <<>> /\ out' = <<>> /\ pushed' = <<>>

StreamNext ==
  /\ UNCHANGED fragile
  /\ \/ Begin \/ Deliver \/ Lose \/ Detach \/ Close
     \/ \E data \in Pushable : Push(data)

StreamInit ==
  pushed = <<>> /\ out = <<>> /\ source \in Seq(Nat) /\ fragile \in BOOLEAN

StreamSpec == StreamInit /\ [][StreamNext]_streamVars
=============================================================================

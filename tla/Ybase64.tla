------------------------------ MODULE Ybase64 -------------------------------
(***************************************************************************)
(* Ybase64_encode of src/base64/base64.c, with the encoder of cencode.c    *)
(* and the decoder of cdecode.c, two automata that keep their place from   *)
(* one block to the next.  The result is collected in a Ybuffer, whose     *)
(* memory comes from Ymem; callers of those two run along with it.         *)
(*                                                                         *)
(* Ybase64_encode ignores what its appends return.  Each of them, together *)
(* with the block of code that it appends, is a step.  charsperline stays  *)
(* 0, so that the encoder breaks no lines.  One buffer exists at a time.   *)
(* The result is decoded by a caller of base64_decode_block, in blocks     *)
(* that end anywhere, with characters in between that are no code.         *)
(***************************************************************************)
EXTENDS Ybuffer

CONSTANTS
  Messages,     \* what callers encode
  CodeBlocks    \* the lengths of the blocks of code that they decode

ASSUME Ybase64Assumption ==
  /\ Messages \subseteq Seq(0..255)
  /\ CodeBlocks \subseteq Nat \ {0}

VARIABLES
  encoding,   \* the automaton and the plain text left, in Ybase64_encode
  message,    \* history: what was encoded last
  complete,   \* history: every append succeeded
  decoding    \* the automaton of the decoder and the code left

codecVars == <<encoding, message, complete, decoding>>
vars      == <<memVars, bufferVars, codecVars>>

BlockLength  == 12    \* the plain text of a block
ResultLength == 16    \* the first length of the result

-----------------------------------------------------------------------------
(* cencode.c *)

base64_encode_value(v) ==
  CASE v < 26            -> 65 + v
    [] 26 <= v /\ v < 52 -> 71 + v
    [] 52 <= v /\ v < 62 -> v - 4
    [] v = 62            -> 43
    [] v = 63            -> 47
    [] v > 63            -> 61

Pad == base64_encode_value(64)
EncodeStart == [step |-> "A", result |-> 0, out |-> <<>>]

\* One byte of the plain text: six bits are written, the rest is the result that
\* the next byte completes.  (The bits that are or'ed do not overlap.)
EncodeByte(s, f) ==
  CASE s.step = "A" -> [step |-> "B", result |-> (f % 4) * 16,
                        out |-> Append(s.out, base64_encode_value(f \div 4))]
    [] s.step = "B" -> [step |-> "C", result |-> (f % 16) * 4,
                        out |-> Append(s.out, base64_encode_value(s.result + f \div 16))]
    [] s.step = "C" -> [step |-> "A", result |-> f % 64,
                        out |-> s.out \o <<base64_encode_value(s.result + f \div 64),
                                           base64_encode_value(f % 64)>>]

base64_encode_block(s, bytes) == FoldLeft(EncodeByte, [s EXCEPT !.out = <<>>], bytes)

\* Mutant: the bits that wait for another byte are not written at the end.
base64_encode_blockend_DropsBits(s) ==
  CASE s.step = "A" -> <<>>
    [] s.step = "B" -> <<Pad, Pad>>
    [] s.step = "C" -> <<Pad>>

base64_encode_blockend(s) ==
  CASE s.step = "A" -> <<>>
    [] s.step = "B" -> <<base64_encode_value(s.result), Pad, Pad>>
    [] s.step = "C" -> <<base64_encode_value(s.result), Pad>>

-----------------------------------------------------------------------------
(* cdecode.c *)

\* -1 for what is no code and -2 for the padding: both are skipped.  (The
\* callers pass nothing but ASCII, and not the character behind z: its place in
\* the table is one past the end.)
base64_decode_value(c) ==
  CASE 65 <= c /\ c <= 90  -> c - 65
    [] 97 <= c /\ c <= 122 -> c - 71
    [] 48 <= c /\ c <= 57  -> c + 4
    [] c = 43              -> 62
    [] c = 47              -> 63
    [] c = 61              -> -2
    [] OTHER               -> -1

DecodeStart == [step |-> "a", plain |-> 0, out |-> <<>>]

\* One character of the code: plain is the byte of the plain text that it works
\* on.  The byte behind a group of three has not been written yet.
DecodeChar(d, c) ==
  LET f == base64_decode_value(c)
  IN  CASE f < 0                  -> d
        [] f >= 0 /\ d.step = "a" -> [d EXCEPT !.step = "b", !.plain = f * 4]
        [] f >= 0 /\ d.step = "b" -> [step |-> "c", plain |-> (f % 16) * 16,
                                      out |-> Append(d.out, d.plain + f \div 16)]
        [] f >= 0 /\ d.step = "c" -> [step |-> "d", plain |-> (f % 4) * 64,
                                      out |-> Append(d.out, d.plain + f \div 4)]
        [] f >= 0 /\ d.step = "d" -> [step |-> "a", plain |-> Junk,
                                      out |-> Append(d.out, d.plain + f)]

\* Mutant: the byte under way is not kept when a block ends before it does.
base64_decode_block_Forgets(s, codes) ==
  FoldLeft(DecodeChar, [s EXCEPT !.out = <<>>, !.plain = 0], codes)

base64_decode_block(s, codes) == FoldLeft(DecodeChar, [s EXCEPT !.out = <<>>], codes)

-----------------------------------------------------------------------------
(* Ybase64_encode *)

Idle == [pc |-> "idle", state |-> EncodeStart, rest |-> <<>>]
NoCode == [state |-> DecodeStart, out |-> <<>>, code |-> <<>>]

Init ==
  /\ YmemInit
  /\ YbufferInit
  /\ encoding = Idle
  /\ message = <<>>
  /\ complete = FALSE
  /\ decoding = NoCode

\* If the buffer cannot be had, NULL is returned.
Ybase64_encode(m) ==
  /\ encoding = Idle
  /\ buffer = NoBuffer
  /\ detached = NULL
  /\ \E o \in InitOutcomes(heap, ResultLength) :
       /\ buffer' = o.b
       /\ heap' = o.h
       /\ encoding' = IF o.b = NoBuffer THEN Idle ELSE [Idle EXCEPT !.pc = "blocks", !.rest = m]
       /\ message' = IF o.b = NoBuffer THEN <<>> ELSE m
  /\ text' = <<>>
  /\ complete' = FALSE
  /\ UNCHANGED <<held, lost, detached, decoding>>

EncodeBlock ==
  LET end   == Min({BlockLength, Len(encoding.rest)})
      state == base64_encode_block(encoding.state, SubSeq(encoding.rest, 1, end))
  IN  /\ encoding.pc = "blocks"
      /\ encoding.rest # <<>>
      /\ Becomes(AppendBytes(buffer, heap, state.out), state.out)
      /\ encoding' = [encoding EXCEPT !.state = [state EXCEPT !.out = <<>>],
                                     !.rest = SubSeq(@, end + 1, Len(@))]
      /\ UNCHANGED <<message, complete, decoding>>

EncodeEnd ==
  LET codes == base64_encode_blockend(encoding.state)
  IN  /\ encoding.pc = "blocks"
      /\ encoding.rest = <<>>
      /\ Becomes(AppendBytes(buffer, heap, codes), codes)
      /\ encoding' = [encoding EXCEPT !.pc = "end"]
      /\ UNCHANGED <<message, complete, decoding>>

\* A NUL is appended as a byte of its own, and the memory of the buffer is the
\* result.
EncodeReturn ==
  /\ encoding.pc = "end"
  /\ \E o \in AppendBytes(buffer, heap, <<NUL>>) :
       /\ detached' = o.b.data
       /\ heap' = Ymem_free(o.h, o.b.self)
       /\ complete' = (o.b.status = "ok")
  /\ buffer' = NoBuffer
  /\ encoding' = Idle
  /\ UNCHANGED <<held, lost, text, message, decoding>>

-----------------------------------------------------------------------------
(* A caller that decodes the result, and the callers of the other modules *)

Encoded == detached # NULL /\ message # <<>> /\ buffer = NoBuffer
Skipped == 10    \* a line break

\* A result that ends with a NUL is decoded.
DecodeBegin ==
  /\ Encoded
  /\ decoding = NoCode
  /\ NUL \in ToSet(heap[detached])
  /\ decoding' = [NoCode EXCEPT !.code = CString(heap, detached)]
  /\ UNCHANGED <<memVars, bufferVars, encoding, message, complete>>

DecodeSome(n) ==
  /\ decoding.code # <<>>
  /\ n <= Len(decoding.code)
  /\ LET block == SubSeq(decoding.code, 1, n)
         state == base64_decode_block(decoding.state, <<Skipped>> \o block)
     IN  decoding' = [state |-> [state EXCEPT !.out = <<>>],
                      out   |-> decoding.out \o state.out,
                      code  |-> SubSeq(decoding.code, n + 1, Len(decoding.code))]
  /\ UNCHANGED <<memVars, bufferVars, encoding, message, complete>>

FreeResult ==
  /\ FreeDetached
  /\ message' = <<>>
  /\ complete' = FALSE
  /\ decoding' = NoCode
  /\ UNCHANGED encoding

Next ==
  \/ \E m \in Messages : Ybase64_encode(m)
  \/ EncodeBlock \/ EncodeEnd \/ EncodeReturn
  \/ DecodeBegin
  \/ \E n \in CodeBlocks : DecodeSome(n)
  \/ FreeResult
  \/ encoding = Idle /\ YbufferNext /\ UNCHANGED codecVars
  \/ encoding = Idle /\ YmemNext /\ UNCHANGED <<bufferVars, codecVars>>

Spec == Init /\ [][Next]_vars

-----------------------------------------------------------------------------
(* The reference: three bytes are a number of four digits, base 64 *)

Byte(m, i)   == IF i <= Len(m) THEN m[i] ELSE 0
Number(m, g) == Byte(m, 3 * g + 1) * 65536 + Byte(m, 3 * g + 2) * 256 + Byte(m, 3 * g + 3)
Places       == <<64 * 64 * 64, 64 * 64, 64, 1>>

\* The digit that makes a character of the code: of the last group only one more than
\* it has bytes.
Base64(m) ==
  [i \in 1..(4 * ((Len(m) + 2) \div 3)) |->
     LET g == (i - 1) \div 4
         j == i - 4 * g
     IN  IF 3 * g + j > Len(m) + 1 THEN Pad
         ELSE base64_encode_value((Number(m, g) \div Places[j]) % 64)]

-----------------------------------------------------------------------------
(* What the module checks, with the properties of Ymem and Ybuffer *)

TypeOK ==
  /\ heap \in [Block -> Seq(-1..255)]
  /\ held \subseteq [ptr : Block, at : Nat, size : Nat, alignment : Nat]
  /\ lost \subseteq Block
  /\ detached \in Block \cup {NULL}
  /\ encoding.pc \in {"idle", "blocks", "end"} /\ encoding.state.step \in {"A", "B", "C"}
  /\ encoding.state.result \in 0..63
  /\ decoding.state.step \in {"a", "b", "c", "d"} /\ decoding.out \in Seq(0..255)

\* The result of Ybase64_encode is the code of the whole message, as a C string,
\* if all memory could be had.  If an append failed it is a C string with the
\* code of some of the first blocks, unless it was the first append.
EncodesMessage ==
  Encoded =>
    /\ complete => CString(heap, detached) = Base64(message)
    /\ ~ complete /\ text # <<>> =>
         /\ NUL \in ToSet(heap[detached])
         /\ CString(heap, detached) = text
         /\ IsPrefix(text, Base64(message))

\* The decoder gives the message back, wherever its blocks of code end and
\* whatever stands in between that is no code.
DecodesMessage ==
  /\ TypeOK
  /\ IsPrefix(decoding.out, message)
  /\ complete /\ decoding # NoCode /\ decoding.code = <<>> => decoding.out = message
=============================================================================

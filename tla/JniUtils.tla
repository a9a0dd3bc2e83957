------------------------------ MODULE JniUtils ------------------------------
(***************************************************************************)
(* The JNI helpers of src/java/jniutils.c: registration of native methods, *)
(* lookup of fields, and strings made from UTF-8.  The virtual machine's   *)
(* own NewStringUTF takes modified UTF-8, which has no sequences of four   *)
(* bytes; text with such a sequence is converted to UTF-16.                *)
(*                                                                         *)
(* A text is a sequence of characters [bytes, point], point being what the *)
(* code reads them as, or NULL for bytes that it cannot read.  Any bytes   *)
(* are such a text.  It may end in the middle of a character: validateUtf8 *)
(* then steps over its NUL and reads what lies beyond.                     *)
(***************************************************************************)
EXTENDS Jni, SequencesExt

CONSTANTS
  Char,       \* the characters of the texts
  Truncated,  \* beginnings of characters, found at the end of a text
  MaxChars,   \* the length of a text (bound)
  MaxBeyond,  \* the units counted beyond the end of a text (bound)
  Fields      \* the number of fields of a findFields call

VARIABLES
  fields,   \* the number of fields whose IDs are known
  string    \* the string that was made last, while its caller is busy with it

utilsVars == <<fields, string>>

NoString == [text |-> <<>>, made |-> "none", units |-> <<>>, noOfUnits |-> 0]

UtilsInit == fields = 0 /\ string = NoString

-----------------------------------------------------------------------------
(* Registration.  Every failure leaves its exception to the caller. *)

\* FindClass and, if it found the class, RegisterNatives.
jniutils_registerNativeMethods ==
  /\ MayCall
  /\ \/ Failures /\ jvm' = JniCall(jvm, TRUE)
     \/ \E t \in MayThrow : jvm' = JniCall(JniCall(jvm, FALSE), t)
  /\ checks' = TRUE
  /\ UNCHANGED <<global, fields, string>>

\* The loop stops at the first class or field that is not found; the fields
\* before it are known.
jniutils_findFields ==
  /\ MayCall
  /\ \E k \in (IF Failures THEN 0..Fields ELSE {Fields}) :
       /\ fields' = IF k > fields THEN k ELSE fields
       /\ \/ k = Fields /\ jvm' = JniCall(jvm, FALSE)
          \/ k < Fields /\ jvm' = JniCall(JniCall(jvm, FALSE), TRUE)
  /\ checks' = TRUE
  /\ UNCHANGED <<global, string>>

-----------------------------------------------------------------------------
(* jniutils_NewStringUTF *)

Bit(b, mask) == (b \div mask) % 2

\* The length of a character, by its first byte: 0 for none.
Width(b) == CASE Bit(b, 128) = 0 -> 1
              [] Bit(b, 128) = 1 /\ Bit(b, 32) = 0 -> 2
              [] Bit(b, 128) = 1 /\ Bit(b, 32) = 1 /\ Bit(b, 16) = 0 -> 3
              [] Bit(b, 128) = 1 /\ Bit(b, 32) = 1 /\ Bit(b, 16) = 1 /\ Bit(b, 8) = 0 -> 4
              [] OTHER -> 0

\* Mutant: a character of four bytes is counted as one unit.
validateUtf8_CountsOne(data) ==
  LET scan[at \in 1..(Len(data) + 4)] ==
        IF at > Len(data)
        THEN [units |-> 0, wide |-> FALSE, bad |-> FALSE, beyond |-> at > Len(data) + 1]
        ELSE LET w    == Width(data[at])
                 rest == scan[at + w]
             IN  IF w = 0 THEN [units |-> 0, wide |-> FALSE, bad |-> TRUE, beyond |-> FALSE]
                 ELSE [rest EXCEPT !.units = @ + 1, !.wide = @ \/ w = 4]
      all == scan[1]
  IN  IF all.bad \/ ~ all.wide THEN {0} ELSE {all.units}

\* The units that UTF-16 takes, 0 when no conversion is needed, or possible.  The
\* result of a scan that passes the NUL is up to the memory beyond it.
validateUtf8(data) ==
  LET scan[at \in 1..(Len(data) + 4)] ==
        IF at > Len(data)
        THEN [units |-> 0, wide |-> FALSE, bad |-> FALSE, beyond |-> at > Len(data) + 1]
        ELSE LET w    == Width(data[at])
                 rest == scan[at + w]
             IN  IF w = 0 THEN [units |-> 0, wide |-> FALSE, bad |-> TRUE, beyond |-> FALSE]
                 ELSE [rest EXCEPT !.units = @ + (IF w = 4 THEN 2 ELSE 1), !.wide = @ \/ w = 4]
      all == scan[1]
  IN  CASE all.beyond -> {0} \cup {all.units + k : k \in 0..MaxBeyond}
        [] ~ all.beyond /\ (all.bad \/ ~ all.wide) -> {0}
        [] OTHER -> {all.units}

\* The code point that the w bytes at a position give.
CodePoint(data, at, w) ==
  LET tail(k) == data[at + k] % 64
  IN  CASE w = 1 -> data[at]
        [] w = 2 -> 64 * (data[at] % 32) + tail(1)
        [] w = 3 -> 4096 * (data[at] % 16) + 64 * tail(1) + tail(2)
        [] w = 4 -> 262144 * (data[at] % 8) + 4096 * tail(1) + 64 * tail(2) + tail(3)

\* Are they all there, the later ones being 10xxxxxx?
Complete(data, at, w) ==
  /\ w > 0
  /\ at + w - 1 <= Len(data)
  /\ \A i \in (at + 1)..(at + w - 1) : data[i] \div 64 = 2

\* One unit, a pair of surrogates, or nothing.
UnitsOf(point) ==
  CASE point < 65536 -> <<point>>
    [] point >= 65536 /\ point <= 1114111 -> <<point \div 1024 + 55232, (point % 1024) + 56320>>
    [] OTHER -> <<>>

\* The units that are written, from a position and with room for some more: up to the
\* end, to a character that cannot be converted, or until there is no room left.
utf16FromUtf8(data, noOfUnits) ==
  LET from[at \in 1..(Len(data) + 1)] ==
        LET w     == Width(data[at])
            units == UnitsOf(CodePoint(data, at, w))
        IN  [left \in -1..noOfUnits |->
               IF at > Len(data) \/ ~ Complete(data, at, w) \/ units = <<>> \/ left <= 0 THEN <<>>
               ELSE units \o from[at + w][left - Len(units)]]
  IN  from[1][noOfUnits]

-----------------------------------------------------------------------------
(* The texts *)

\* What the code reads as a code point: the characters of modified UTF-8 and the
\* sequences of four bytes of UTF-8, but also two or three bytes for a point that takes
\* fewer, and first bytes without the second bit, 10xxxxxx.
ReadAs(bytes, point) ==
  LET tail(n) == 128 + ((point \div n) % 64)
  IN  \/ point > 0 /\ point < 128 /\ bytes = <<point>>
      \/ /\ point < 2048
         /\ \E lead \in {128, 192} : bytes = <<lead + (point \div 64), tail(1)>>
      \/ /\ point < 65536
         /\ \E lead \in {160, 224} : bytes = <<lead + (point \div 4096), tail(64), tail(1)>>
      \/ /\ point >= 65536 /\ point <= 1114111
         /\ \E lead \in {176, 240} :
              bytes = <<lead + (point \div 262144), tail(4096), tail(64), tail(1)>>

\* Bytes that are read as none: one of them cannot be where it is, or there are four
\* for a point that does not take four.
Malformed(bytes) ==
  LET w == Width(bytes[1])
  IN  \/ w = 0
      \/ \E i \in 2..w : i <= Len(bytes) /\ bytes[i] \div 64 # 2
      \/ /\ w = 4 /\ Len(bytes) = 4
         /\ CodePoint(bytes, 1, 4) < 65536 \/ CodePoint(bytes, 1, 4) > 1114111

ASSUME JniUtilsAssumption ==
  /\ MaxChars \in Nat /\ MaxBeyond \in Nat
  /\ NULL \notin Nat
  /\ \A c \in Char \cup Truncated : c.bytes \in Seq(1..255) /\ c.bytes # <<>>
  /\ \A c \in Char : \/ c.point \in Nat /\ ReadAs(c.bytes, c.point)
                     \/ c.point = NULL /\ Malformed(c.bytes)
  /\ \A c \in Truncated : c.point = NULL /\ Len(c.bytes) < Width(c.bytes[1])

Texts == SeqOf(Char, MaxChars)
         \cup {Append(t, c) : t \in SeqOf(Char, MaxChars - 1), c \in Truncated}

Data(text) == FlattenSeq([i \in DOMAIN text |-> text[i].bytes])

\* What can be made of a text: a string of the virtual machine's NewStringUTF, one of
\* NewString from units in a buffer of noOfUnits, or nothing.
Strings(text) ==
  { LET units == utf16FromUtf8(Data(text), n)
    IN  [text  |-> text,
         made  |-> CASE n = 0 -> "modified" [] n > 0 /\ Len(units) = n -> "utf16" [] OTHER -> "none",
         units |-> IF n = 0 THEN <<>> ELSE units,
         noOfUnits |-> n] : n \in validateUtf8(Data(text)) }

\* Without memory for the units, or when not all could be converted, no call is made
\* that throws.
jniutils_NewStringUTF(text) ==
  /\ MayCall
  /\ \E s \in Strings(text) :
       \/ /\ s.made # "none"
          /\ \E t \in MayThrow :
               /\ jvm' = Checked(JniCall(jvm, t))
               /\ string' = IF t THEN [s EXCEPT !.made = "none"] ELSE s
       \/ /\ s.made = "none" \/ (Failures /\ s.noOfUnits > 0)
          /\ jvm' = Checked(jvm)
          /\ string' = [s EXCEPT !.made = "none"]
  /\ checks' = FALSE
  /\ UNCHANGED <<global, fields>>

\* The caller is done with the string.
ForgetString ==
  /\ string # NoString
  /\ string' = NoString
  /\ UNCHANGED fields

UtilsNext ==
  \/ jniutils_registerNativeMethods
  \/ jniutils_findFields
  \/ \E text \in Texts : jniutils_NewStringUTF(text)

-----------------------------------------------------------------------------
(* Properties *)

Readable(text) == \A i \in DOMAIN text : text[i].point # NULL

\* The UTF-16 of a code point.
Utf16(point) == IF point < 65536 THEN <<point>>
                ELSE <<55296 + (point - 65536) \div 1024, 56320 + ((point - 65536) % 1024)>>

\* No unit is written past the buffer that validateUtf8 asked for; a string made by
\* conversion holds exactly the UTF-16 of what its text is read as, all of which can be
\* read; and of the texts that can be read the virtual machine's NewStringUTF gets only
\* those without a character beyond U+FFFF.
\* That a text is read does not make it well formed: characters of more bytes than they
\* take and first bytes 10xxxxxx are converted as well.  Nor is every text well formed
\* that NewStringUTF gets, although the comment on validateUtf8 says that 0 stands for
\* a valid string.
Utf16Exact ==
  /\ Len(string.units) <= string.noOfUnits
  /\ string.made = "utf16" =>
       /\ Readable(string.text)
       /\ string.units = FlattenSeq([i \in DOMAIN string.text |-> Utf16(string.text[i].point)])
  /\ string.made = "modified" /\ Readable(string.text) =>
       \A i \in DOMAIN string.text : string.text[i].point < 65536
=============================================================================

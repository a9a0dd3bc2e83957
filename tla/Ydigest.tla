------------------------------ MODULE Ydigest -------------------------------
(***************************************************************************)
(* Message digests and message authentication codes: Ydigest               *)
(* (src/digest/digest.c) over the block buffers and bit counters of MD5    *)
(* (digest_md5.c) and SHA-1 (digest_sha1.c).                               *)
(*                                                                         *)
(* A byte is a triple that says where it comes from, so that two bytes are *)
(* the same only if the code has copied one to the other.  The compression *)
(* functions are symbolic: the state of an engine is the sequence of the   *)
(* blocks they have been given.  The block, the counters and the digests   *)
(* are scaled down by the constants.                                       *)
(***************************************************************************)
EXTENDS Integers, Sequences, SequencesExt

CONSTANTS
  Modes,       \* the modes in use
  Sizes,       \* the numbers of bytes given to one Ydigest_update
  MaxBytes,    \* bound on the bytes given to Ydigest_update in all
  BlockSize,   \* 64 bytes
  LengthSize,  \* 8: the bytes of the length at the end of the last block
  CountMod,    \* 2^32: a word of the counters
  MD5Length,   \* YOSAL_DIGEST_MD5
  SHA1Length   \* YOSAL_DIGEST_SHA1

ASSUME YdigestAssumption ==
  /\ Modes \subseteq {"md5", "sha1", "hmac_md5", "hmac_sha1"}
  /\ Sizes \subseteq Nat
  /\ MaxBytes \in Nat
  /\ BlockSize \in Nat \ {0}
  /\ LengthSize \in 1..(BlockSize - 1)
  /\ CountMod \in Nat \ {0} /\ CountMod % (8 * BlockSize) = 0
  /\ MD5Length \in Nat \ {0} /\ SHA1Length \in Nat \ {0}
  /\ 8 * BlockSize < CountMod /\ 8 * MD5Length < CountMod /\ 8 * SHA1Length < CountMod

VARIABLES
  context,    \* the Ydigest, or NoContext
  out,        \* what the last call returned as the digest, <<>> if nothing
  message,    \* history: the bytes accepted since the last create or reset
  keyed,      \* history: created by Ydigest_create_mac and not reset since
  miscounted, \* history: SHA-1 did not count all of an update of the message
  appended    \* history: the bytes given to Ydigest_update in all

vars == <<context, out, message, keyed, miscounted, appended>>

MacModes == {"hmac_md5", "hmac_sha1"}
Engine(mode) == IF mode \in {"md5", "hmac_md5"} THEN "md5" ELSE "sha1"
Length(engine) == IF engine = "md5" THEN MD5Length ELSE SHA1Length

\* Bytes, by where they come from.
Undefined  == <<"undefined", 0, 0>>
Zero       == <<"zero", 0, 0>>
PaddingEnd == <<"0x80", 0, 0>>
k_ipad     == [i \in 1..BlockSize |-> <<"ipad", 0, i>>]
k_opad     == [i \in 1..BlockSize |-> <<"opad", 0, i>>]
Text(n)    == [i \in 1..n |-> <<"text", 0, appended + i>>]

\* The length at the end of the padding.  The order of its bytes, in which MD5
\* and SHA-1 differ, is left out.
LengthField(count) == [i \in 1..LengthSize |-> <<"length", count, i>>]

\* The digest that an engine in the given state writes.
Result(state) == [i \in 1..Length(state[1]) |-> <<"digest", state, i>>]

NoContext == [mode |-> "none"]
Created   == context.mode # "none"

Init ==
  /\ context = NoContext
  /\ out = <<>>
  /\ message = <<>>
  /\ keyed = FALSE
  /\ miscounted = FALSE
  /\ appended = 0

-----------------------------------------------------------------------------
(* The engines: state, the two words of the counter of bits, and the buffer *)

MD5Transform(state, block)  == Append(state, block)
SHA1Transform(state, block) == Append(state, block)

\* The initial values stand in front of the blocks; the buffer is not cleared.
EngineInit(engine, buffer) ==
  [state |-> <<engine>>, count |-> <<0, 0>>, buffer |-> buffer]

\* A loop of n turns: body gives the state after turn i from the one before it.
Repeat(body(_, _), start, n) ==
  LET run[i \in 0..n] == IF i = 0 THEN start ELSE body(run[i - 1], i)
  IN  run[n]

\* The number of bytes in the buffer.
Position(c) == (c.count[1] \div 8) % BlockSize

\* len << 3 and len >> 29 in a word.
Shl3(len)  == (8 * len) % CountMod
Shr29(len) == len \div (CountMod \div 8)

\* Mutant: the carry is not counted.
MD5Count_NoCarry(count, len) ==
  <<(count[1] + Shl3(len)) % CountMod, (count[2] + Shr29(len)) % CountMod>>

\* MD5 counts the carry out of the low word and the high bits of the length.
MD5Count(count, len) ==
  LET low   == (count[1] + Shl3(len)) % CountMod
      carry == IF low < count[1] THEN 1 ELSE 0
  IN  <<low, (count[2] + carry + Shr29(len)) % CountMod>>

\* One turn of the loop of MD5Update: c.mdi is its local variable.
MD5Byte(c, byte) ==
  LET in == [c.buffer EXCEPT ![c.mdi + 1] = byte]
  IN  IF c.mdi + 1 = BlockSize
      THEN [c EXCEPT !.state = MD5Transform(c.state, in), !.buffer = in, !.mdi = 0]
      ELSE [c EXCEPT !.buffer = in, !.mdi = @ + 1]

MD5Update(c, bytes) ==
  LET start == [state |-> c.state, buffer |-> c.buffer, mdi |-> Position(c)]
      end   == Repeat(LAMBDA d, i : MD5Byte(d, bytes[i]), start, Len(bytes))
  IN  [state  |-> end.state,
       count  |-> MD5Count(c.count, Len(bytes)),
       buffer |-> end.buffer]

\* The padding is at least one byte long and ends where the length begins.
MD5Final(c) ==
  LET mdi    == Position(c)
      room   == BlockSize - LengthSize
      padLen == IF mdi < room THEN room - mdi ELSE BlockSize + room - mdi
      padded == MD5Update(c, [i \in 1..padLen |->
                                IF i = 1 THEN PaddingEnd ELSE Zero])
      last   == SubSeq(padded.buffer, 1, room) \o LengthField(c.count)
  IN  [padded EXCEPT !.state = MD5Transform(@, last)]

\* SHA-1 counts the high bits of the length only together with a carry.
SHA1Count(count, len) ==
  LET low == (count[1] + Shl3(len)) % CountMod
  IN  IF low < count[1]
      THEN <<low, (count[2] + Shr29(len) + 1) % CountMod>>
      ELSE <<low, count[2]>>

\* memcpy of bytes to the buffer from position j on.
Copied(buffer, j, bytes) ==
  [k \in 1..BlockSize |->
     IF k \in (j + 1)..(j + Len(bytes)) THEN bytes[k - j] ELSE buffer[k]]

\* The bytes reach the end of the buffer.
Fills(j, len) == j + len > BlockSize - 1

SHA1Update(c, bytes) ==
  LET j      == Position(c)
      len    == Len(bytes)
      first  == BlockSize - j
      filled == Copied(c.buffer, j, SubSeq(bytes, 1, first))
      whole  == (len - first) \div BlockSize
      Block(k) == SubSeq(bytes, first + (k - 1) * BlockSize + 1,
                                first + k * BlockSize)
      rest   == SubSeq(bytes, first + whole * BlockSize + 1, len)
      count  == SHA1Count(c.count, len)
  IN  IF Fills(j, len)
      THEN [state  |-> Repeat(LAMBDA s, k : SHA1Transform(s, Block(k)),
                              SHA1Transform(c.state, filled), whole),
            count  |-> count,
            buffer |-> Copied(filled, 0, rest)]
      ELSE [c EXCEPT !.count = count, !.buffer = Copied(@, j, bytes)]

\* Zeros are added one by one until the length fits the end of the block.
SHA1Final(c) ==
  LET AddZero(d, i) == IF Position(d) = BlockSize - LengthSize THEN d
                       ELSE SHA1Update(d, <<Zero>>)
      marked == SHA1Update(c, <<PaddingEnd>>)
      padded == Repeat(AddZero, marked, BlockSize)
  IN  SHA1Update(padded, LengthField(c.count))

-----------------------------------------------------------------------------
(* Ydigest *)

EngineUpdate(mode, c, bytes) ==
  IF Engine(mode) = "md5" THEN MD5Update(c, bytes) ELSE SHA1Update(c, bytes)

EngineFinal(mode, c) ==
  IF Engine(mode) = "md5" THEN MD5Final(c) ELSE SHA1Final(c)

\* Mutant: the context remains finalized.
Reset_KeepsFinalized(c, mode) ==
  [c EXCEPT !.engine = EngineInit(Engine(mode), c.engine.buffer),
            !.length = Length(Engine(mode)),
            !.mode = mode]

Reset(c, mode) ==
  [c EXCEPT !.engine = EngineInit(Engine(mode), c.engine.buffer),
            !.length = Length(Engine(mode)),
            !.mode = mode,
            !.finalized = FALSE]

\* What malloc returns: nothing of it is initialised.
Allocated ==
  [mode |-> "none", finalized |-> FALSE, length |-> 0,
   digest |-> [i \in 1..Max({MD5Length, SHA1Length}) |-> Undefined],
   opad   |-> [i \in 1..BlockSize |-> Undefined],
   engine |-> EngineInit("none", [i \in 1..BlockSize |-> Undefined])]

Ydigest_create(mode) ==
  /\ ~ Created
  /\ context' = Reset(Allocated, mode)
  /\ out' = <<>>
  /\ message' = <<>>
  /\ keyed' = FALSE
  /\ miscounted' = FALSE
  /\ UNCHANGED appended

\* The key, padded and combined with 0x36, is the first block of the engine.
Ydigest_create_mac(mode) ==
  /\ ~ Created
  /\ LET c == Reset(Allocated, mode)
     IN  context' = [c EXCEPT !.opad = k_opad,
                              !.engine = EngineUpdate(mode, @, k_ipad)]
  /\ out' = <<>>
  /\ message' = <<>>
  /\ keyed' = TRUE
  /\ miscounted' = FALSE
  /\ UNCHANGED appended

\* A caller does not switch between MAC and non-MAC modes (digest.h).
Ydigest_reset(mode) ==
  /\ Created
  /\ mode \in MacModes <=> context.mode \in MacModes
  /\ context' = Reset(context, mode)
  /\ out' = <<>>
  /\ message' = <<>>
  /\ keyed' = FALSE
  /\ miscounted' = FALSE
  /\ UNCHANGED appended

\* What the engine was given since the context was created or reset.
Input == (IF keyed THEN k_ipad ELSE <<>>) \o message

\* SHA-1 drops the bits of an update of n bytes that do not fit the low word,
\* unless the others overflow it, after as many bytes as were given before.
Miscounts(engine, given, n) ==
  engine = "sha1" /\ Shr29(n) > 0 /\ ((8 * given) % CountMod) + Shl3(n) < CountMod

\* A finalized context takes no more bytes.
Refused == context.finalized

Ydigest_update(n) ==
  /\ Created
  /\ appended + n <= MaxBytes
  /\ appended' = appended + n
  /\ IF Refused
     THEN UNCHANGED <<context, message, miscounted>>
     ELSE /\ context' = [context EXCEPT
                           !.engine = EngineUpdate(context.mode, @, Text(n))]
          /\ message' = message \o Text(n)
          /\ miscounted' =
               (miscounted \/ Miscounts(Engine(context.mode), Len(Input), n))
  /\ out' = <<>>
  /\ UNCHANGED keyed

\* The engine that computes the outer digest of a MAC.
OuterEngine(c, engine) == EngineInit(engine, c.buffer)

\* The engine after the computation of Ydigest_final.
Finished(c) ==
  LET inner == EngineFinal(c.mode, c.engine)
      outer == EngineUpdate(c.mode,
                 EngineUpdate(c.mode, OuterEngine(inner, Engine(c.mode)), c.opad),
                 Result(inner.state))
  IN  IF c.mode \in MacModes THEN EngineFinal(c.mode, outer) ELSE inner

\* Ydigest_final.
Finalized(c) ==
  IF c.finalized THEN c
  ELSE LET engine == Finished(c)
           result == Result(engine.state)
       IN  [c EXCEPT !.engine = engine,
                     !.digest = result \o SubSeq(@, Len(result) + 1, Len(@)),
                     !.finalized = TRUE]

Ydigest_final ==
  /\ Created
  /\ context' = Finalized(context)
  /\ UNCHANGED <<out, message, keyed, miscounted, appended>>

\* Ydigest_hex does the same and writes the bytes in hexadecimal.
Ydigest_digest ==
  /\ Created
  /\ context' = Finalized(context)
  /\ out' = SubSeq(context'.digest, 1, context.length)
  /\ UNCHANGED <<message, keyed, miscounted, appended>>

Ydigest_release ==
  /\ Created
  /\ context' = NoContext
  /\ out' = <<>>
  /\ message' = <<>>
  /\ keyed' = FALSE
  /\ miscounted' = FALSE
  /\ UNCHANGED appended

Next ==
  \/ \E mode \in Modes \ MacModes : Ydigest_create(mode)
  \/ \E mode \in Modes \cap MacModes : Ydigest_create_mac(mode)
  \/ \E mode \in Modes : Ydigest_reset(mode)
  \/ \E n \in Sizes : Ydigest_update(n)
  \/ Ydigest_final
  \/ Ydigest_digest
  \/ Ydigest_release

Spec == Init /\ [][Next]_vars

-----------------------------------------------------------------------------
(* The reference: the digest of a whole message at once *)

\* The two words of the number of bits of n bytes.
Bits(n) == <<(8 * n) % CountMod, ((8 * n) \div CountMod) % CountMod>>

\* The whole blocks at the front of a sequence of bytes.
Blocks(bytes) ==
  [k \in 1..(Len(bytes) \div BlockSize) |->
     SubSeq(bytes, (k - 1) * BlockSize + 1, k * BlockSize)]

\* The bytes with 0x80, as few zeros as make the length end a block, and the
\* length.
Padded(bytes) ==
  LET zeros == (BlockSize - ((Len(bytes) + 1 + LengthSize) % BlockSize)) % BlockSize
  IN  bytes \o <<PaddingEnd>> \o [i \in 1..zeros |-> Zero]
            \o LengthField(Bits(Len(bytes)))

Digest(engine, bytes) == Result(<<engine>> \o Blocks(Padded(bytes)))

Mac(engine, bytes) ==
  Digest(engine, k_opad \o Digest(engine, k_ipad \o bytes))

Expected(mode, bytes) ==
  IF mode \in MacModes THEN Mac(Engine(mode), bytes)
  ELSE Digest(Engine(mode), bytes)

-----------------------------------------------------------------------------
(* What the module checks *)

TypeOK ==
  /\ keyed \in BOOLEAN /\ miscounted \in BOOLEAN
  /\ appended \in 0..MaxBytes
  /\ Created =>
       /\ context.mode \in Modes
       /\ context.finalized \in BOOLEAN
       /\ context.length = Length(Engine(context.mode))
       /\ Len(context.digest) = Max({MD5Length, SHA1Length})
       /\ Len(context.engine.buffer) = BlockSize
       /\ \A w \in 1..2 : context.engine.count[w] \in 0..(CountMod - 1)

\* Until it is finalized, the engine has transformed the whole blocks of what it
\* was given, holds the rest in its buffer and counts all of it: however the
\* message was cut into updates, no byte is dropped, repeated or left over from
\* an earlier message, and the counter survives the overflow of its low word.
\* Only the high word of SHA-1 may be wrong, after an update of 2^29 bytes or more.
EngineHoldsMessage ==
  /\ TypeOK
  /\ Created /\ ~ context.finalized =>
     LET rest == Len(Input) % BlockSize
     IN /\ context.engine.state = <<Engine(context.mode)>> \o Blocks(Input)
        /\ context.engine.count[1] = Bits(Len(Input))[1]
        /\ ~ miscounted => context.engine.count = Bits(Len(Input))
        /\ SubSeq(context.engine.buffer, 1, rest) =
             SubSeq(Input, Len(Input) - rest + 1, Len(Input))

\* What Ydigest_digest returns is the digest or the MAC of the bytes accepted
\* since the context was created or reset, whichever calls came in between and
\* whatever the context was used for before.  There are two exceptions: a MAC context
\* that was reset, which Ydigest_reset does not give the inner padding again, and a
\* message of which SHA-1 miscounted an update.
OutputIsDigest ==
  out # <<>> /\ (context.mode \in MacModes => keyed) /\ ~ miscounted =>
    out = Expected(context.mode, message)

=============================================================================

------------------------------ MODULE Ybuffer -------------------------------
(***************************************************************************)
(* The growing byte buffer of src/core/ybuffer.c, in the memory of Ymem.   *)
(*                                                                         *)
(* The struct of a buffer is a block of one byte, so that it can be        *)
(* refused and leaked; its fields are the record buffer.  A call of        *)
(* Ybuffer_append is an operator on a buffer and a heap, the set of its    *)
(* outcomes, for the functions that call it.  Lengths do not reach the     *)
(* limit of an int.                                                        *)
(***************************************************************************)
EXTENDS Ymem

CONSTANTS
  InitialLengths,     \* what callers pass to Ybuffer_init
  DefaultIncrement,   \* 64: by how much a buffer grows that starts empty
  Values,             \* the integers they append
  MaxText             \* bound on the bytes in a buffer of theirs

ASSUME YbufferAssumption ==
  /\ InitialLengths \subseteq Int
  /\ DefaultIncrement \in Nat \ {0}
  /\ \A v \in Values : v \in Int /\ -2147483647 - 1 <= v /\ v <= 2147483647
  /\ MaxText \in Nat

VARIABLES
  buffer,    \* the Ybuffer, or NoBuffer
  text,      \* history: what the calls that succeeded have appended
  detached   \* the memory that Ybuffer_detach returned last, or NULL

bufferVars == <<buffer, text, detached>>

NoBuffer ==
  [self |-> NULL, data |-> NULL, datalen |-> 0, dataincr |-> 0, pos |-> 0, status |-> "closed"]

\* An outcome: the fields of the buffer and the heap.
Left(b, h) == [b |-> b, h |-> h]

\* memcpy of s to offset pos; a write outside of the block does not show.
Write(h, p, pos, s) ==
  [h EXCEPT ![p] = [i \in 1..Len(@) |->
                      IF i \in (pos + 1)..(pos + Len(s)) THEN s[i - pos] ELSE @[i]]]

-----------------------------------------------------------------------------
(* Ybuffer_init *)

New(self, data, datalen, dataincr) ==
  [self |-> self, data |-> data, datalen |-> datalen, dataincr |-> dataincr,
   pos |-> 0, status |-> "ok"]

\* Mutant: the struct is not freed when the data cannot be allocated.
WithData_KeepsStruct(h, self, n) ==
  {IF d.ptr = NULL THEN Left(NoBuffer, d.heap)
   ELSE Left(New(self, d.ptr, n, n), d.heap) : d \in Ymem_malloc(h, n)}

\* The data is allocated, or the struct is freed again.
WithData(h, self, n) ==
  {IF d.ptr = NULL THEN Left(NoBuffer, Ymem_free(d.heap, self))
   ELSE Left(New(self, d.ptr, n, n), d.heap) : d \in Ymem_malloc(h, n)}

InitOutcomes(h, n) ==
  UNION {IF r.ptr = NULL THEN {Left(NoBuffer, r.heap)}
         ELSE IF n <= 0 THEN {Left(New(r.ptr, NULL, 0, DefaultIncrement), r.heap)}
         ELSE WithData(r.heap, r.ptr, n) : r \in Ymem_malloc(h, 1)}

-----------------------------------------------------------------------------
(* Ybuffer_append and Ybuffer_append_format *)

\* The new length, when n more bytes are to come.
NewLength(b, n) ==
  LET newlen == b.datalen + b.dataincr
  IN  IF b.pos + n >= newlen - 1 THEN b.pos + n + 1 ELSE newlen

\* Both enlarge the data in the same way; an error is for ever.
Grow(b, h, n) ==
  {IF r.ptr = NULL THEN Left([b EXCEPT !.status = "error"], r.heap)
   ELSE Left([b EXCEPT !.data = r.ptr, !.datalen = NewLength(b, n)], r.heap) :
     r \in Ymem_realloc(h, b.data, NewLength(b, n))}

\* The bytes of s and a NUL are put at the end, if there was no error.
PutEnd(g, s) ==
  IF g.b.status # "ok" THEN g
  ELSE Left([g.b EXCEPT !.pos = @ + Len(s)], Write(g.h, g.b.data, g.b.pos, s \o <<NUL>>))

\* Mutant: no room is kept for the NUL.
NeedsRoom_OffByOne(b, n) == b.pos + n > b.datalen

NeedsRoom(b, n) == b.pos + n >= b.datalen - 1

AppendString(b, h, s) ==
  IF b.status # "ok" THEN {Left(b, h)}
  ELSE {PutEnd(g, s) : g \in IF NeedsRoom(b, Len(s)) THEN Grow(b, h, Len(s)) ELSE {Left(b, h)}}

\* A length is given: 0 appends nothing.
AppendBytes(b, h, s) == IF s = <<>> THEN {Left(b, h)} ELSE AppendString(b, h, s)

\* vsnprintf writes what fits and a NUL, before the buffer grows; then it
\* writes again.
AppendFormat(b, h, s) ==
  LET space     == b.datalen - b.pos
      truncated == IF space <= 0 THEN h
                   ELSE Write(h, b.data, b.pos, SubSeq(s, 1, space - 1) \o <<NUL>>)
  IN  IF b.status # "ok" THEN {Left(b, h)}
      ELSE IF Len(s) < space THEN {PutEnd(Left(b, h), s)}
      ELSE {PutEnd(g, s) : g \in Grow(b, truncated, Len(s))}

\* The characters that snprintf makes of an int, which has at most ten digits.
PowerOfTen == <<1000000000, 100000000, 10000000, 1000000, 100000, 10000, 1000, 100, 10, 1>>

Digits(n) ==
  LET all     == [i \in 1..10 |-> 48 + ((n \div PowerOfTen[i]) % 10)]
      leading == {i \in 1..9 : n < PowerOfTen[i]}
  IN  SubSeq(all, Cardinality(leading) + 1, 10)

Decimal(n) == IF n < 0 THEN <<45>> \o Digits(-n) ELSE Digits(n)

-----------------------------------------------------------------------------
(* A caller with a buffer *)

YbufferInit ==
  /\ buffer = NoBuffer
  /\ text = <<>>
  /\ detached = NULL

Ybuffer_init(n) ==
  /\ buffer = NoBuffer
  /\ detached = NULL
  /\ \E o \in InitOutcomes(heap, n) : buffer' = o.b /\ heap' = o.h
  /\ text' = <<>>
  /\ UNCHANGED <<held, lost, detached>>

\* One of the outcomes of an append of s.
Becomes(outcomes, s) ==
  /\ \E o \in outcomes :
       /\ buffer' = o.b
       /\ heap' = o.h
       /\ text' = IF o.b.status = "ok" THEN text \o s ELSE text
  /\ UNCHANGED <<held, lost, detached>>

HasRoom(s) == buffer # NoBuffer /\ Len(text \o s) <= MaxText

\* Of a string without a length, the length is taken first and may be 0.
Ybuffer_append(s) ==
  HasRoom(s) /\ Becomes(AppendBytes(buffer, heap, s) \cup AppendString(buffer, heap, s), s)

Ybuffer_append_format(s) == HasRoom(s) /\ Becomes(AppendFormat(buffer, heap, s), s)

Ybuffer_append_integer(n) ==
  HasRoom(Decimal(n)) /\ Becomes(AppendBytes(buffer, heap, Decimal(n)), Decimal(n))

Ybuffer_detach ==
  /\ buffer # NoBuffer
  /\ detached' = buffer.data
  /\ heap' = Ymem_free(heap, buffer.self)
  /\ buffer' = NoBuffer
  /\ UNCHANGED <<held, lost, text>>

Ybuffer_fini ==
  /\ buffer # NoBuffer
  /\ heap' = Ymem_free(Ymem_free(heap, buffer.self), buffer.data)
  /\ buffer' = NoBuffer
  /\ UNCHANGED <<held, lost, text, detached>>

\* The caller frees the memory it was given.
FreeDetached ==
  /\ detached # NULL
  /\ heap' = Ymem_free(heap, detached)
  /\ detached' = NULL
  /\ UNCHANGED <<held, lost, buffer, text>>

YbufferNext ==
  \/ \E n \in InitialLengths : Ybuffer_init(n)
  \/ \E s \in Texts : Ybuffer_append(s) \/ Ybuffer_append_format(s)
  \/ \E n \in Values : Ybuffer_append_integer(n)
  \/ Ybuffer_detach
  \/ Ybuffer_fini

-----------------------------------------------------------------------------
(* What a caller may count on *)

\* The C string at p, or a part of it if the block ends before a NUL.
CString(h, p) ==
  LET end == SelectInSeq(h[p], LAMBDA c : c = NUL)
  IN  IF end = 0 THEN h[p] ELSE SubSeq(h[p], 1, end - 1)

\* The buffer holds what was appended, all or nothing of each text, in memory of
\* the length it believes to have.  It stays a C string once something was
\* appended: the text ends with a NUL, and after an error there is at least one
\* in the memory.
BufferHoldsText ==
  buffer # NoBuffer =>
    /\ buffer.status \in {"ok", "error"}
    /\ buffer.pos = Len(text)
    /\ buffer.data = NULL => buffer.datalen = 0 /\ text = <<>>
    /\ buffer.data # NULL =>
         /\ Len(heap[buffer.data]) = buffer.datalen
         /\ SubSeq(heap[buffer.data], 1, buffer.pos) = text
         /\ text # <<>> /\ buffer.status = "ok" =>
              buffer.pos < buffer.datalen /\ heap[buffer.data][buffer.pos + 1] = NUL
         /\ text # <<>> /\ buffer.status = "error" =>
              NUL \in ToSet(SubSeq(heap[buffer.data], buffer.pos + 1, buffer.datalen))

\* Every block of the heap has exactly one owner: no call leaks memory when one
\* of its allocations fails, or keeps a pointer to memory that it has freed.
\* The exception are the blocks that Ymem_malloc_aligned loses.  Callers leave the
\* struct alone after Ybuffer_fini: ybuffer.h says that it may be freed then, but
\* Ybuffer_fini has freed it.
HeapIsOwned ==
  LET owners == <<{m.ptr : m \in held}, {buffer.self} \ {NULL}, {buffer.data} \ {NULL},
                  {detached} \ {NULL}, lost>>
  IN  /\ Allocated(heap) = UNION ToSet(owners)
      /\ \A i, j \in DOMAIN owners : i # j => owners[i] \cap owners[j] = {}
=============================================================================

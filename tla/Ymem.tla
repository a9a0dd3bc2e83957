-------------------------------- MODULE Ymem --------------------------------
(***************************************************************************)
(* The allocator of src/core/yalloc.c over malloc, realloc and free.       *)
(*                                                                         *)
(* A block is named by its address, a number, so that its alignment shows. *)
(* The heap gives the bytes of each block, <<>> if it is free.  A call is  *)
(* an operator on a heap: the set of its outcomes, each a record with the  *)
(* pointer that is returned and the heap that is left, so that functions   *)
(* that call it twice can be written.                                      *)
(*                                                                         *)
(* The callers pass alignments that are powers of 2, to Ymem_calloc a      *)
(* number of members above 0 (it divides by it), and to                    *)
(* Ymem_malloc_aligned sizes whose sum with the alignment does not         *)
(* overflow.                                                               *)
(***************************************************************************)
EXTENDS Integers, FiniteSets, SequencesExt

CONSTANTS
  Block,        \* the addresses of blocks (bound)
  SizeMod,      \* 2^64: a size_t is in 0 .. SizeMod - 1
  Sizes,        \* the sizes that callers ask for
  Counts,       \* the numbers of members they ask for
  Alignments,
  Texts,        \* the strings they have, without the NUL at the end
  MaxHeld,      \* bound on the blocks that a caller of Ymem holds
  OutOfMemory   \* can malloc and realloc fail while a block is free?

ASSUME YmemAssumption ==
  /\ Block \subseteq Nat \ {0}
  /\ SizeMod \in Nat \ {0}
  /\ Sizes \subseteq 0..(SizeMod - 1)
  /\ Counts \subseteq 1..(SizeMod - 1)
  /\ Alignments \subseteq Nat \ {0}
  /\ \A n \in Sizes, a \in Alignments : n + a < SizeMod
  /\ Texts \subseteq Seq(1..255)
  /\ MaxHeld \in Nat
  /\ OutOfMemory \in BOOLEAN

VARIABLES
  heap,   \* the bytes of each block
  held,   \* what a caller of Ymem holds: pointer, usable pointer, size, alignment
  lost    \* history: blocks to which no pointer is left

memVars == <<heap, held, lost>>

NULL == 0
NUL  == 0
Junk == -1     \* a byte that nobody has written

Uninitialised(n) == [i \in 1..n |-> Junk]
Allocated(h)     == {b \in Block : h[b] # <<>>}
Outcome(p, h)    == [ptr |-> p, heap |-> h]
NoMemory(h) ==
  IF OutOfMemory \/ Allocated(h) = Block THEN {Outcome(NULL, h)} ELSE {}

Ymem_free(h, p) == IF p = NULL THEN h ELSE [h EXCEPT ![p] = <<>>]

Ymem_malloc(h, n) ==
  IF n = 0 THEN {Outcome(NULL, h)}
  ELSE NoMemory(h) \cup
       {Outcome(b, [h EXCEPT ![b] = Uninitialised(n)]) : b \in Block \ Allocated(h)}

\* The block may grow in place or move.  Unlike realloc, a size of 0 frees
\* nothing.
Ymem_realloc(h, p, n) ==
  IF n = 0 THEN {Outcome(NULL, h)}
  ELSE IF p = NULL THEN Ymem_malloc(h, n)
  ELSE LET bytes == SubSeq(h[p] \o Uninitialised(n), 1, n)
       IN  NoMemory(h) \cup
           {Outcome(b, [h EXCEPT ![p] = <<>>, ![b] = bytes]) :
              b \in {p} \cup (Block \ Allocated(h))}

Ymem_strdup(h, s) ==
  {IF r.ptr = NULL THEN r ELSE [r EXCEPT !.heap[r.ptr] = s \o <<NUL>>] :
     r \in Ymem_malloc(h, Len(s) + 1)}

Ymem_calloc(h, nmemb, size) ==
  LET l == (nmemb * size) % SizeMod
  IN  IF size > (SizeMod - 1) \div nmemb \/ l < nmemb \/ l < size
      THEN {Outcome(NULL, h)}
      ELSE {IF r.ptr = NULL THEN r ELSE [r EXCEPT !.heap[r.ptr] = [i \in 1..l |-> 0]] :
              r \in Ymem_malloc(h, l)}

-----------------------------------------------------------------------------
(* Aligned memory *)

\* The mask of a power of 2.
PointerOffset(p, alignment) ==
  IF p = NULL \/ alignment <= 1 THEN 0 ELSE p % alignment

PointerAlign(p, alignment) ==
  LET n == PointerOffset(p, alignment)
  IN  IF n = 0 THEN p ELSE p + (alignment - n)

Ymem_isaligned(p, alignment) == PointerOffset(p, alignment) = 0

\* Mutant: the second block is not larger than the first one.
Ymem_malloc_aligned_NoSlack(h, alignment, n) ==
  {[ptr |-> r.ptr, at |-> PointerAlign(r.ptr, alignment), heap |-> r.heap, lost |-> {}] :
     r \in Ymem_malloc(h, n)}

\* A block that is not aligned is enlarged.  If that fails, the pointer to the
\* first block is overwritten with NULL and the block is lost.
Ymem_malloc_aligned(h, alignment, n) ==
  LET Given(r, at, l) == [ptr |-> r.ptr, at |-> at, heap |-> r.heap, lost |-> l]
      first == Ymem_malloc(h, n)
      Enlarged(r) ==
        {Given(q, PointerAlign(q.ptr, alignment),
               IF q.ptr = NULL /\ r.ptr # NULL THEN {r.ptr} ELSE {}) :
           q \in Ymem_realloc(r.heap, r.ptr, (n + alignment) % SizeMod)}
      Good(r) == n = 0 \/ alignment <= 1 \/ (r.ptr # NULL /\ Ymem_isaligned(r.ptr, alignment))
  IN  {Given(r, r.ptr, {}) : r \in {q \in first : Good(q)}}
      \cup UNION {Enlarged(r) : r \in {q \in first : ~ Good(q)}}

-----------------------------------------------------------------------------
(* A caller of Ymem *)

YmemInit ==
  /\ heap = [b \in Block |-> <<>>]
  /\ held = {}
  /\ lost = {}

\* The caller holds what it was given, unless that is NULL.
Hold(r, at, size, alignment) ==
  /\ heap' = r.heap
  /\ held' = IF r.ptr = NULL THEN held
             ELSE held \cup {[ptr |-> r.ptr, at |-> at, size |-> size, alignment |-> alignment]}

Allocate(n) ==
  \E r \in Ymem_malloc(heap, n) : Hold(r, r.ptr, n, 1) /\ UNCHANGED lost

AllocateMembers(nmemb, size) ==
  \E r \in Ymem_calloc(heap, nmemb, size) :
    Hold(r, r.ptr, nmemb * size, 1) /\ UNCHANGED lost

AllocateString(s) ==
  \E r \in Ymem_strdup(heap, s) : Hold(r, r.ptr, Len(s) + 1, 1) /\ UNCHANGED lost

AllocateAligned(alignment, n) ==
  \E r \in Ymem_malloc_aligned(heap, alignment, n) :
    Hold(r, r.at, n, alignment) /\ lost' = lost \cup r.lost

Resize(m, n) ==
  /\ m.alignment = 1
  /\ \E r \in Ymem_realloc(heap, m.ptr, n) :
       /\ heap' = r.heap
       /\ held' = IF r.ptr = NULL THEN held
                  ELSE (held \ {m}) \cup {[m EXCEPT !.ptr = r.ptr, !.at = r.ptr, !.size = n]}
  /\ UNCHANGED lost

GiveBack(m) ==
  /\ heap' = Ymem_free(heap, m.ptr)
  /\ held' = held \ {m}
  /\ UNCHANGED lost

YmemNext ==
  \/ /\ Cardinality(held) < MaxHeld
     /\ \/ \E n \in Sizes :
             \/ Allocate(n)
             \/ \E nmemb \in Counts : AllocateMembers(nmemb, n)
             \/ \E alignment \in Alignments : AllocateAligned(alignment, n)
        \/ \E s \in Texts : AllocateString(s)
  \/ \E m \in held : GiveBack(m) \/ \E n \in Sizes : Resize(m, n)

-----------------------------------------------------------------------------
(* What a caller may count on *)

\* From the pointer it is to use, which is aligned as it asked, the caller has
\* as many bytes as it asked for, whichever of two allocations they came from:
\* sums and products of sizes do not overflow, and the alignment does not push
\* the memory past the end of its block.
HoldsWhatWasAsked ==
  \A m \in held :
    /\ Ymem_isaligned(m.at, m.alignment)
    /\ m.ptr <= m.at
    /\ m.at + m.size <= m.ptr + Len(heap[m.ptr])
=============================================================================

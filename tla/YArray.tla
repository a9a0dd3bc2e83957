------------------------------- MODULE YArray -------------------------------
(***************************************************************************)
(* The growing array of src/struct/array.c, and who owns the elements that *)
(* pass through it: the caller until YArray_append, the array until        *)
(* YArray_detach, YArray_prune, YArray_reset or YArray_release.            *)
(*                                                                         *)
(* The caller appends an element only while it owns it, as the array keeps *)
(* the pointer and may release the element.                                *)
(***************************************************************************)
EXTENDS Integers, Sequences, FiniteSets

CONSTANTS
  Element,         \* the elements of the callers
  NULL,
  InitialLengths,  \* the initial lengths that callers ask for
  Step,            \* how much a small array grows (64)
  MaxLength        \* bound on the length

ASSUME YArrayAssumption ==
  /\ NULL \notin Element
  /\ InitialLengths \subseteq Int
  /\ Step \in Nat
  /\ Step >= 4
  /\ MaxLength \in Nat

VARIABLES
  exists,     \* the array has been created and not been released
  elements,   \* array->elements[0 .. length - 1]
  slots,      \* the number of elements the memory at array->elements can hold
  maxlength,  \* array->maxlength
  releases,   \* is array->releaseElement set?
  status      \* each element: "caller", "array" (its owner), or "released"

arrayVars == <<exists, elements, slots, maxlength, releases, status>>

length == Len(elements)

ArrayInit ==
  /\ exists = FALSE
  /\ elements = <<>>
  /\ slots = 0
  /\ maxlength = 0
  /\ releases = FALSE
  /\ status = [e \in Element |-> "caller"]

\* YArray_createLength.  A negative length is kept in maxlength; if the memory
\* for the elements cannot be allocated the array starts without any.
YArray_createLength(initlength) ==
  /\ ~ exists
  /\ exists' = TRUE
  /\ elements' = <<>>
  /\ \/ /\ initlength <= 0
        /\ slots' = 0
        /\ maxlength' = initlength
     \/ /\ initlength > 0
        /\ slots' \in {0, initlength}
        /\ maxlength' = slots'
  /\ releases' = FALSE
  /\ UNCHANGED status

NewLength == IF maxlength < Step THEN maxlength + Step
             ELSE maxlength + (maxlength \div 4)

\* Mutant: appends where the length equals the maximum already.
AppendInPlace_OffByOne ==
  /\ length <= maxlength
  /\ UNCHANGED <<slots, maxlength>>

AppendInPlace ==
  /\ length < maxlength
  /\ UNCHANGED <<slots, maxlength>>

\* The memory is reallocated: never for 0 bytes (Ymem_realloc) or for a negative
\* number of them, which is a huge size_t.
AppendGrown ==
  /\ length >= maxlength
  /\ NewLength > 0
  /\ slots' = NewLength
  /\ maxlength' = NewLength

YArray_append(e) ==
  /\ exists
  /\ length < MaxLength
  /\ status[e] = "caller"
  /\ AppendInPlace \/ AppendGrown
  /\ elements' = Append(elements, e)
  /\ status' = [status EXCEPT ![e] = "array"]
  /\ UNCHANGED <<exists, releases>>

\* The memory is not reallocated and the array stays as it is.
AppendFails(e) ==
  /\ exists
  /\ status[e] = "caller"
  /\ length >= maxlength
  /\ UNCHANGED arrayVars

\* Mutant: keeps the pointer that it returns.
YArray_detach_KeepsPointer(n) ==
  /\ exists
  /\ elements' = elements
  /\ status' = [e \in Element |-> IF e = elements[n] THEN "caller" ELSE status[e]]
  /\ UNCHANGED <<exists, slots, maxlength, releases>>

\* Positions count from 1 here.  Beyond the length, and where the element was
\* taken already, nothing happens.
YArray_detach(n) ==
  /\ exists
  /\ elements' = [elements EXCEPT ![n] = NULL]
  /\ status' = [e \in Element |-> IF e = elements[n] THEN "caller" ELSE status[e]]
  /\ UNCHANGED <<exists, slots, maxlength, releases>>

\* Whose element it is after the array gave it up.
GivenUp == IF releases THEN "released" ELSE "caller"

\* Mutant: the pointer to the released element stays.
YArray_prune_KeepsPointer(n) ==
  /\ exists
  /\ elements[n] # NULL
  /\ elements' = elements
  /\ status' = [e \in Element |-> IF e = elements[n] THEN GivenUp ELSE status[e]]
  /\ UNCHANGED <<exists, slots, maxlength, releases>>

YArray_prune(n) ==
  /\ exists
  /\ elements[n] # NULL
  /\ elements' = [elements EXCEPT ![n] = NULL]
  /\ status' = [e \in Element |-> IF e = elements[n] THEN GivenUp ELSE status[e]]
  /\ UNCHANGED <<exists, slots, maxlength, releases>>

\* The memory of the elements stays allocated for the next append.
Reset ==
  /\ elements' = <<>>
  /\ status' = [e \in Element |->
                  IF \E n \in 1..length : elements[n] = e THEN GivenUp ELSE status[e]]

YArray_reset ==
  /\ exists
  /\ Reset
  /\ UNCHANGED <<exists, slots, maxlength, releases>>

\* YArray_release resets the array, whatever the caller did before.
YArray_release ==
  /\ exists
  /\ Reset
  /\ exists' = FALSE
  /\ slots' = 0
  /\ maxlength' = 0
  /\ releases' = FALSE

YArray_setElementReleaseFunc(b) ==
  /\ exists
  /\ releases' = b
  /\ UNCHANGED <<exists, elements, slots, maxlength, status>>

\* The caller allocates a new element where a released one was.
NewElement(e) ==
  /\ status[e] = "released"
  /\ status' = [status EXCEPT ![e] = "caller"]
  /\ UNCHANGED <<exists, elements, slots, maxlength, releases>>

ArrayNext ==
  \/ \E n \in InitialLengths : YArray_createLength(n)
  \/ \E e \in Element : YArray_append(e) \/ AppendFails(e) \/ NewElement(e)
  \/ \E n \in 1..length : YArray_detach(n) \/ YArray_prune(n)
  \/ YArray_reset
  \/ YArray_release
  \/ \E b \in BOOLEAN : YArray_setElementReleaseFunc(b)

ArraySpec == ArrayInit /\ [][ArrayNext]_arrayVars

-----------------------------------------------------------------------------
(* What the module checks *)

ArrayTypeOK ==
  /\ exists \in BOOLEAN
  /\ elements \in Seq(Element \cup {NULL})
  /\ slots \in Nat
  /\ maxlength \in Int
  /\ releases \in BOOLEAN
  /\ status \in [Element -> {"caller", "array", "released"}]

\* Every element that the array holds is within the memory it allocated, after
\* any series of appends, failed reallocations and resets.
InBounds == length <= slots

\* The array holds the pointers of exactly the elements it owns, each once, so
\* that none is forgotten, and none released twice or behind the caller's back.
HeldIsOwned ==
  /\ \A e \in Element :
       status[e] = "array" <=> \E n \in 1..length : elements[n] = e
  /\ \A m, n \in 1..length : elements[m] = elements[n] /\ elements[m] # NULL => m = n
  /\ ~ exists => elements = <<>>

\* The element release function is called with an element of the array only,
\* never with one that its caller detached or that was released before.
OnlyOwnedIsReleased ==
  [][\A e \in Element :
       status[e] # "released" /\ status'[e] = "released" => status[e] = "array"]_arrayVars
=============================================================================

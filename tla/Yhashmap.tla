------------------------------ MODULE Yhashmap ------------------------------
(***************************************************************************)
(* The hash map of src/struct/hashmap.c: buckets of chained entries, a     *)
(* copy of each key and of each value on the heap, searches that walk the  *)
(* chains, and the lock that its callers take around everything else.      *)
(*                                                                         *)
(* Data is abstracted: a chain of entries linked by their next fields is a *)
(* sequence; a key (bytes and length) is a member of Key, with EmptyKey    *)
(* for every key without bytes, NULL or not (equalKeys treats them alike); *)
(* the contents of a value with bytes are a member of Value.  The bytes of *)
(* a key matter to its hash, which hash_lookup3 computes from the caller's *)
(* copy of the key, at any address p.                                      *)
(*                                                                         *)
(* The callers follow hashmap.h: they lock the map around each use, keep a *)
(* search only as long as they hold the lock, and call Yhashmap_next only  *)
(* while the entry that their search returned last is still in the map.    *)
(* The functions that only read (size, contain, collisions, key, value)    *)
(* change nothing and have no action.                                      *)
(***************************************************************************)
EXTENDS Lookup3, SequencesExt, FiniteSets

CONSTANTS
  Thread, NoThread,
  Key, EmptyKey, NoKey,
  Value, Free,
  Entry,          \* addresses of entries (bound on the entries at once)
  Block,          \* addresses of value copies (bound)
  NULL,
  Search,         \* the YhashmapSearch objects of the callers
  Bytes,          \* the bytes of each key
  Address,        \* where the callers keep the keys they pass
  Capacities,     \* the initial capacities that callers ask for
  PowerOfTwo,     \* the bucket counts (bound)
  IntLimit,       \* an int is in -IntLimit .. IntLimit - 1
  SizeLimit,      \* a size_t is in 0 .. SizeLimit - 1
  OutOfMemory     \* can an allocation fail?

ASSUME YhashmapAssumption ==
  /\ NoThread \notin Thread
  /\ NoKey \notin Key
  /\ EmptyKey \in Key
  /\ Free \notin Value
  /\ "absent" \notin Value    \* a mark of the dictionary below
  /\ NULL \notin Entry \cup Block
  /\ \A k \in Key : Bytes[k] \in Seq(0..255) /\ (Bytes[k] = <<>> <=> k = EmptyKey)
  /\ \A k, l \in Key : Bytes[k] = Bytes[l] => k = l
  /\ Address \subseteq Nat
  /\ \A k \in Key, p \in Address : hash_lookup3(p, Bytes[k]) \in Nat
  /\ IsFiniteSet(Entry)
  /\ IntLimit \in Nat /\ IntLimit > 8 /\ SizeLimit \in Nat /\ SizeLimit >= IntLimit
  /\ Capacities \subseteq -IntLimit..(IntLimit - 1)
  /\ PowerOfTwo \subseteq 1..(SizeLimit - 1)
  /\ OutOfMemory \in BOOLEAN

VARIABLES
  exists,    \* the map has been created and not been released
  owner,     \* the thread that holds map->lock
  chain,     \* the entries of each bucket, in the order of their next fields
  size,      \* map->size
  entryMem,  \* the entries that are allocated
  keyMem,    \* the entries whose key copy is allocated
  key,       \* entry->key
  hash,      \* entry->hash
  value,     \* entry->value
  valuelen,  \* entry->valuelen, 1 for every positive length
  mem,       \* the contents of each allocated value copy, or Free
  search,    \* the bucket and entry fields of each search object
  active,    \* the searches whose last call returned an entry still there
  seen,      \* history: the keys of the entries each search has returned
  must       \* history: the keys each search has yet to return

mapVars    == <<exists, owner, chain, size>>
entryVars  == <<entryMem, keyMem, key, hash, value, valuelen, mem>>
searchVars == <<search, active, seen, must>>
vars       == <<mapVars, entryVars, searchVars>>

Buckets     == DOMAIN chain
bucketCount == Cardinality(Buckets)

\* The hash modulo a power of two.
calculateIndex(count, h) == h % count

hashKey == [p \in Address |-> [k \in Key |-> hash_lookup3(p, Bytes[k])]]

\* Is the key of entry e the key k with the hash h?
equalKeys(e, k, h) ==
  \/ key[e] = EmptyKey /\ k = EmptyKey
  \/ key[e] = k /\ hash[e] = h

Linked     == UNION {ToSet(chain[b]) : b \in Buckets}
Capacity   == (bucketCount * 3) \div 4      \* Yhashmap_capacity
LinkedKeys == {key[e] : e \in Linked}
Locked(t)  == exists /\ owner = t

Init ==
  /\ exists = FALSE
  /\ owner = NoThread
  /\ chain = <<>>
  /\ size = 0
  /\ entryMem = {}
  /\ keyMem = {}
  /\ key = [e \in Entry |-> NoKey]
  /\ hash = [e \in Entry |-> 0]
  /\ value = [e \in Entry |-> NULL]
  /\ valuelen = [e \in Entry |-> 0]
  /\ mem = [b \in Block |-> Free]
  /\ search = [s \in Search |-> [bucket |-> 0, entry |-> NULL]]
  /\ active = {}
  /\ seen = [s \in Search |-> {}]
  /\ must = [s \in Search |-> {}]

-----------------------------------------------------------------------------
(* Yhashmap_create and Yhashmap_release *)

\* The first power of two above a minimum.
FirstAbove(minimum) == {n \in PowerOfTwo : n > minimum /\ n \div 2 <= minimum}

\* A number in the range of int.
Wrapped(x) == ((x + IntLimit) % (2 * IntLimit)) - IntLimit

\* The quotient of two ints, rounded to 0, as a size_t.
Quotient(x, d) == IF x >= 0 THEN x \div d ELSE (-((-x) \div d)) % SizeLimit

\* Mutant: no slack for the load factor.
BucketsFor_FullLoad(capacity) == FirstAbove(Max({capacity, 2}))

\* The first power of two above 4/3 of the capacity, which is at least 2.  The product
\* is one of ints: where it overflows, which C leaves undefined, it wraps around or is
\* computed in a wider register.  If no power of two that a size_t can hold is large
\* enough, the loop never ends: there is no count, and no step.
BucketsFor(capacity) ==
  LET product == Max({capacity, 2}) * 4
  IN  UNION {FirstAbove(Quotient(x, 3)) : x \in {product, Wrapped(product)}}

Create(capacity) ==
  /\ ~ exists
  /\ \E n \in BucketsFor(capacity) : chain' = [b \in 0..(n - 1) |-> <<>>]
  /\ exists' = TRUE
  /\ size' = 0
  /\ UNCHANGED <<owner, entryVars, searchVars>>

\* The buckets cannot be allocated: the map's struct is freed again.
CreateFails ==
  /\ OutOfMemory
  /\ ~ exists
  /\ UNCHANGED vars

\* What Yhashmap_release and Yhashmap_remove free of the entries in S.
FreeEntries(S) ==
  /\ keyMem' = keyMem \ {e \in S : key[e] # EmptyKey}
  /\ mem' = [b \in Block |->
               IF \E e \in S : valuelen[e] > 0 /\ value[e] = b THEN Free ELSE mem[b]]
  /\ entryMem' = entryMem \ S
  /\ key' = [e \in Entry |-> IF e \in S THEN NoKey ELSE key[e]]
  /\ hash' = [e \in Entry |-> IF e \in S THEN 0 ELSE hash[e]]
  /\ value' = [e \in Entry |-> IF e \in S THEN NULL ELSE value[e]]
  /\ valuelen' = [e \in Entry |-> IF e \in S THEN 0 ELSE valuelen[e]]

\* The last user of the map releases it; nobody holds or awaits the lock.
Release ==
  /\ exists
  /\ owner = NoThread
  /\ FreeEntries(Linked)
  /\ exists' = FALSE
  /\ chain' = <<>>
  /\ size' = 0
  /\ UNCHANGED <<owner, searchVars>>

-----------------------------------------------------------------------------
(* Yhashmap_lock and Yhashmap_unlock *)

Lock(t) ==
  /\ exists
  /\ owner = NoThread
  /\ owner' = t
  /\ UNCHANGED <<exists, chain, size, entryVars, searchVars>>

\* The thread's searches end with its tenure of the lock.
Unlock(t) ==
  /\ Locked(t)
  /\ owner' = NoThread
  /\ search' = [s \in Search |-> [bucket |-> 0, entry |-> NULL]]
  /\ active' = {}
  /\ seen' = [s \in Search |-> {}]
  /\ must' = [s \in Search |-> {}]
  /\ UNCHANGED <<exists, chain, size, entryVars>>

-----------------------------------------------------------------------------
(* Yhashmap_put and Yhashmap_get *)

\* The entry of key k, or NULL: walks the chain of the key's bucket.
Get(p, k) ==
  LET h == hashKey[p][k]
      b == calculateIndex(bucketCount, h)
      i == SelectInSeq(chain[b], LAMBDA e : equalKeys(e, k, h))
  IN  IF i = 0 THEN NULL ELSE chain[b][i]

\* A key that is not in the map yet gets an entry at the end of its chain.  The
\* buckets stay as they are: bucketMax is 0, for which expandIfNecessary returns
\* at once.
Put(t, p, k) ==
  /\ Locked(t)
  /\ Get(p, k) = NULL
  /\ \E e \in Entry \ entryMem :
       /\ entryMem' = entryMem \cup {e}
       /\ keyMem' = IF k = EmptyKey THEN keyMem ELSE keyMem \cup {e}
       /\ key' = [key EXCEPT ![e] = k]
       /\ hash' = [hash EXCEPT ![e] = hashKey[p][k]]
       /\ value' = [value EXCEPT ![e] = NULL]
       /\ valuelen' = [valuelen EXCEPT ![e] = 0]
       /\ size' = size + 1
       /\ chain' = [chain EXCEPT ![calculateIndex(bucketCount, hashKey[p][k])] = Append(@, e)]
  /\ UNCHANGED <<exists, owner, mem, searchVars>>

\* createEntry cannot allocate the entry, or the copy of its key: it frees the
\* entry again and the end of the chain stays NULL.
PutFails(t, p, k) ==
  /\ OutOfMemory
  /\ Locked(t)
  /\ Get(p, k) = NULL
  /\ UNCHANGED vars

-----------------------------------------------------------------------------
(* Yhashmap_setvalue *)

\* Mutant: the previous copy is not freed.
SetValue_KeepsPrevious(t, e, v) ==
  /\ Locked(t)
  /\ e \in Linked
  /\ \E b \in Block :
       /\ mem[b] = Free
       /\ mem' = [mem EXCEPT ![b] = v]
       /\ value' = [value EXCEPT ![e] = b]
       /\ valuelen' = [valuelen EXCEPT ![e] = 1]
  /\ UNCHANGED <<mapVars, entryMem, keyMem, key, hash, searchVars>>

\* The previous copy is freed after the new one has been made.
SetValue(t, e, v) ==
  /\ Locked(t)
  /\ e \in Linked
  /\ \E b \in Block :
       /\ mem[b] = Free
       /\ mem' = [c \in Block |->
                    IF c = b THEN v
                    ELSE IF valuelen[e] > 0 /\ c = value[e] THEN Free
                    ELSE mem[c]]
       /\ value' = [value EXCEPT ![e] = b]
       /\ valuelen' = [valuelen EXCEPT ![e] = 1]
  /\ UNCHANGED <<mapVars, entryMem, keyMem, key, hash, searchVars>>

\* The copy cannot be allocated: the entry keeps its value.
SetValueFails(t, e) ==
  /\ OutOfMemory
  /\ Locked(t)
  /\ e \in Linked
  /\ UNCHANGED vars

\* A value of length 0: nothing is allocated and valuedup is still NULL.
SetValueZeroLength(t, e, v) ==
  /\ Locked(t)
  /\ e \in Linked
  /\ mem' = [c \in Block |->
               IF valuelen[e] > 0 /\ c = value[e] THEN Free ELSE mem[c]]
  /\ value' = [value EXCEPT ![e] = NULL]
  /\ valuelen' = [valuelen EXCEPT ![e] = 0]
  /\ UNCHANGED <<mapVars, entryMem, keyMem, key, hash, searchVars>>

-----------------------------------------------------------------------------
(* Yhashmap_remove and, after a Yhashmap_get, Yhashmap_removekey *)

ForgetEntry(e) ==
  LET stopped == {s \in active : search[s].entry = e}
  IN  /\ active' = active \ stopped
      /\ seen' = [s \in Search |-> IF s \in stopped THEN {} ELSE seen[s] \ {key[e]}]
      /\ must' = [s \in Search |-> IF s \in stopped THEN {} ELSE must[s] \ {key[e]}]

RemoveEntry(t, e) ==
  /\ Locked(t)
  /\ e \in Linked
  /\ LET b == calculateIndex(bucketCount, hash[e])
     IN  /\ chain' = [chain EXCEPT ![b] = RemoveFirst(@, e)]
         /\ size' = IF e \in ToSet(chain[b]) THEN size - 1 ELSE size
  /\ FreeEntries({e})
  /\ ForgetEntry(e)
  /\ UNCHANGED <<exists, owner, search>>

-----------------------------------------------------------------------------
(* Yhashmap_first and Yhashmap_next *)

NonEmpty(from) == {b \in Buckets : b >= from /\ chain[b] # <<>>}

\* The search now stands on the entry e of bucket b.
StandOn(s, b, e) ==
  /\ search' = [search EXCEPT ![s] = [bucket |-> b, entry |-> e]]
  /\ UNCHANGED <<mapVars, entryVars>>

FirstEntry(t, s) ==
  /\ Locked(t)
  /\ NonEmpty(0) # {}
  /\ LET b == Min(NonEmpty(0))
         e == Head(chain[b])
     IN  /\ StandOn(s, b, e)
         /\ active' = active \cup {s}
         /\ seen' = [seen EXCEPT ![s] = {key[e]}]
         /\ must' = [must EXCEPT ![s] = LinkedKeys \ {key[e]}]

\* entry->next of the entry e, if it is not NULL.
Successors(e) ==
  {f \in Linked : \E b \in Buckets : \E i \in 1..(Len(chain[b]) - 1) :
                    chain[b][i] = e /\ chain[b][i + 1] = f}

\* Mutant: starts again with the bucket that was just walked.
LaterBuckets_SameBucket(s) == NonEmpty(search[s].bucket)

LaterBuckets(s) == NonEmpty(search[s].bucket + 1)

\* The rest of the chain, then the buckets after the one of the search.
NextEntry(t, s) ==
  LET e     == search[s].entry
      later == LaterBuckets(s)
      Return(b, f) ==
        /\ StandOn(s, b, f)
        /\ seen' = [seen EXCEPT ![s] = @ \cup {key[f]}]
        /\ must' = [must EXCEPT ![s] = @ \ {key[f]}]
        /\ UNCHANGED active
  IN  /\ Locked(t)
      /\ s \in active
      /\ \/ \E f \in Successors(e) : Return(search[s].bucket, f)
         \/ /\ Successors(e) = {}
            /\ later # {}
            /\ Return(Min(later), Head(chain[Min(later)]))
         \/ /\ Successors(e) = {}
            /\ later = {}
            /\ StandOn(s, search[s].bucket, NULL)
            /\ active' = active \ {s}
            /\ seen' = [seen EXCEPT ![s] = {}]
            /\ UNCHANGED must

-----------------------------------------------------------------------------

Next ==
  \/ \E c \in Capacities : Create(c)
  \/ CreateFails
  \/ Release
  \/ \E t \in Thread :
       \/ Lock(t) \/ Unlock(t)
       \/ \E k \in Key, p \in Address : Put(t, p, k) \/ PutFails(t, p, k)
       \/ \E e \in Entry :
            \/ RemoveEntry(t, e) \/ SetValueFails(t, e)
            \/ \E v \in Value : SetValue(t, e, v) \/ SetValueZeroLength(t, e, v)
       \/ \E s \in Search : FirstEntry(t, s) \/ NextEntry(t, s)

Spec == Init /\ [][Next]_vars

-----------------------------------------------------------------------------
(* What the module checks *)

TypeOK ==
  /\ exists \in BOOLEAN
  /\ owner \in Thread \cup {NoThread}
  /\ Buckets \subseteq Nat
  /\ \A b \in Buckets : chain[b] \in Seq(Entry)
  /\ size \in Nat
  /\ entryMem \subseteq Entry
  /\ keyMem \subseteq Entry
  /\ key \in [Entry -> Key \cup {NoKey}]
  /\ hash \in [Entry -> Nat]
  /\ value \in [Entry -> Block \cup {NULL}]
  /\ valuelen \in [Entry -> {0, 1}]
  /\ mem \in [Block -> Value \cup {Free}]
  /\ search \in [Search -> [bucket : Nat, entry : Entry \cup {NULL}]]
  /\ active \subseteq Search
  /\ seen \in [Search -> SUBSET Key]
  /\ must \in [Search -> SUBSET Key]

\* Every entry is found, by a pointer to its key at any address: its hash is the
\* one computed there, it is in the chain that the hash selects, in no chain
\* twice, and no two entries of the map have the same key.  Yhashmap_size
\* counts them.
ChainsWellFormed ==
  /\ TypeOK
  /\ \A b \in Buckets : \A e \in ToSet(chain[b]) :
       /\ key[e] \in Key
       /\ \A p \in Address : hash[e] = hashKey[p][key[e]]
       /\ calculateIndex(bucketCount, hash[e]) = b
  /\ \A b \in Buckets : IsInjective(chain[b])
  /\ \A e, f \in Linked : key[e] = key[f] => e = f
  /\ size = Cardinality(Linked)

\* The heap holds the entries in the chains, a copy of each key that has bytes
\* and of each value, and nothing else: no leak, no value freed while an entry
\* refers to it, none shared by two entries.  After Yhashmap_release and after
\* a failed Yhashmap_create it holds nothing.
HeapIsExact ==
  /\ entryMem = Linked
  /\ keyMem = {e \in Linked : key[e] # EmptyKey}
  /\ {b \in Block : mem[b] # Free} = {value[e] : e \in {f \in Linked : valuelen[f] > 0}}
  /\ \A e, f \in Linked : valuelen[e] > 0 /\ value[e] = value[f] => e = f
  /\ ~ exists => Linked = {}

\* The map as a dictionary: the value of each key, and the key that each search
\* under way stands on.
Content(e) == IF valuelen[e] = 0 THEN "no value" ELSE mem[value[e]]

Dict == [k \in Key |->
           IF \A e \in Linked : key[e] # k THEN "absent"
           ELSE Content(CHOOSE e \in Linked : key[e] = k)]

LastKey == [s \in Search |-> IF s \in active THEN key[search[s].entry] ELSE NoKey]

\* The map implements a dictionary whose searches return every entry that
\* stays in the map, none twice and none that was freed.
D == INSTANCE Dictionary WITH
       Absent <- "absent", NoValue <- "no value", dict <- Dict, last <- LastKey

ImplementsDictionary == D!DictSpec

\* A new map has room for the capacity its creator asked for, as long as four times
\* the capacity is an int.  From there on (2^29 entries) the product overflows, and
\* the map may have any number of buckets.
RoomForCapacity ==
  [][\A c \in Capacities : Create(c) /\ 4 * c < IntLimit => (Capacity)' >= c]_vars

\* What hashmap.h says of setvalue: it returns the previous value.  So when it
\* returns, the memory of that value still holds it.
PreviousValueIsReturned ==
  [][\A t \in Thread, e \in Entry, v \in Value :
       SetValue(t, e, v) /\ value[e] # NULL => mem'[value[e]] = mem[value[e]]]_vars
=============================================================================

# Verification of yosal

TLA+ models of yosal, a small C library that gives Android and desktop programs
reference counted objects, containers, buffers, I/O channels over descriptors, files
and Java streams, message digests, base64 and one-time initialisation. TLC checks
every model on small instances; TLAPS proves the safety properties of all of them
for all instances, among them that the queue, the hash map and the read side of a
channel implement their abstract specifications, that base64 gives the right code for
every message and every message back, that a digest does not depend on how its message
was cut (but for one case of SHA-1), and that a string converted to UTF-16 is all that
its text is read as.

Paths are relative to the repository; `src/struct/queue.c` there is
`src/src/struct/queue.c` in the `map` of `PROJECT.json`, which names the lines that
each definition stands for.

## 1. Inventory

| Component | State it keeps | Operations | What is hard | What makes it correct |
|---|---|---|---|---|
| yobject (`struct/yobject.c`) | the object, its separately allocated mutex, a counter, a release callback | create, retain, release, lock, unlock, from any thread | the counter is loaded and stored in two steps; the mutex lives in memory that the last release frees; a new object counts 0 | no use after free, exact counter, no leak, calls return |
| Yhashmap (`struct/hashmap.c`) | buckets of chained entries, copies of keys and values, a size, a lock the callers take | create, release, lock, unlock, put, get, setvalue, remove, removekey, first, next | colliding keys, removal at the head and inside of a chain, iteration while the map changes, memory running out half way; the number of buckets is computed in int | it is a dictionary; the heap holds exactly what the entries refer to |
| Ychannel, read side (`io/ychannel.c`, `io/engine/fd.c`, `file.c`, `javastream.c`) | push-back buffer, static header, prefetch buffer, positions, a length and a count, an engine behind callbacks | fetch, read, skip, push, set length, reset buffer, eof, release | four sources of bytes with a by-pass of the buffers; short reads and failures; a source with nothing to read yet; unsigned arithmetic | the bytes arrive in order, none lost; reads end |
| Ychannel, write side (the same and `io/engine/javastream.c`) | the loop of a write; what the stdio or Java buffer keeps back | write, flush, set auto-release, release | partial writes, a full non-blocking descriptor, failures half way | what is counted is what was accepted |
| Yqueue (`struct/queue.c`) | a singly linked list with first, last and a counter | create, push, insert, pop, fetch, size, first, next, array, release | both ends change together at length 0 and 1; loops that read the counter and walk the links | it is a double-ended queue |
| YArray (`struct/array.c`) | an array of pointers, its length and capacity, a release function | create, append, get, detach, prune, reset, release | ownership of an element moves; the caller chooses the first capacity | no write outside the memory, nothing released twice |
| Ydigest (`digest/digest.c`, `digest_md5.c`, `digest_sha1.c`) | an engine (state, block buffer, two-word bit counter), outer padding, a digest | create, create_mac, reset, update, final, digest, release | blocks cut anywhere, counter overflow, reuse of a context | the result is the digest of the whole message |
| Yosal_init (`system/system.c`, `yrandom.c`, `time.c`) | `gYosal_ready`, a static mutex, the seed and clock state | init, from any thread | a check outside the mutex | initialised once, and for its caller |
| Ybuffer (`core/ybuffer.c`) | a growing byte buffer with a sticky error | init, append, append_format, append_integer, detach, fini | each append may have to grow the memory, and may fail | it holds what the calls that succeeded have appended; every block has one owner |
| Ymem (`core/yalloc.c`) | none but the heap | malloc, calloc, realloc, strdup, malloc_aligned, isaligned, free | sizes that overflow; the room for the alignment | a block is as long and as aligned as was asked for |
| base64 (`base64/`) | an encoder and a decoder that keep their place between blocks | encode, encode_block, encode_blockend, decode_block | cuts anywhere, the end in each of three places, memory running out between blocks | the code is that of the message, and decoding gives the message back |
| Hash functions (`hash/`) | none | hash_lookup3 (hash_fnv1 is not called) | three ways to read a key, each with its own code for the last block | the hash depends on the bytes of the key only |
| Java stream engine (`io/engine/javastream.c`) | three global references, method IDs, a byte array | the constructors for input and output, read, write, release | every call may throw; an initialisation that fails half way | no JNI call while an exception is pending; the engines hold exactly the references that exist |
| JNI utilities (`java/jniutils.c`) | none | registration of natives, lookup of fields, strings from UTF-8 | text that is invalid or cut in a character; buffers of the right length | the string has the UTF-16 of all of the text |
| Ytime, Yrandom after initialisation, log (`system/`), tests | clock, C library generator, none | not modelled | | |

Interaction: the containers and Ychannel share no state with each other. A Ychannel
calls its engine through callbacks (read, write, flush, release). The read side and the
write side of a channel have no field in common but the engine and the auto-release. The
Java engine and the JNI utilities share the exception state of their thread. `Yhashmap`
hashes with `hash_lookup3`; `Ybase64_encode` collects its result in a Ybuffer. `Yrandom`
calls `Yosal_init`, and so does `Ytime` for the monotonic clock of Apple's systems. All
memory comes from `Ymem_*`, which refuses a size of 0; the models let an allocation fail
where the code handles that. Only yobject, Yosal_init and (through the lock that its
callers take) Yhashmap are used by several threads at once.

## 2. Modules

    Yobject         <- MCYobject         OwnershipProofs
    YosalInit       <- MCYosalInit       YosalProofs
    Yqueue          <- MCYqueue          YqueueProofs      implements Deque
    YArray          <- MCYArray          OwnershipProofs
    Lookup3
     <- Yhashmap    <- MCYhashmap        YhashmapProofs    implements Dictionary
    Ychannel        <- MCYchannel        YchannelProofs    implements PushbackStream
    YchannelWriter  <- MCYchannelWriter  YchannelWriterProofs
    Ydigest         <- MCYdigest         YdigestProofs     against Digest and Mac
    Ymem <- Ybuffer
     <- Ybase64     <- MCYbase64         Ybase64Proofs     against Base64
    Jni  <- JavaStream, JniUtils
     <- YosalJni    <- MCYosalJni        YosalProofs       against Utf16

`Deque`, `Dictionary` and `PushbackStream` are the abstract specifications, written
from what the headers promise. The MC modules only hold the values of
constants. Operators named `X_Something` after a definition `X` with the comment
`Mutant:` are plausible mistakes in `X`; they are used nowhere in the
specifications, and each shows that a property can fail.

**Yobject.** A call is cut wherever another thread can see or disturb it: reading the
pointer to the mutex, waiting for it, loading the counter, storing it, unlocking,
and each call of the final teardown. `object` and `mutex` are the two pieces of
memory ("raw" is allocated and not initialised), `holder` says which thread has
each counted reference, and `initial` who has the uncounted pointer of
`yobject_create`. Threads use the object only while they hold a reference, and
hand references over (`Give`). One object lives at a time; it may be created
again after it is gone, so that stale state would show.

**Yhashmap.** A chain of entries is a sequence and a key a model value. Its hash is
computed by `Lookup3` from its `Bytes`, read at one of the caller's `Address`es, and the
keys are chosen so that they collide. `entryMem`, `keyMem` and `mem` are the heap.
`seen` and `must` are history variables for the searches. Every call is one step, since
the lock is held around it. `bucketMax` is 0, so that `expandIfNecessary` returns at its
first test and the buckets never change. Their number comes from an int product that
overflows for large capacities (`BucketsFor`): it may wrap around or not, and where the
loop of `Yhashmap_create` would not end there is no step.

**Lookup3.** `hash_lookup3` reads a key in aligned words, in halves or byte by byte, as
its address allows. `WordLane`, `HalfLane` and `ByteLane` are what each way adds to
one lane, with the cases that fall through at the end. The mixing of the lanes is
symbolic: `Mixed` gets the length and the blocks that were added. The module has no
state and runs as part of Yhashmap.

**Ychannel.** The three buffers and their positions, the engine as the bytes it has
yet to give, `inlength`, `incount` and `terminated`. `YchannelRead` is three loops
(`ReadDrain`, `ReadFromEngine`, `ReadFetch`), one iteration per step; the other calls
are one step. `failed`, `out` and `threw` are history variables. An engine may give
fewer bytes than asked for, and 0 on a failure, as fd.c and file.c do; a Java stream
gives at most one chunk, and -1 at its end or when it throws, and then the bytes that
`read()` had taken, or that `GetByteArrayRegion` did not copy, are lost (`Lost`). While
its source is `idle` no engine answers: it blocks, or `YchannelFdRead` tries again
without a bound (`FdReadsAgain`). `PushbackStream` has a step `Lose` for the bytes that
a Java stream loses, and only for a stream that is `fragile`.

**YchannelWriter.** The bytes of the caller are numbered. A sink of limited size stands
for the pipe or socket, `buffer` for what a FILE or an OutputStream keeps back.
`YchannelWrite` is one call of the engine per step. `fflush` and a Java stream that is
closed may fail after they passed on some of what they kept (`PassOn`).

**Yqueue.** `next`, `value` and `alloc` are the heap of records; `list`, a history
variable, is the sequence of records that the calls ought to have linked.
`Yqueue_array` and its walk `Reached` are recursive functions on the links.

**YArray.** `status` says who owns each element: its caller, the array, or nobody
since it was released. `slots` is the memory behind `elements`, which `maxlength` is
meant to describe.

**Ydigest.** A byte is a record of where it comes from, so that two bytes are equal
only if the code copied one to the other. The compression functions are symbolic:
the state of an engine is the sequence of blocks that were transformed. A loop is
`Repeat`, a recursive function of the turns. Block size,
counters and digests are constants. `miscounted` is a history variable: SHA-1 did not
count all the bits of an update of this message. The reference (`Padded`, `Digest`, `Mac`)
computes from the whole message at once. The byte order of the length field and
the hexadecimal output are left out.

**YosalInit.** A write is `pending` until it reaches the memory that all threads see;
an unlock waits for all pending writes of the thread. With `Ordered` they arrive
in program order, without it in any order, which is what a data race on a plain
int allows.

**Ymem.** A block is named by its address, a number, so that alignment is arithmetic.
A call is an operator on a heap, the set of its outcomes (a pointer and the heap
that is left), so that `Ymem_malloc_aligned`, Ybuffer and base64 can be composed of
several calls, each of which may fail. `held` is what callers of Ymem own, `lost` the
blocks that nobody can free any more.

**Ybuffer.** The struct is a block too, and may be refused. `Ybuffer_append` is again an
operator; the functions built on it are actions. `text` is a history variable: what
the calls that returned success have appended.

**Ybase64.** `Ybase64_encode` is one append per step, the encoder keeping its place
from block to block, with the results of the appends ignored as in the code. The
result is then decoded in blocks that end anywhere, with foreign characters between.
`Base64` is the reference: character i of the code is a digit of the 24-bit number
that a group of three bytes makes, or padding.

**Jni.** The exception state of a thread and the global references that exist. `JniCall`
sets `misused` if an exception is pending. `checks` says that the last function
leaves its exceptions to its caller, who then handles them before the next call.

**JavaStream.** The engines of several streams. Opening one may fail after each reference
it makes; reads and writes check for exceptions where the code does, and nowhere
else. `leaked` has the references that an engine without its env could not delete,
`lacking` says that a stream without close() was opened.

**JniUtils.** A text is a sequence of characters, each its bytes and its code point; some
are invalid, and the last may be cut short, in which case `validateUtf8` goes on
behind the end. `string` is what was made of it. `JniUtilsAssumption` says what the
characters are: bytes with the code point they are `ReadAs`, whether well formed or not
(overlong forms and first bytes 10xxxxxx included), and bytes that are `Malformed`, which
are read as none. Every text that ends with a NUL is made of them.

**YosalJni** is the two on one thread, so that an exception left by one of them meets
the next call of the other.

## 3. Runs

| Run | Bounds | States | What it shows |
|---|---|---|---|
| MCYobject | 3 threads, 3 references | 55 489 | No use after free, exact counter, quiet teardown, no leak, last holder frees; every call returns. Three threads are one that tears down, one that waits for the mutex and one that has just read the pointer to it |
| MCYhashmap | 2 threads, 4 keys at aligned and unaligned addresses (3 in one bucket of 4, two of them with equal hashes, one empty), 3 entries, 2 values, 1 search, capacities -1, 2, 7, 15, 17 with ints below 32 | 13 723, symmetric | A key is in one chain wherever its bytes lie, the chains, the size and the heap are right, the map implements `Dictionary`, and a map has room for its capacity if four times that fits an int: the capacity 7 does, 15 and 17 do not. Three entries are the head, the middle and the end of a chain; address reuse happens |
| MCYchannel | 4 bytes, prefetch buffer of 2 and Java chunk of 1, requests of -1, 1 and 2, up to 2 pushed back, lengths 0 to 2, ints below 3 and longs below 12 | 517 841 | The stream arrives in order through every buffer, losing only what a Java stream had taken when it threw; end of file only at the end or after an exception; the counted bytes stay within the length while the length is less than an int below them; a read returns if its source does not stay idle, and is short only at the end or after a failure. A length of 0 and a count of 3 or 4 are more than an int apart |
| MCYchannelWriter | 5 bytes, requests of -1 to 3, sink, buffer and chunk of 2 | 17 394 | What is counted was accepted, in order; what was written before a flush that succeeded arrives, whatever comes after it; a write returns, and is short only after a failure |
| MCYqueue | 5 records, 2 values | 101 766 | The links, ends and counter agree, the array is filled exactly, the queue implements `Deque`, release ends |
| MCYArray | 6 elements, growth by 4 below 4, initial lengths -5 to 5 | 3 627, symmetric | No write outside the memory, each element owned once, only owned elements released |
| MCYdigest | 15 bytes in updates of 0, 1, 3 or 9, blocks of 4, words of 6 bits | 1 479 662 | The engine holds what it was given, across the overflow of the low word, and the result is the digest or MAC, however the context was used before. The low word overflows at 8 bytes, so that an update of 9 has bits for the high word whether or not it overflows the low one; the high word of SHA-1 and its digest are excepted after an update that it miscounts |
| MCYbase64 | 4 blocks at addresses 8, 17, 30 and 40, sizes below 64, alignments 1, 2 and 8, messages of 1, 2, 3, 12 and 14 bytes, code in blocks of 1, 3 and 6, any allocation may fail | 505 729 | Blocks are as long and as aligned as asked, each has one owner, a buffer holds what was appended, the code is that of the message and decodes to it. The messages end in each of the three places of a group and in the first, at the end of the first and in the second block of 12 bytes |
| MCYosalJni | 7 references, 2 input streams and 1 output stream, texts of up to 2 of 19 characters, overlong and malformed ones among them, 2 units behind the end, 2 fields, any call may throw | 916 608 | No JNI call while an exception is pending; references are exact; a converted string has the UTF-16 of all that its text is read as. 7 references are two open streams and one half open |
| MCYosalInit | 3 threads, writes in any order | 1 223 | Seeded once, never the value of an uninitialised library, every call returns |

`CHECK_DEADLOCK FALSE` is set for the two channel models only: there a released
channel is the end, and everything produced may have been written.

Two runs check what a comment promises and find it violated; `findings` in
`PROJECT.json` quotes the lines:

* **MCYhashmapPrevious**: `Yhashmap_setvalue` returns a pointer to the previous value
  after freeing it.
* **MCYosalInitWeak**: a thread may see `gYosal_ready` set before the state it stands
  for.

### Other disagreements between comments and code

Seen while modelling. The models follow the code; no run is spent on them.

* `YchannelRead` into a buffer reads straight from the engine once the buffers are
  empty, past the length that was set, and does not count the bytes (ychannel.c:409,
  ychannel.h:319).
* A length set 2^31 or more below the bytes counted (ychannel.h:249) makes a positive
  int of their difference (ychannel.c:286): the read goes past the length, and may give
  more bytes than it was asked for. `CountRespectsLength` is about the other lengths.
* When a Java stream throws, or its bytes cannot be copied, what `read()` had taken is
  lost (javastream.c:128-155), and `YchannelRead`, which goes on after the -1 of a
  direct read (ychannel.c:409-420), gives the bytes behind the gap as if they were next.
* While a non-blocking descriptor has nothing to read, `YchannelFdRead` calls `read` again
  and again (fd.c:46), without a pause or a bound.
* `Yhashmap_create` computes the buckets from `initialCapacity * 4` in int
  (hashmap.c:213). From 2^29 on this overflows, which C leaves undefined; if it wraps
  around, the loop does not end or the map has too few buckets, if not it may be right.
  `RoomForCapacity` is about smaller capacities.
* `Ybuffer_fini` frees the Ybuffer itself, by its detach (ybuffer.c:84), and
  ybuffer.h:48-51 says that "it is safe to free the Ybuffer using Ymem_free" then: a
  caller who does so frees it twice. `HeapIsOwned` is about callers who do not.
* `Yosal_init` returns 1 where system.h:32 says "@return YOSAL_OK on success", which is 0.
  `ReturnsReady` says only that it is not the initial -1.
* A MAC context that was reset lacks the inner padding of the key, so that its result
  is not the MAC (digest.h:72).
* `YchannelEof` is true after a Java exception, too.
* If the first realloc of the buffer fails, `Ybase64_encode` returns memory that is
  neither initialised nor terminated (base64.c:62), as it ignores its appends.
* The test of the decoder's table is off by one (cdecode.c:22): a character just behind
  the table is looked up.
* When `Ybuffer_append_format` fails, "Older buffer is still valid", but the NUL that
  ended it was overwritten.
* `Ymem_malloc_aligned` loses its first block when the realloc fails.
* A stream without close() leaves a NoSuchMethodError pending, though javastream.c:255
  says that close is optional.
* `validateUtf8` returns 0 for invalid text, too, where its comment (jniutils.c:71) says
  that 0 means valid; and any text with a character of four bytes is converted, well
  formed or not, with overlong forms of two and three bytes and first bytes 10xxxxxx taken
  for characters (jniutils.c:131-167). It may step over the NUL of a text that is cut
  short. `Utf16Exact` is about what the bytes are read as.
* An engine given up before it had its env deletes none of its references
  (javastream.c:271); `ReferencesExact` counts them as lost.
* `SHA1Update` adds the high bits of the length only when the low word carries
  (digest_sha1.c:230): after one update of 2^29 bytes or more without a carry the
  padding and the digest are wrong. MD5 counts right. MCYdigest has such updates; its
  properties except the messages of SHA-1 that have one.
* `YchannelEof` stays false at the end of a descriptor, as only a negative result sets
  `terminated` and the fd engine returns 0 there (ychannel.c:324, ychannel.h:59).
* `YchannelGetLength` passes a 64-bit length through an int (ychannel.c:154).
* `YchannelRelease` frees a byte array whatever the auto-release says (ychannel.c:183).
* Auto-release closes Java streams (javastream.c:219) though ychannel.h:171 says it
  does not, and a Java stream has no flush callback, so that `YchannelFlush` says
  YOSAL_OK with bytes left in a BufferedOutputStream.
* `Yhashmap` never grows (hashmap.c:221), and `Yhashmap_setvalue` stores nothing for
  length 0 where hashmap.h:205 speaks of an opaque pointer.
* `yobject_unlock` does not fail for a thread without the lock (yobject.h:100), and
  nobody but the callback frees the yobject itself (yobject.h:39 says the callback
  does not).
* `YArray_release` releases the elements (array.h:81 says it does not), and an array
  created with length -64 or less never grows.
* `Ydigest_digest` returns a length where digest.h says YOSAL_OK.

### What callers are taken to do

They use a yobject only with a reference, and unlock what they locked. They hold the
map's lock around each use, drop a search when they unlock, and do not call
`Yhashmap_next` after the entry it stands on was removed, or after a `Yhashmap_first`
that gave nothing. They use a channel, a queue, an array or a digest from one thread at
a time, and do not pop the record that their iteration stands on. They append an element
to an array only while they own it. They give `Ydigest_create_mac` a key of at most 64
bytes, and do not switch a context between MAC and plain modes. An OutputStream that
throws has kept nothing of the chunk. They pass alignments that are powers of 2, sizes
whose sum with the alignment does not overflow, and member counts above 0. They give the
decoder ASCII. They pass streams of the right class, use them on the thread that opened
them, and look for exceptions after opening, releasing, registering and finding fields.
They do not free a Ybuffer after `Ybuffer_fini`. They use a string before the next call.

## 4. Fairness

* `Yobject`: weak fairness for the steps of a thread inside a call, and for unlocking
  what it locked; strong fairness for taking the mutex, since others may take it
  in between: a thread that waits for a mutex that is free again and again gets it.
  No fairness for starting calls.
* `Ychannel`: the thread inside `YchannelRead` keeps running, and the source of the
  engine does not stay idle for ever: its other side writes, closes it, or it fails.
  This second part is not the code's doing. Without it a read does not return: it
  blocks, or, on a non-blocking descriptor, tries again for ever. An engine that answers
  may give 0 each time, and the source may become idle again after each answer; the
  loops end all the same.
* `YchannelWriter`: the peer drains the sink (weak), and a descriptor that has room again
  and again takes bytes in the end (strong). Without a peer the loop of
  `YchannelWrite` spins for ever on a full non-blocking descriptor.
* `Yqueue`: the thread inside `Yqueue_release` keeps running.
* `YosalInit`: weak fairness for each thread. The mutex need not be fair, as it is taken
  only until `gYosal_ready` is seen.

## 5. Proofs

Every theorem holds for all values of the constants that the named assumptions of
its module allow. TLC evaluates these on every run.

**OwnershipProofs** is about Yobject and YArray.

Yobject (any threads, any finite set of references smaller than the range of
the counter): `TypeCorrect`, `MemorySafe` (NoUseAfterFree), `CounterExact`,
`QuietTeardown`, `NothingLeaks` (if the callback frees the object),
`LastHolderFrees`. None is inductive alone: the counter is exact because
the mutex protects the step between load and store; the mutex protects it because
it is alive while threads queue for it; and it is alive because the counter is
exact. `IInv` states the three together with what each program counter implies.

YArray (any elements, a growth step of at least 4): `ArrayTypeCorrect`,
`OwnershipExact`, `ReleasesOnlyOwned`, `ElementsInBounds` for every initial length, and
`AlwaysGrows` for those that one step makes positive. Bounds need that a
non-empty array is no longer than `maxlength`, which is not above the memory,
although `maxlength` may be negative while the array is empty.

**YqueueProofs** (any records and values): `TypeCorrect`, `ListWellFormed`, and
`Refinement` (`Spec => D!DequeSpec`). `IInv` is the types, the links as positions of
`list`, no record twice, and a cursor on an allocated record. Since each call
changes at most the two ends, no induction along the links is needed.
`ArrayIsFilled` is about `Reached` and `Yqueue_array`, which are defined by what
they satisfy along the links. `list` itself is such a walk (`ListFits`); two walks
that differ somewhere differ at a least place, and there both are the link of the
same record (`OneWalk`). The one assumption this needs is that there are finitely
many records.

**YhashmapProofs** (any keys, hash, addresses, entries and capacities):
`ChainsStayWellFormed`, `HeapStaysExact` and `CapacityFits` (for capacities four times
which is an int, whatever an overflow does to the others). The two invariants need each
other: that a new entry is in no chain follows from the heap, and that a freed one was
in one chain only, from the chains. `HInv` adds the shape of the buckets and that an
entry without value length has no value. A key is found in the chain where it was put
because of `AddressIndependent`: the three ways to read a key add the same blocks. The
switch for the last block is compared case by case for each number of bytes that are
left; a block and then the key follow lane by lane.

`Refinement` (`Spec => ImplementsDictionary`) maps the chains to the set of bound keys
with their values. `Mapping` shows that a chain has a key where the dictionary binds
it, and no other place; each call, with each of its failures of memory, is then one
step of the dictionary or none. A search needs an invariant of its own, `SInv`: what
`Yhashmap_next` has still to visit, the rest of a chain and the chains behind it,
contains every key that was there since the search began and has not been seen, and
what was seen comes before.

**YchannelProofs** (any data, sizes of the buffers, requests, lengths and bytes pushed
back, any ints of which the sizes are part): `EofIsTheEnd` (EofOnlyAtEnd),
`CountWithinLength`, `ShortOnlyAtEnd` and `Refinement` (`Spec => ImplementsStream`),
from `CInvHolds`. `CInv` has three parts. `Buffers`: only a byte array has a header, and
an engine that was terminated has no more or its stream threw, or else the end of file
would hide bytes. `Counted` is the types of the length and the count: any length may be
set, so that nothing relates them. `CountWithinLength` says so step by step: a fetch
that begins with the length less than 2^31 below the count (`Near`) keeps the count
within the length and gives no more than it was asked for. `Reading`: a read takes bytes
straight from the engine only after the buffers are used up, or the order would be lost;
and it may end with a negative number of bytes missing, if the length is not `Near`. One
lemma, `FetchEffect`, says what any fetch gives: a prefix of what was next, of the bytes
pushed back first. Every loop of `YchannelRead` and `YchannelSkip` is then a `Deliver`
of the stream, a `Lose` if a Java stream threw, or none of its steps.

**YchannelWriterProofs** (any sizes of sink, buffer, chunk and requests, any failures):
`CountIsAccepted` and `ShortOnlyOnFailure`. The count alone says
nothing about which bytes come next; `WInv` adds that the pointer is as far as the
count (`PointerFollowsCount`) and that a descriptor keeps nothing back.

**YosalProofs** (any threads, streams and texts, any finite set of references) is about
the two modules of whole-library rules. Initialisation: `TypeCorrect`, `SeedsOnce`,
`NeverUnready`, and `OrderedIsSound`: with ordered writes a caller sees the
initialised state, the converse of MCYosalInitWeak. Only the holder of the mutex
writes, so that either nobody has seeded, or the holder has and is about to set the
flag, or the flag has reached the memory. JNI: `NoCallWhilePending`, from the
invariant that an exception is pending only after a function whose caller looks for
it, and `ReferencesExact`, from the disjointness of what the engines hold.

`StringsAreExact` (Utf16Exact, for any bytes and lengths) is about the two scans of
`jniutils_NewStringUTF`, which decide independently what a character is. Two facts carry
it. The conversion never writes more units than the validation counted (`CountBounds`),
although the validation trusts the first byte of a character and the conversion looks at
all of them. And where the conversion stops early it falls behind for good
(`StrayLoses`), so that equal numbers, the one thing the code compares, mean that every
character was converted (`AllConverted`). `TextLaid` says where each character begins in
the bytes of the text, `Utf8Decodes` that the code point it is read as comes out of
them. The recursive functions of the scans are shown to exist (`RecursionExists`) and to
keep what each of their steps keeps (`RecursionKeeps`).

**YdigestProofs** (any sizes of block, counter word, length field and digest, any modes
and updates): `DigestTypeCorrect`, `EngineExact` (EngineHoldsMessage) and `OutputExact`
(OutputIsDigest). The results say nothing about how a context gets there, so `DigestInv`
does: of what the engine was given, which for a MAC begins with the padded key, the
whole blocks are in its state, in order, the rest is at the beginning of its buffer, and
the low word of the counter holds its bits modulo a word; the high word holds the rest
of them unless SHA-1 has `miscounted` an update. The buffer behind the rest may hold
anything that earlier use left there; that none of it reaches a result is what makes a
context reusable. That `MD5Update`, which takes byte after byte, and `SHA1Update`, which
fills the buffer and then takes whole blocks from the caller's memory, both keep this,
is shown turn by turn: a loop that goes wrong has a first turn that does.

**Ybase64Proofs** (any blocks, memory size, alignments, requests, texts, increments and
messages, any cuts of the code, any failures of malloc and realloc) is about Ymem,
Ybuffer and Ybase64 together, as they share the heap: `MemoryIsAsAskedFor`,
`EveryBlockHasOneOwner`, `BufferIsRight`, `EncodingIsRight` and `DecodingIsRight`. The
invariant has three parts.

* `MInv`, the memory. `Owns` says that the allocated blocks are those of the callers,
  the lost ones, the struct and the data of the buffer and a detached result, no two of
  them the same; `Holds`, that the text is in the buffer's block and a NUL behind it.
  Neither stands alone: an append writes into the right block only because no caller
  has the same one, and a block stays what it was only because nobody else writes to
  it. `Moved` says what any malloc or realloc may do to the heap, `Unchanged` what it
  leaves alone, and every call of the three modules is shown to be made of those.
* `EInv`, the encoder. After k bytes of the message its step is k mod 3, its `result` the
  bits kept back, and the text is a beginning of the reference, of `Written(k)` characters
  if no append failed. That says where the next block has to begin, which
  `EncodesMessage`, about results only, does not.
* `DInv`, the decoder. After k characters its `plain` has the bits of the byte it is in,
  and what came out is the message as far as those bits go (`Decoded`). Each of the four
  places of a group is a lemma on how a byte is cut in two and put together again.

The loops of the encoder and the decoder are folds. What a fold computes would need
induction with an operator as parameter; instead `FoldExists` shows that there is a
function with the value of the fold after each element, and the theorems about that
function are inductions over sets of numbers (`UpTo`), in which a single byte or
character is one step (`EncodeByteMakes`, `DecodeCharReads`).

The type theorems of the queue, the array, the digests and the initialisation are the
types that the other proofs rest on; no run checks them on their own.

Model-checked only: all liveness (`CallsReturn`, `ReadReturns`, `WriteReturns`,
`FlushedArrives`, `ReleaseEnds`), which is out of reach of the prover here. Every safety
property of a passing run is a theorem.

## 6. Not modelled, and why

* FNV-1: nothing calls it. The mixing of lookup3 and the compression functions of MD5
  and SHA-1 are symbolic: no property depends on what they compute.
* Log, clock and random numbers after initialisation, test support: calls to the
  platform without state of their own.
* The line breaks of the encoder: `Ybase64_encode` never asks for them.
* The functions that only read (size, contain, key, value, get, length) have no action.
* In Ychannel: the memory of a byte array and the auto-release (YchannelWriter has it).
  In Yqueue: a failed allocation of a record, which the code does not check.
* In YArray: the overflow of `initlength * sizeof(void*)`, which a 32-bit size allows.
  In Ybase64: that the decoder also writes the byte in memory behind its output, for
  which a caller has to have room.
* The bytes that Java streams move are in Ychannel and YchannelWriter, their
  exceptions and references in JavaStream; no run has both.

## 7. Plan

All components with logic of their own are modelled, and their safety properties
proved. What would add most is abstract specifications for two more of them: reference
counting without a mutex, implemented by Yobject, and a digest of an appended message,
implemented by Ydigest.

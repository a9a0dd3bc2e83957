------------------------------ MODULE Yobject ------------------------------
(***************************************************************************)
(* Reference counting and locking of a yobject shared by several threads   *)
(* (src/struct/yobject.c).                                                 *)
(*                                                                         *)
(* The module follows the life of one yobject at a time: yobject_create,   *)
(* then any interleaving of yobject_retain, yobject_release, yobject_lock  *)
(* and yobject_unlock by the threads that hold references, then the last   *)
(* yobject_release.  A call is cut into a step wherever another thread can *)
(* observe or disturb it: reading the pointer to the mutex, blocking on    *)
(* the mutex, loading and storing the counter, unlocking, and each call of *)
(* the final teardown.  The memory of the object and of its separately     *)
(* allocated mutex are two pieces of state, since they are freed at        *)
(* different times by different code.                                      *)
(*                                                                         *)
(* The callers are modelled by the rule yobject.h gives them: a thread     *)
(* uses the object only while it holds a reference, which it got from      *)
(* yobject_create, from yobject_retain or from another thread.             *)
(***************************************************************************)
EXTENDS Naturals, FiniteSets

CONSTANTS
  Thread,         \* the threads that share the object
  Ref,            \* the references that can be outstanding at once (bound)
  NoThread,       \* no thread
  NoRef,          \* no reference
  CountLimit,     \* the counter wraps to 0 here (2^32 for a uint32_t)
  CallbackFrees   \* does the release callback free the yobject itself?

ASSUME YobjectAssumption ==
  /\ NoThread \notin Thread
  /\ NoRef \notin Ref
  /\ IsFiniteSet(Ref)
  /\ CountLimit \in Nat
  /\ Cardinality(Ref) < CountLimit
  /\ CallbackFrees \in BOOLEAN

VARIABLES
  object,    \* memory of the yobject: "absent", "raw" (allocated), "live"
  mutex,     \* memory of its mutex: "absent", "raw" (not a mutex), "ready"
  owner,     \* the thread that holds the mutex
  refcount,  \* yptr->refcount
  pc,        \* where each thread is in its call
  tmp,       \* the counter as a thread has it in a register
  ref,       \* the reference a thread's retain creates or its release gives up
  holder,    \* the thread that holds each counted reference
  initial    \* the thread with the uncounted pointer yobject_create returned

vars == <<object, mutex, owner, refcount, pc, tmp, ref, holder, initial>>

CreatePC  == {"c_lock", "c_init"}
RetainPC  == {"ret_wait", "ret_load", "ret_store", "ret_unlock"}
ReleasePC == {"rel_wait", "rel_test", "rel_store", "rel_unlock",
              "rel_callback", "rel_last_unlock", "rel_destroy", "rel_free"}
LockPC    == {"lck_wait", "lck_held"}
PC        == {"idle"} \cup CreatePC \cup RetainPC \cup ReleasePC \cup LockPC

Counted  == {r \in Ref : holder[r] # NoThread}
Refs(t)  == {r \in Ref : holder[r] = t}
Wrap(n)  == IF n = CountLimit THEN 0 ELSE n

\* What a thread needs before it may pass the pointer to a yobject function.
MayUse(t) == initial = t \/ Refs(t) # {}

TypeOK ==
  /\ object \in {"absent", "raw", "live"}
  /\ mutex \in {"absent", "raw", "ready"}
  /\ owner \in Thread \cup {NoThread}
  /\ refcount \in Nat
  /\ pc \in [Thread -> PC]
  /\ tmp \in [Thread -> Nat]
  /\ ref \in [Thread -> Ref \cup {NoRef}]
  /\ holder \in [Ref -> Thread \cup {NoThread}]
  /\ initial \in Thread \cup {NoThread}

Init ==
  /\ object = "absent"
  /\ mutex = "absent"
  /\ owner = NoThread
  /\ refcount = 0
  /\ pc = [t \in Thread |-> "idle"]
  /\ tmp = [t \in Thread |-> 0]
  /\ ref = [t \in Thread |-> NoRef]
  /\ holder = [r \in Ref |-> NoThread]
  /\ initial = NoThread

Goto(t, l) == pc' = [pc EXCEPT ![t] = l]
Return(t)  == /\ Goto(t, "idle")
              /\ ref' = [ref EXCEPT ![t] = NoRef]

\* pthread_mutex_lock returns once the mutex is free.
Acquire(t, from, to) ==
  /\ pc[t] = from
  /\ owner = NoThread
  /\ owner' = t
  /\ Goto(t, to)
  /\ UNCHANGED <<object, mutex, refcount, tmp, ref, holder, initial>>

\* pthread_mutex_lock returns an error: the call gives up, nothing is held.
LockFails(t, from) ==
  /\ pc[t] = from
  /\ Return(t)
  /\ UNCHANGED <<object, mutex, owner, refcount, tmp, holder, initial>>

-----------------------------------------------------------------------------
(* yobject_create.  Bound: a new object is created only after the previous *)
(* one is gone and no thread is inside a call.                             *)

CreateAllocate(t) ==
  /\ \A u \in Thread : pc[u] = "idle"
  /\ object = "absent"
  /\ mutex = "absent"
  /\ object' = "raw"
  /\ Goto(t, "c_lock")
  /\ UNCHANGED <<mutex, owner, refcount, tmp, ref, holder, initial>>

\* Mutant: the object is not freed when its mutex cannot be allocated.
CreateMutex_Leaks(t) ==
  /\ pc[t] = "c_lock"
  /\ \/ mutex' = "raw" /\ Goto(t, "c_init")
     \/ Goto(t, "idle") /\ UNCHANGED mutex
  /\ UNCHANGED <<object, owner, refcount, tmp, ref, holder, initial>>

CreateMutex(t) ==
  /\ pc[t] = "c_lock"
  /\ \/ /\ mutex' = "raw"
        /\ Goto(t, "c_init")
        /\ UNCHANGED object
     \/ /\ object' = "absent"       \* out of memory
        /\ Goto(t, "idle")
        /\ UNCHANGED mutex
  /\ UNCHANGED <<owner, refcount, tmp, ref, holder, initial>>

CreateInit(t) ==
  /\ pc[t] = "c_init"
  /\ Goto(t, "idle")
  /\ \/ /\ mutex' = "ready"
        /\ object' = "live"
        /\ refcount' = 0
        /\ initial' = t
     \/ /\ mutex' = "absent"        \* pthread_mutex_init failed
        /\ object' = "absent"
        /\ UNCHANGED <<refcount, initial>>
  /\ UNCHANGED <<owner, tmp, ref, holder>>

-----------------------------------------------------------------------------
(* yobject_retain *)

RetainCall(t) ==
  /\ pc[t] = "idle"
  /\ MayUse(t)
  /\ \E r \in Ref \ Counted :
       /\ \A u \in Thread : ref[u] # r
       /\ ref' = [ref EXCEPT ![t] = r]
  /\ Goto(t, "ret_wait")
  /\ UNCHANGED <<object, mutex, owner, refcount, tmp, holder, initial>>

\* Mutant: goes on without the lock.
RetainLock_None(t) ==
  /\ pc[t] = "ret_wait"
  /\ Goto(t, "ret_load")
  /\ UNCHANGED <<object, mutex, owner, refcount, tmp, ref, holder, initial>>

RetainLock(t) == Acquire(t, "ret_wait", "ret_load")
RetainLockFails(t) == LockFails(t, "ret_wait")

RetainLoad(t) ==
  /\ pc[t] = "ret_load"
  /\ tmp' = [tmp EXCEPT ![t] = refcount]
  /\ Goto(t, "ret_store")
  /\ UNCHANGED <<object, mutex, owner, refcount, ref, holder, initial>>

RetainStore(t) ==
  /\ pc[t] = "ret_store"
  /\ refcount' = Wrap(tmp[t] + 1)
  /\ holder' = [holder EXCEPT ![ref[t]] = t]
  /\ Goto(t, "ret_unlock")
  /\ UNCHANGED <<object, mutex, owner, tmp, ref, initial>>

\* Mutant: returns with the lock held.
RetainUnlock_None(t) ==
  /\ pc[t] = "ret_unlock"
  /\ initial' = IF initial = t THEN NoThread ELSE initial
  /\ Return(t)
  /\ UNCHANGED <<object, mutex, owner, refcount, tmp, holder>>

RetainUnlock(t) ==
  /\ pc[t] = "ret_unlock"
  /\ owner' = NoThread
  /\ initial' = IF initial = t THEN NoThread ELSE initial
  /\ Return(t)
  /\ UNCHANGED <<object, mutex, refcount, tmp, holder>>

-----------------------------------------------------------------------------
(* yobject_release.  A thread whose pointer was never counted may release  *)
(* it too: the counter is then 0 and the object is torn down.              *)

ReleaseCall(t) ==
  /\ pc[t] = "idle"
  /\ \/ \E r \in Refs(t) : ref' = [ref EXCEPT ![t] = r]
     \/ initial = t /\ UNCHANGED ref
  /\ Goto(t, "rel_wait")
  /\ UNCHANGED <<object, mutex, owner, refcount, tmp, holder, initial>>

ReleaseLock(t) == Acquire(t, "rel_wait", "rel_test")
ReleaseLockFails(t) == LockFails(t, "rel_wait")

\* Mutant: decrements a counter of 0.
ReleaseTest_NotOne(t) ==
  /\ pc[t] = "rel_test"
  /\ \/ /\ refcount # 1
        /\ tmp' = [tmp EXCEPT ![t] = refcount - 1]
        /\ Goto(t, "rel_store")
     \/ /\ refcount = 1
        /\ Goto(t, "rel_callback")
        /\ UNCHANGED tmp
  /\ UNCHANGED <<object, mutex, owner, refcount, ref, holder, initial>>

\* Mutant: off by one, tears the object down while one more reference is held.
ReleaseTest_Early(t) ==
  /\ pc[t] = "rel_test"
  /\ \/ /\ refcount > 2
        /\ tmp' = [tmp EXCEPT ![t] = refcount - 1]
        /\ Goto(t, "rel_store")
     \/ /\ ~ (refcount > 2)
        /\ Goto(t, "rel_callback")
        /\ UNCHANGED tmp
  /\ UNCHANGED <<object, mutex, owner, refcount, ref, holder, initial>>

ReleaseTest(t) ==
  /\ pc[t] = "rel_test"
  /\ \/ /\ refcount > 1
        /\ tmp' = [tmp EXCEPT ![t] = refcount - 1]
        /\ Goto(t, "rel_store")
     \/ /\ ~ (refcount > 1)
        /\ Goto(t, "rel_callback")
        /\ UNCHANGED tmp
  /\ UNCHANGED <<object, mutex, owner, refcount, ref, holder, initial>>

ReleaseStore(t) ==
  /\ pc[t] = "rel_store"
  /\ refcount' = tmp[t]
  /\ holder' = [holder EXCEPT ![ref[t]] = NoThread]
  /\ Goto(t, "rel_unlock")
  /\ UNCHANGED <<object, mutex, owner, tmp, ref, initial>>

ReleaseUnlock(t) ==
  /\ pc[t] = "rel_unlock"
  /\ owner' = NoThread
  /\ Return(t)
  /\ UNCHANGED <<object, mutex, refcount, tmp, holder, initial>>

\* yptr->release(yptr), the callback given to yobject_create.
ReleaseCallback(t) ==
  /\ pc[t] = "rel_callback"
  /\ object' = IF CallbackFrees THEN "absent" ELSE object
  /\ holder' = [r \in Ref |-> IF r = ref[t] THEN NoThread ELSE holder[r]]
  /\ initial' = IF initial = t THEN NoThread ELSE initial
  /\ Goto(t, "rel_last_unlock")
  /\ UNCHANGED <<mutex, owner, refcount, tmp, ref>>

\* Mutant: the mutex is destroyed locked.
ReleaseLastUnlock_None(t) ==
  /\ pc[t] = "rel_last_unlock"
  /\ Goto(t, "rel_destroy")
  /\ UNCHANGED <<object, mutex, owner, refcount, tmp, ref, holder, initial>>

ReleaseLastUnlock(t) ==
  /\ pc[t] = "rel_last_unlock"
  /\ owner' = NoThread
  /\ Goto(t, "rel_destroy")
  /\ UNCHANGED <<object, mutex, refcount, tmp, ref, holder, initial>>

ReleaseDestroy(t) ==
  /\ pc[t] = "rel_destroy"
  /\ mutex' = "raw"
  /\ Goto(t, "rel_free")
  /\ UNCHANGED <<object, owner, refcount, tmp, ref, holder, initial>>

ReleaseFreeMutex(t) ==
  /\ pc[t] = "rel_free"
  /\ mutex' = "absent"
  /\ Return(t)
  /\ UNCHANGED <<object, owner, refcount, tmp, holder, initial>>

-----------------------------------------------------------------------------
(* yobject_lock and yobject_unlock, called by a thread that holds a        *)
(* reference.  Between the two it does nothing else with the object: every *)
(* other function takes the same, non-recursive, mutex.                    *)

LockCall(t) ==
  /\ pc[t] = "idle"
  /\ MayUse(t)
  /\ Goto(t, "lck_wait")
  /\ UNCHANGED <<object, mutex, owner, refcount, tmp, ref, holder, initial>>

LockAcquire(t) == Acquire(t, "lck_wait", "lck_held")
LockGivesUp(t) == LockFails(t, "lck_wait")

Unlock(t) ==
  /\ pc[t] = "lck_held"
  /\ owner' = NoThread
  /\ Goto(t, "idle")
  /\ UNCHANGED <<object, mutex, refcount, tmp, ref, holder, initial>>

-----------------------------------------------------------------------------
(* A caller hands one of its references, or the uncounted pointer it got   *)
(* from yobject_create, to another thread.                                 *)

Give(t, u) ==
  /\ pc[t] = "idle"
  /\ u # t
  /\ \/ /\ \E r \in Refs(t) : holder' = [holder EXCEPT ![r] = u]
        /\ UNCHANGED initial
     \/ /\ initial = t
        /\ initial' = u
        /\ UNCHANGED holder
  /\ UNCHANGED <<object, mutex, owner, refcount, pc, tmp, ref>>

Retain(t) ==
  \/ RetainLock(t) \/ RetainLoad(t) \/ RetainStore(t) \/ RetainUnlock(t)

Release(t) ==
  \/ ReleaseLock(t) \/ ReleaseTest(t) \/ ReleaseStore(t) \/ ReleaseUnlock(t)
  \/ ReleaseCallback(t) \/ ReleaseLastUnlock(t) \/ ReleaseDestroy(t)
  \/ ReleaseFreeMutex(t)

Next ==
  \E t \in Thread :
    \/ CreateAllocate(t) \/ CreateMutex(t) \/ CreateInit(t)
    \/ RetainCall(t) \/ RetainLockFails(t) \/ Retain(t)
    \/ ReleaseCall(t) \/ ReleaseLockFails(t) \/ Release(t)
    \/ LockCall(t) \/ LockAcquire(t) \/ LockGivesUp(t) \/ Unlock(t)
    \/ \E u \in Thread : Give(t, u)

Spec == Init /\ [][Next]_vars

\* Threads inside a call keep running and blocked ones are served in the end.
Fairness ==
  \A t \in Thread :
    /\ WF_vars(CreateMutex(t) \/ CreateInit(t))
    /\ WF_vars(RetainLoad(t) \/ RetainStore(t) \/ RetainUnlock(t))
    /\ WF_vars(ReleaseTest(t) \/ ReleaseStore(t) \/ ReleaseUnlock(t)
               \/ ReleaseCallback(t) \/ ReleaseLastUnlock(t)
               \/ ReleaseDestroy(t) \/ ReleaseFreeMutex(t))
    /\ WF_vars(Unlock(t))
    /\ SF_vars(RetainLock(t) \/ ReleaseLock(t) \/ LockAcquire(t))

FairSpec == Spec /\ Fairness

-----------------------------------------------------------------------------
(* What the module checks *)

\* The steps that read or write the memory of the object, and of the mutex.
TouchesObject == {"ret_load", "ret_store", "ret_unlock", "rel_test",
                  "rel_store", "rel_callback", "lck_held"}
TouchesMutex  == (RetainPC \cup ReleasePC \cup LockPC) \ {"rel_free"}

\* No use after free: whenever a thread is about to touch the object or the
\* mutex, or has the right to call yobject_retain, yobject_release or
\* yobject_lock, that memory is still there and is initialised.
NoUseAfterFree ==
  \A t \in Thread :
    /\ pc[t] \in TouchesObject => object = "live"
    /\ pc[t] \in TouchesMutex => mutex = "ready"
    /\ pc[t] = "idle" /\ MayUse(t) => object = "live" /\ mutex = "ready"

\* As long as some thread may use the object, the counter equals the number of
\* references held: no increment or decrement of two racing calls is lost.
CountIsExact ==
  (\E t \in Thread : MayUse(t)) => refcount = Cardinality(Counted)

\* When nobody is inside a call and nobody holds the pointer, neither the
\* object nor its mutex is still allocated (last release, failed create).
NoLeak ==
  (\A t \in Thread : pc[t] = "idle" /\ ~ MayUse(t)) =>
     object = "absent" /\ mutex = "absent"

\* The mutex is destroyed only when no thread holds it or waits for it.
DestroyedIdle ==
  \A t \in Thread : pc[t] \in {"rel_destroy", "rel_free"} =>
    /\ owner = NoThread
    /\ \A u \in Thread \ {t} : pc[u] = "idle"

\* The release callback destroys the object only in the call that gives up
\* the only reference left.
FreedByLastHolder ==
  [][object = "live" /\ object' = "absent" =>
       \E t \in Thread :
         /\ pc[t] = "rel_callback"
         /\ \A u \in Thread \ {t} : Refs(u) = {} /\ initial # u
         /\ Refs(t) \subseteq {ref[t]}]_vars

\* Every call that a thread starts returns, whatever the others do.
CallsReturn == \A t \in Thread : pc[t] # "idle" ~> pc[t] = "idle"
=============================================================================

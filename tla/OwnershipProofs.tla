-------------------------- MODULE OwnershipProofs --------------------------
(***************************************************************************)
(* Who may use and free what: a counted object that threads share          *)
(* (Yobject), and the elements that pass through an array (YArray), for    *)
(* every number of threads, references and elements.                       *)
(***************************************************************************)
EXTENDS Yobject, YArray, FiniteSetTheorems, TLAPS

-----------------------------------------------------------------------------
(***************************************************************************)
(* Yobject: no use after free, an exact counter, a quiet teardown and no   *)
(* leak.                                                                   *)
(*                                                                         *)
(* None of these is inductive.  That the counter is exact needs the lock   *)
(* (a thread between its load and its store still sees the value it        *)
(* loaded); that the lock protects the counter needs the mutex to be alive *)
(* while threads queue for it; that the mutex is alive needs the counter   *)
(* to be exact.  IInv states the three together.                           *)
(***************************************************************************)

\* A thread at one of these holds the mutex.
Critical == {"ret_load", "ret_store", "ret_unlock", "rel_test", "rel_store",
             "rel_unlock", "rel_callback", "rel_last_unlock", "lck_held"}

\* A thread at one of these still holds a reference or the initial pointer.
Using == RetainPC \cup LockPC
           \cup {"rel_wait", "rel_test", "rel_store", "rel_callback"}

\* A thread at one of these is alone with the object.
Alone == CreatePC \cup {"rel_last_unlock", "rel_destroy", "rel_free"}

InUse == \E t \in Thread : MayUse(t)

LockInv == \A t \in Thread : owner = t <=> pc[t] \in Critical

RefUnique == \A t, u \in Thread : t # u /\ ref[t] = ref[u] => ref[t] = NoRef

\* The reference a call works on, and what the thread has read under the lock.
CallInv ==
  \A t \in Thread :
    /\ pc[t] \in {"idle"} \cup CreatePC \cup LockPC => ref[t] = NoRef
    /\ pc[t] \in RetainPC => ref[t] \in Ref
    /\ pc[t] \in {"ret_wait", "ret_load", "ret_store", "rel_unlock"} =>
         ref[t] \in Ref /\ holder[ref[t]] = NoThread
    /\ pc[t] = "ret_store" => tmp[t] = refcount
    /\ pc[t] = "ret_unlock" => holder[ref[t]] = t
    /\ pc[t] \in {"rel_wait", "rel_test", "rel_store", "rel_callback"} =>
         \/ ref[t] \in Ref /\ holder[ref[t]] = t
         \/ ref[t] = NoRef /\ initial = t
    /\ pc[t] = "rel_store" =>
         ref[t] \in Ref /\ refcount > 1 /\ tmp[t] = refcount - 1
    /\ pc[t] = "rel_unlock" => Counted # {}
    /\ pc[t] = "rel_callback" => refcount <= 1
    /\ pc[t] \in Using => MayUse(t)

MemoryInv ==
  /\ InUse => object = "live" /\ mutex = "ready"
  /\ \A t \in Thread :
       /\ pc[t] \in {"rel_last_unlock", "rel_destroy"} => mutex = "ready"
       /\ pc[t] = "rel_free" => mutex = "raw"
       /\ pc[t] = "c_lock" => object = "raw" /\ mutex = "absent"
       /\ pc[t] = "c_init" => object = "raw" /\ mutex = "raw"
       /\ pc[t] \in Alone \ CreatePC /\ CallbackFrees => object = "absent"
  /\ ~ InUse /\ (\A t \in Thread : pc[t] \notin Alone) =>
       mutex = "absent" /\ (CallbackFrees => object = "absent")

CountInv == InUse => refcount = Cardinality(Counted)

AloneInv ==
  \A t \in Thread : pc[t] \in Alone =>
    /\ \A u \in Thread \ {t} : pc[u] = "idle"
    /\ Counted = {}
    /\ initial = NoThread

\* The first yobject_retain turns the initial pointer into a counted reference.
InitialInv ==
  initial # NoThread =>
    \/ Counted = {}
    \/ pc[initial] = "ret_unlock" /\ Counted = {ref[initial]}

IInv == /\ TypeOK /\ LockInv /\ RefUnique /\ CallInv
        /\ MemoryInv /\ CountInv /\ AloneInv /\ InitialInv

-----------------------------------------------------------------------------
(* Counted and MayUse across a step *)

\* Counting one reference more adds exactly one to the cardinality.
LEMMA CountedAdd ==
  ASSUME TypeOK, NEW r \in Ref, holder[r] = NoThread, NEW t \in Thread,
         holder' = [holder EXCEPT ![r] = t]
  PROVE  /\ Counted' = Counted \cup {r}
         /\ Cardinality(Counted') = Cardinality(Counted) + 1
<1>1. Counted' = Counted \cup {r} /\ r \notin Counted
  BY YobjectAssumption DEF Counted, TypeOK
<1>2. IsFiniteSet(Counted)
  BY YobjectAssumption, FS_Subset DEF Counted
<1>. QED  BY <1>1, <1>2, FS_AddElement

\* Uncounting a held reference takes exactly one from the cardinality.
LEMMA CountedRemove ==
  ASSUME TypeOK, NEW r \in Ref, holder[r] # NoThread,
         holder' = [holder EXCEPT ![r] = NoThread]
  PROVE  /\ Counted' = Counted \ {r}
         /\ Cardinality(Counted') = Cardinality(Counted) - 1
<1>1. Counted' = Counted \ {r} /\ r \in Counted
  BY DEF Counted, TypeOK
<1>2. IsFiniteSet(Counted)
  BY YobjectAssumption, FS_Subset DEF Counted
<1>. QED  BY <1>1, <1>2, FS_RemoveElement

\* The number of counted references fits the counter.
LEMMA CountedBound ==
  ASSUME TypeOK
  PROVE  /\ IsFiniteSet(Counted)
         /\ Cardinality(Counted) \in Nat
         /\ \A r \in Ref : holder[r] = NoThread =>
              Cardinality(Counted) + 1 < CountLimit
<1>1. IsFiniteSet(Counted) /\ Cardinality(Counted) \in Nat
  BY YobjectAssumption, FS_Subset, FS_CardinalityType DEF Counted
<1>2. ASSUME NEW r \in Ref, holder[r] = NoThread
      PROVE  Cardinality(Counted) + 1 < CountLimit
  <2>1. Counted \cup {r} \subseteq Ref /\ r \notin Counted
    BY <1>2 DEF Counted
  <2>2. Cardinality(Counted \cup {r}) = Cardinality(Counted) + 1
    BY <1>1, <2>1, FS_AddElement
  <2>3. Cardinality(Counted \cup {r}) <= Cardinality(Ref)
    BY <2>1, YobjectAssumption, FS_Subset
  <2>. QED  BY <1>1, <2>2, <2>3, YobjectAssumption, FS_CardinalityType
<1>. QED  BY <1>1, <1>2

\* The counter is 0 when, and only when, nothing is counted.
LEMMA CountedZero ==
  ASSUME TypeOK
  PROVE  /\ Cardinality(Counted) = 0 <=> Counted = {}
         /\ \A r \in Counted : Cardinality(Counted) <= 1 => Counted = {r}
<1>1. Cardinality(Counted) = 0 <=> Counted = {}
  BY CountedBound, FS_EmptySet
<1>2. ASSUME NEW r \in Counted, Cardinality(Counted) <= 1
      PROVE  Counted = {r}
  <2>1. Cardinality(Counted \ {r}) = Cardinality(Counted) - 1 /\ IsFiniteSet(Counted \ {r})
    BY CountedBound, FS_RemoveElement
  <2>2. Cardinality(Counted \ {r}) = 0
    BY <1>2, <2>1, CountedBound, FS_CardinalityType
  <2>. QED  BY <2>1, <2>2, FS_EmptySet
<1>. QED  BY <1>1, <1>2

\* A thread may use the object only if a reference is counted or it is initial.
LEMMA InUseCounted ==
  ASSUME TypeOK
  PROVE  InUse <=> Counted # {} \/ initial # NoThread
BY YobjectAssumption DEF InUse, MayUse, Refs, Counted, TypeOK

\* A step that moves no reference changes nothing that is counted.
LEMMA SameHolders ==
  ASSUME holder' = holder, initial' = initial
  PROVE  /\ Counted' = Counted
         /\ InUse' <=> InUse
         /\ \A u \in Thread : MayUse(u)' <=> MayUse(u)
BY DEF Counted, InUse, MayUse, Refs

-----------------------------------------------------------------------------
(* One lemma for each action *)

LEMMA InitIInv == Init => IInv
<1>. SUFFICES ASSUME Init PROVE IInv
  OBVIOUS
<1>1. Counted = {} /\ ~ InUse
  BY YobjectAssumption DEF Init, InUse, MayUse, Refs, Counted
<1>. QED
  BY <1>1, YobjectAssumption DEF Init, IInv, TypeOK, LockInv, RefUnique, CallInv,
     MemoryInv, CountInv, AloneInv, InitialInv, PC, CreatePC, RetainPC, LockPC,
     ReleasePC, Critical, Using, Alone

LEMMA StepCreateAllocate ==
  ASSUME IInv, NEW t \in Thread, CreateAllocate(t)
  PROVE  IInv'
<1>1. ~ InUse /\ Counted = {} /\ initial = NoThread
  BY InUseCounted DEF IInv, MemoryInv, AloneInv, Alone, CreatePC, CreateAllocate
<1>. QED
  BY <1>1, SameHolders, YobjectAssumption DEF CreateAllocate, Goto,
     IInv, TypeOK, LockInv, RefUnique,
     CallInv, MemoryInv, CountInv, AloneInv, InitialInv, PC, CreatePC,
     RetainPC, LockPC, ReleasePC, Critical, Using, Alone

LEMMA StepCreateMutex ==
  ASSUME IInv, NEW t \in Thread, CreateMutex(t)
  PROVE  IInv'
<1>1. ~ InUse /\ Counted = {} /\ initial = NoThread
  BY InUseCounted DEF IInv, MemoryInv, AloneInv, Alone, CreatePC, CreateMutex
<1>. QED
  BY <1>1, SameHolders, YobjectAssumption DEF CreateMutex, Goto,
     IInv, TypeOK, LockInv, RefUnique,
     CallInv, MemoryInv, CountInv, AloneInv, InitialInv, PC, CreatePC,
     RetainPC, LockPC, ReleasePC, Critical, Using, Alone

LEMMA StepRetainCall ==
  ASSUME IInv, NEW t \in Thread, RetainCall(t)
  PROVE  IInv'
<1>. USE DEF RetainCall, Goto
<1>1. InUse /\ \A u \in Thread : pc[u] \notin Alone
  BY InUseCounted DEF IInv, AloneInv, InUse
<1>2. PICK r \in Ref \ Counted : /\ \A u \in Thread : ref[u] # r
                                 /\ ref' = [ref EXCEPT ![t] = r]
  OBVIOUS
<1>3. TypeOK' /\ LockInv'
  BY <1>2 DEF IInv, TypeOK, LockInv, PC, CreatePC, RetainPC, LockPC, ReleasePC,
     Critical
<1>4. RefUnique'
  BY <1>2 DEF IInv, RefUnique, TypeOK
<1>5. CallInv'
  <2>1. holder[r] = NoThread /\ r \in Ref
    BY <1>2 DEF Counted
  <2>. QED
    BY <1>2, <2>1, SameHolders DEF IInv, CallInv, TypeOK, CreatePC, RetainPC,
       LockPC, Using
<1>6. MemoryInv' /\ CountInv'
  BY <1>1, SameHolders DEF IInv, MemoryInv, CountInv, TypeOK, Alone, CreatePC
<1>7. AloneInv' /\ InitialInv'
  BY <1>1, <1>2, SameHolders DEF IInv, AloneInv, InitialInv, TypeOK, Alone, CreatePC
<1>. QED  BY <1>3, <1>4, <1>5, <1>6, <1>7 DEF IInv

LEMMA StepReleaseCall ==
  ASSUME IInv, NEW t \in Thread, ReleaseCall(t)
  PROVE  IInv'
<1>. USE DEF ReleaseCall, Goto
<1>1. MayUse(t) /\ InUse /\ \A u \in Thread : pc[u] \notin Alone
  BY InUseCounted DEF IInv, AloneInv, InUse, MayUse
<1>2. \/ \E r \in Ref : holder[r] = t /\ ref' = [ref EXCEPT ![t] = r]
      \/ initial = t /\ ref' = ref /\ ref[t] = NoRef
  BY DEF Refs, IInv, CallInv
<1>3. TypeOK' /\ LockInv'
  BY <1>2 DEF IInv, TypeOK, LockInv, PC, CreatePC, RetainPC, LockPC, ReleasePC,
     Critical
<1>4. RefUnique'
  <2>1. ASSUME NEW r \in Ref, holder[r] = t, NEW u \in Thread, u # t
        PROVE  ref[u] # r
    BY <1>1, <2>1, YobjectAssumption DEF IInv, CallInv, TypeOK, PC, CreatePC,
       RetainPC, LockPC, ReleasePC, Alone
  <2>. QED  BY <1>2, <2>1 DEF IInv, RefUnique, TypeOK
<1>5. CallInv'
  BY <1>1, <1>2, SameHolders, YobjectAssumption DEF IInv, CallInv, TypeOK,
     CreatePC, RetainPC, LockPC, Using
<1>6. MemoryInv' /\ CountInv'
  BY <1>1, SameHolders DEF IInv, MemoryInv, CountInv, TypeOK, Alone, CreatePC
<1>7. AloneInv' /\ InitialInv'
  BY <1>1, <1>2, SameHolders DEF IInv, AloneInv, InitialInv, TypeOK, Alone, CreatePC
<1>. QED  BY <1>3, <1>4, <1>5, <1>6, <1>7 DEF IInv

LEMMA StepLockCall ==
  ASSUME IInv, NEW t \in Thread, LockCall(t)
  PROVE  IInv'
<1>1. InUse /\ \A u \in Thread : pc[u] \notin Alone
  BY InUseCounted DEF IInv, AloneInv, CallInv, Using, InUse, MayUse, Refs,
     TypeOK, LockCall
<1>2. MayUse(t)
  BY DEF MayUse, Refs, LockCall
<1>. QED
  BY <1>1, <1>2, SameHolders, YobjectAssumption DEF LockCall, Goto,
     IInv, TypeOK, LockInv, RefUnique,
     CallInv, MemoryInv, CountInv, AloneInv, InitialInv, PC, CreatePC,
     RetainPC, LockPC, ReleasePC, Critical, Using, Alone

LEMMA StepRetainLoad ==
  ASSUME IInv, NEW t \in Thread, RetainLoad(t)
  PROVE  IInv'
<1>. QED
  BY SameHolders, YobjectAssumption DEF RetainLoad, Goto,
     IInv, TypeOK, LockInv, RefUnique,
     CallInv, MemoryInv, CountInv, AloneInv, InitialInv, PC, CreatePC,
     RetainPC, LockPC, ReleasePC, Critical, Using, Alone

LEMMA StepUnlock ==
  ASSUME IInv, NEW t \in Thread, Unlock(t)
  PROVE  IInv'
<1>. QED
  BY SameHolders, YobjectAssumption DEF Unlock, Goto,
     IInv, TypeOK, LockInv, RefUnique,
     CallInv, MemoryInv, CountInv, AloneInv, InitialInv, PC, CreatePC,
     RetainPC, LockPC, ReleasePC, Critical, Using, Alone

LEMMA StepRetainLock ==
  ASSUME IInv, NEW t \in Thread, RetainLock(t)
  PROVE  IInv'
<1>. QED
  BY SameHolders, YobjectAssumption DEF RetainLock, Acquire, Goto,
     IInv, TypeOK, LockInv, RefUnique,
     CallInv, MemoryInv, CountInv, AloneInv, InitialInv, PC, CreatePC,
     RetainPC, LockPC, ReleasePC, Critical, Using, Alone

LEMMA StepReleaseLock ==
  ASSUME IInv, NEW t \in Thread, ReleaseLock(t)
  PROVE  IInv'
<1>. QED
  BY SameHolders, YobjectAssumption DEF ReleaseLock, Acquire, Goto,
     IInv, TypeOK, LockInv, RefUnique,
     CallInv, MemoryInv, CountInv, AloneInv, InitialInv, PC, CreatePC,
     RetainPC, LockPC, ReleasePC, Critical, Using, Alone

LEMMA StepLockAcquire ==
  ASSUME IInv, NEW t \in Thread, LockAcquire(t)
  PROVE  IInv'
<1>. QED
  BY SameHolders, YobjectAssumption DEF LockAcquire, Acquire, Goto,
     IInv, TypeOK, LockInv, RefUnique,
     CallInv, MemoryInv, CountInv, AloneInv, InitialInv, PC, CreatePC,
     RetainPC, LockPC, ReleasePC, Critical, Using, Alone

LEMMA StepRetainLockFails ==
  ASSUME IInv, NEW t \in Thread, RetainLockFails(t)
  PROVE  IInv'
<1>. QED
  BY SameHolders, YobjectAssumption DEF RetainLockFails, LockFails, Return, Goto,
     IInv, TypeOK, LockInv, RefUnique,
     CallInv, MemoryInv, CountInv, AloneInv, InitialInv, PC, CreatePC,
     RetainPC, LockPC, ReleasePC, Critical, Using, Alone

LEMMA StepReleaseLockFails ==
  ASSUME IInv, NEW t \in Thread, ReleaseLockFails(t)
  PROVE  IInv'
<1>. QED
  BY SameHolders, YobjectAssumption DEF ReleaseLockFails, LockFails, Return, Goto,
     IInv, TypeOK, LockInv, RefUnique,
     CallInv, MemoryInv, CountInv, AloneInv, InitialInv, PC, CreatePC,
     RetainPC, LockPC, ReleasePC, Critical, Using, Alone

LEMMA StepLockGivesUp ==
  ASSUME IInv, NEW t \in Thread, LockGivesUp(t)
  PROVE  IInv'
<1>. QED
  BY SameHolders, YobjectAssumption DEF LockGivesUp, LockFails, Return, Goto,
     IInv, TypeOK, LockInv, RefUnique,
     CallInv, MemoryInv, CountInv, AloneInv, InitialInv, PC, CreatePC,
     RetainPC, LockPC, ReleasePC, Critical, Using, Alone

LEMMA StepReleaseUnlock ==
  ASSUME IInv, NEW t \in Thread, ReleaseUnlock(t)
  PROVE  IInv'
<1>. QED
  BY SameHolders, YobjectAssumption DEF ReleaseUnlock, Return, Goto,
     IInv, TypeOK, LockInv, RefUnique,
     CallInv, MemoryInv, CountInv, AloneInv, InitialInv, PC, CreatePC,
     RetainPC, LockPC, ReleasePC, Critical, Using, Alone

LEMMA StepReleaseLastUnlock ==
  ASSUME IInv, NEW t \in Thread, ReleaseLastUnlock(t)
  PROVE  IInv'
<1>. QED
  BY SameHolders, YobjectAssumption DEF ReleaseLastUnlock, Return, Goto,
     IInv, TypeOK, LockInv, RefUnique,
     CallInv, MemoryInv, CountInv, AloneInv, InitialInv, PC, CreatePC,
     RetainPC, LockPC, ReleasePC, Critical, Using, Alone

LEMMA StepReleaseDestroy ==
  ASSUME IInv, NEW t \in Thread, ReleaseDestroy(t)
  PROVE  IInv'
<1>1. ~ InUse /\ Counted = {} /\ initial = NoThread
  BY InUseCounted DEF IInv, MemoryInv, AloneInv, Alone, CreatePC, ReleaseDestroy
<1>. QED
  BY <1>1, SameHolders, YobjectAssumption DEF ReleaseDestroy, Goto,
     IInv, TypeOK, LockInv, RefUnique,
     CallInv, MemoryInv, CountInv, AloneInv, InitialInv, PC, CreatePC,
     RetainPC, LockPC, ReleasePC, Critical, Using, Alone

LEMMA StepReleaseFreeMutex ==
  ASSUME IInv, NEW t \in Thread, ReleaseFreeMutex(t)
  PROVE  IInv'
<1>. QED
  BY SameHolders, YobjectAssumption DEF ReleaseFreeMutex, Return, Goto,
     IInv, TypeOK, LockInv, RefUnique,
     CallInv, MemoryInv, CountInv, AloneInv, InitialInv, PC, CreatePC,
     RetainPC, LockPC, ReleasePC, Critical, Using, Alone

LEMMA StepReleaseTest ==
  ASSUME IInv, NEW t \in Thread, ReleaseTest(t)
  PROVE  IInv'
<1>1. InUse /\ \A u \in Thread : pc[u] \notin Alone
  BY InUseCounted DEF IInv, AloneInv, CallInv, Using, InUse, MayUse, Refs,
     TypeOK, ReleaseTest
<1>2. refcount > 1 => ref[t] \in Ref
  <2>1. refcount = Cardinality(Counted)
    BY <1>1 DEF IInv, CountInv
  <2>2. ref[t] \notin Ref => Counted = {}
    BY YobjectAssumption DEF IInv, CallInv, InitialInv, TypeOK, ReleaseTest
  <2>. QED  BY <2>1, <2>2, CountedZero DEF IInv
<1>. QED
  BY <1>1, <1>2, SameHolders, YobjectAssumption DEF ReleaseTest, Goto,
     IInv, TypeOK, LockInv, RefUnique,
     CallInv, MemoryInv, CountInv, AloneInv, InitialInv, PC, CreatePC,
     RetainPC, LockPC, ReleasePC, Critical, Using, Alone

LEMMA StepCreateInit ==
  ASSUME IInv, NEW t \in Thread, CreateInit(t)
  PROVE  IInv'
<1>. USE DEF CreateInit, Goto
<1>1. /\ ~ InUse /\ Counted = {} /\ initial = NoThread
      /\ \A u \in Thread \ {t} : pc[u] = "idle"
  BY InUseCounted DEF IInv, AloneInv, Alone, CreatePC
<1>2. Counted' = {}
  BY <1>1 DEF Counted
<1>3. TypeOK' /\ LockInv' /\ RefUnique'
  BY DEF IInv, TypeOK, LockInv, RefUnique, PC, CreatePC, RetainPC, LockPC,
     ReleasePC, Critical
<1>4. \A u \in Thread : pc'[u] = "idle" /\ ref'[u] = NoRef
  BY <1>1 DEF IInv, TypeOK, CallInv, CreatePC
<1>5. CallInv'
  BY <1>4 DEF CallInv, CreatePC, RetainPC, LockPC, Using
<1>6. InUse' => object' = "live" /\ mutex' = "ready" /\ refcount' = 0
  BY <1>1, <1>2, <1>3, InUseCounted, YobjectAssumption DEF InUse, MayUse, Refs, Counted
<1>7. object' = "live" => InUse'
  BY <1>1 DEF InUse, MayUse, IInv, MemoryInv
<1>8. MemoryInv'
  BY <1>4, <1>6, <1>7 DEF MemoryInv, Alone, CreatePC, InUse, MayUse
<1>9. CountInv' /\ AloneInv' /\ InitialInv'
  BY <1>2, <1>4, <1>6, FS_EmptySet DEF CountInv, AloneInv, InitialInv, Alone, CreatePC
<1>. QED  BY <1>3, <1>5, <1>8, <1>9 DEF IInv

LEMMA StepRetainStore ==
  ASSUME IInv, NEW t \in Thread, RetainStore(t)
  PROVE  IInv'
<1>. USE DEF RetainStore, Goto
<1>1. /\ ref[t] \in Ref /\ holder[ref[t]] = NoThread /\ tmp[t] = refcount
      /\ MayUse(t) /\ InUse /\ owner = t
  BY DEF IInv, CallInv, LockInv, Critical, Using, RetainPC, InUse
<1>2. \A u \in Thread : pc[u] \notin Alone
  BY <1>1, InUseCounted DEF IInv, AloneInv
<1>3. refcount = Cardinality(Counted) /\ refcount + 1 < CountLimit
  BY <1>1, CountedBound DEF IInv, CountInv
<1>4. /\ Counted' = Counted \cup {ref[t]}
      /\ Cardinality(Counted') = Cardinality(Counted) + 1
  BY <1>1, CountedAdd DEF IInv
<1>5. \A u \in Thread : MayUse(u) => MayUse(u)'
  BY <1>1, YobjectAssumption DEF MayUse, Refs, IInv, TypeOK
<1>6. TypeOK' /\ LockInv' /\ RefUnique'
  BY <1>1, <1>3 DEF Wrap, IInv, TypeOK, LockInv, RefUnique, PC, CreatePC,
     RetainPC, LockPC, ReleasePC, Critical
<1>7. CallInv'
  <2>1. \A u \in Thread \ {t} : pc[u] \notin Critical /\ ref[u] # ref[t]
    BY <1>1, YobjectAssumption DEF IInv, LockInv, RefUnique
  <2>2. ASSUME NEW u \in Thread \ {t}, NEW r \in Ref, r # ref[t]
        PROVE  holder'[r] = holder[r]
    BY <2>2 DEF IInv, TypeOK
  <2>. QED
    BY <1>1, <1>4, <1>5, <2>1, <2>2 DEF IInv, CallInv, TypeOK, CreatePC,
       RetainPC, LockPC, Using, Critical
<1>8. MemoryInv' /\ AloneInv'
  BY <1>1, <1>2, <1>5 DEF IInv, MemoryInv, AloneInv, InUse, TypeOK, Alone, CreatePC
<1>9. CountInv'
  BY <1>1, <1>3, <1>4, YobjectAssumption DEF CountInv, Wrap, IInv, TypeOK
<1>10. InitialInv'
  <2>1. initial # NoThread => Counted = {} /\ initial = t
    BY <1>1, YobjectAssumption DEF IInv, InitialInv, LockInv, Critical, TypeOK,
       MayUse, Refs, Counted
  <2>. QED  BY <1>4, <2>1 DEF InitialInv, IInv, TypeOK
<1>. QED  BY <1>6, <1>7, <1>8, <1>9, <1>10 DEF IInv

LEMMA StepRetainUnlock ==
  ASSUME IInv, NEW t \in Thread, RetainUnlock(t)
  PROVE  IInv'
<1>. USE DEF RetainUnlock, Return, Goto
<1>1. ref[t] \in Ref /\ holder[ref[t]] = t /\ MayUse(t) /\ InUse /\ owner = t
  BY DEF IInv, CallInv, LockInv, Critical, Using, RetainPC, InUse
<1>2. \A u \in Thread : pc[u] \notin Alone
  BY <1>1, InUseCounted DEF IInv, AloneInv
<1>3. Counted' = Counted
  BY DEF Counted
<1>4. MayUse(t)' /\ InUse' /\ \A u \in Thread \ {t} : MayUse(u)' <=> MayUse(u)
  BY <1>1, YobjectAssumption DEF MayUse, Refs, InUse
<1>5. TypeOK' /\ LockInv' /\ RefUnique'
  BY <1>1, YobjectAssumption DEF IInv, TypeOK, LockInv, RefUnique, PC, CreatePC,
     RetainPC, LockPC, ReleasePC, Critical
<1>6. CallInv'
  BY <1>1, <1>3, <1>4, YobjectAssumption DEF IInv, CallInv, TypeOK, CreatePC,
     RetainPC, LockPC, Using
<1>7. MemoryInv' /\ CountInv' /\ AloneInv'
  BY <1>1, <1>2, <1>3, <1>4 DEF IInv, MemoryInv, CountInv, AloneInv, TypeOK,
     Alone, CreatePC
<1>8. InitialInv'
  <2>1. initial # NoThread => initial = t
    <3>1. Counted # {}
      BY <1>1, YobjectAssumption DEF Counted
    <3>. QED
      BY <1>1, <3>1, YobjectAssumption DEF IInv, InitialInv, LockInv, Critical, TypeOK
  <2>. QED  BY <2>1 DEF InitialInv
<1>. QED  BY <1>5, <1>6, <1>7, <1>8 DEF IInv

LEMMA StepReleaseStore ==
  ASSUME IInv, NEW t \in Thread, ReleaseStore(t)
  PROVE  IInv'
<1>. USE DEF ReleaseStore, Goto
<1>1. /\ ref[t] \in Ref /\ holder[ref[t]] = t /\ owner = t
      /\ refcount > 1 /\ tmp[t] = refcount - 1 /\ MayUse(t) /\ InUse
  BY YobjectAssumption DEF IInv, CallInv, LockInv, Critical, Using, InUse
<1>2. \A u \in Thread : pc[u] \notin Alone
  BY <1>1, InUseCounted DEF IInv, AloneInv
<1>3. refcount = Cardinality(Counted)
  BY <1>1 DEF IInv, CountInv
<1>4. /\ Counted' = Counted \ {ref[t]}
      /\ Cardinality(Counted') = Cardinality(Counted) - 1
  BY <1>1, CountedRemove, YobjectAssumption DEF IInv
<1>5. TypeOK' /\ LockInv' /\ RefUnique'
  BY <1>1 DEF IInv, TypeOK, LockInv, RefUnique, PC, CreatePC, RetainPC, LockPC,
     ReleasePC, Critical
<1>6. Counted' # {} /\ InUse'
  <2>1. Cardinality(Counted') # 0
    BY <1>1, <1>3, <1>4 DEF IInv, TypeOK
  <2>2. Counted' # {}
    BY <2>1, FS_EmptySet
  <2>. QED  BY <1>5, <2>2, YobjectAssumption DEF InUse, MayUse, Refs, Counted, TypeOK
<1>7. initial = NoThread
  <2>1. Counted # {}
    BY <1>1, YobjectAssumption DEF Counted
  <2>. QED
    BY <1>1, <2>1, YobjectAssumption DEF IInv, InitialInv, LockInv, Critical, TypeOK
<1>8. \A u \in Thread \ {t} : MayUse(u)' <=> MayUse(u)
  BY <1>1, YobjectAssumption DEF MayUse, Refs, IInv, TypeOK
<1>9. CallInv'
  <2>1. \A u \in Thread \ {t} : pc[u] \notin Critical /\ ref[u] # ref[t]
    BY <1>1, YobjectAssumption DEF IInv, LockInv, RefUnique
  <2>2. ASSUME NEW u \in Thread \ {t}, NEW r \in Ref, r # ref[t]
        PROVE  holder'[r] = holder[r]
    BY <2>2 DEF IInv, TypeOK
  <2>. QED
    BY <1>1, <1>6, <1>8, <2>1, <2>2, YobjectAssumption DEF IInv, CallInv, TypeOK,
       CreatePC, RetainPC, LockPC, Using, Critical
<1>10. MemoryInv' /\ AloneInv' /\ InitialInv'
  BY <1>1, <1>2, <1>6, <1>7 DEF IInv, MemoryInv, AloneInv, InitialInv, TypeOK,
     Alone, CreatePC
<1>11. CountInv'
  BY <1>1, <1>3, <1>4 DEF CountInv
<1>. QED  BY <1>5, <1>9, <1>10, <1>11 DEF IInv

LEMMA StepReleaseCallback ==
  ASSUME IInv, NEW t \in Thread, ReleaseCallback(t)
  PROVE  /\ IInv'
         /\ \A u \in Thread \ {t} : Refs(u) = {} /\ initial # u
         /\ Refs(t) \subseteq {ref[t]}
<1>. USE DEF ReleaseCallback, Goto
<1>1. /\ owner = t /\ MayUse(t) /\ InUse /\ refcount <= 1
      /\ \/ ref[t] \in Ref /\ holder[ref[t]] = t
         \/ ref[t] = NoRef /\ initial = t
  BY DEF IInv, CallInv, LockInv, Critical, Using, InUse
<1>2. mutex = "ready" /\ refcount = Cardinality(Counted)
  BY <1>1 DEF IInv, MemoryInv, CountInv
\* With a count of at most 1, the caller's reference is the only one.
<1>3. \/ ref[t] \in Ref /\ Counted = {ref[t]} /\ initial = NoThread
      \/ ref[t] = NoRef /\ Counted = {} /\ initial = t
  <2>1. CASE ref[t] \in Ref /\ holder[ref[t]] = t
    <3>1. ref[t] \in Counted
      BY <2>1, YobjectAssumption DEF Counted
    <3>2. Counted = {ref[t]}
      BY <1>1, <1>2, <3>1, CountedZero DEF IInv
    <3>. QED
      BY <1>1, <2>1, <3>1, <3>2, YobjectAssumption
      DEF IInv, InitialInv, LockInv, Critical, TypeOK
  <2>2. CASE ref[t] = NoRef /\ initial = t
    BY <2>2, YobjectAssumption DEF IInv, InitialInv
  <2>. QED  BY <1>1, <2>1, <2>2
<1>4. Counted' = {} /\ initial' = NoThread
  BY <1>3, YobjectAssumption DEF Counted
<1>5. /\ \A u \in Thread \ {t} : Refs(u) = {} /\ initial # u
      /\ Refs(t) \subseteq {ref[t]}
  <2>1. \A u \in Thread : Refs(u) \subseteq Counted
    BY YobjectAssumption DEF Refs, Counted
  <2>2. ref[t] \in Ref => \A u \in Thread \ {t} : ref[t] \notin Refs(u)
    BY <1>1, YobjectAssumption DEF Refs
  <2>. QED  BY <1>3, <2>1, <2>2, YobjectAssumption
<1>6. \A u \in Thread \ {t} : pc[u] = "idle" /\ ref[u] = NoRef
  <2>. SUFFICES ASSUME NEW u \in Thread \ {t} PROVE pc[u] = "idle"
    BY DEF IInv, CallInv
  <2>1. pc[u] \notin Using \cup Critical \cup Alone
    BY <1>1, <1>5, InUseCounted DEF IInv, CallInv, MayUse, LockInv, AloneInv
  <2>. QED
    BY <2>1 DEF IInv, TypeOK, PC, CreatePC, RetainPC, LockPC, ReleasePC, Using,
       Critical, Alone
<1>7. TypeOK' /\ LockInv' /\ RefUnique'
  BY <1>1, YobjectAssumption DEF IInv, TypeOK, LockInv, RefUnique, PC, CreatePC,
     RetainPC, LockPC, ReleasePC, Critical
<1>8. ~ InUse'
  BY <1>4, <1>7, InUseCounted, YobjectAssumption DEF InUse, MayUse, Refs, Counted
<1>9. CallInv'
  BY <1>6 DEF IInv, CallInv, TypeOK, CreatePC, RetainPC, LockPC, Using
<1>10. MemoryInv' /\ CountInv' /\ AloneInv' /\ InitialInv'
  BY <1>2, <1>4, <1>6, <1>8 DEF IInv, MemoryInv, CountInv, AloneInv, InitialInv,
     TypeOK, Alone, CreatePC
<1>. QED  BY <1>5, <1>7, <1>9, <1>10 DEF IInv

LEMMA StepGive ==
  ASSUME IInv, NEW t \in Thread, NEW u \in Thread, Give(t, u)
  PROVE  IInv'
<1>. USE DEF Give
<1>1. MayUse(t) /\ InUse /\ \A v \in Thread : pc[v] \notin Alone
  BY InUseCounted DEF IInv, AloneInv, InUse, MayUse
<1>2. CASE initial = t /\ initial' = u /\ holder' = holder
  <2>1. Counted' = Counted /\ Counted = {}
    BY <1>2, YobjectAssumption DEF Counted, IInv, InitialInv
  <2>2. InUse' /\ \A v \in Thread : v # t /\ MayUse(v) => MayUse(v)'
    BY <1>2 DEF InUse, MayUse, Refs
  <2>3. TypeOK' /\ LockInv' /\ RefUnique'
    BY <1>2 DEF IInv, TypeOK, LockInv, RefUnique
  <2>4. CallInv'
    BY <1>2, <2>1, <2>2 DEF IInv, CallInv, TypeOK, RetainPC, LockPC, Using
  <2>. QED
    BY <1>1, <1>2, <2>1, <2>2, <2>3, <2>4 DEF IInv, MemoryInv, CountInv, AloneInv,
       InitialInv
<1>3. ASSUME NEW r \in Refs(t), holder' = [holder EXCEPT ![r] = u], initial' = initial
      PROVE  IInv'
  <2>1. Counted' = Counted /\ r \in Ref /\ holder[r] = t
    BY <1>3, YobjectAssumption DEF Counted, Refs, IInv, TypeOK
  <2>2. InUse' /\ \A v \in Thread : v # t /\ MayUse(v) => MayUse(v)'
    BY <1>3 DEF InUse, MayUse, Refs, IInv, TypeOK
  <2>3. TypeOK' /\ LockInv' /\ RefUnique'
    BY <1>3 DEF IInv, TypeOK, LockInv, RefUnique
  <2>4. \A v \in Thread : ref[v] # r
    BY <1>1, <2>1, YobjectAssumption DEF IInv, CallInv, TypeOK, PC, CreatePC,
       RetainPC, LockPC, ReleasePC, Alone
  <2>5. CallInv'
    BY <1>3, <2>1, <2>2, <2>4 DEF IInv, CallInv, TypeOK, RetainPC, LockPC, Using
  <2>. QED
    BY <1>1, <1>3, <2>1, <2>2, <2>3, <2>5 DEF IInv, MemoryInv, CountInv, AloneInv,
       InitialInv
<1>. QED  BY <1>2, <1>3

-----------------------------------------------------------------------------
(* The theorems *)

LEMMA StutterIInv == IInv /\ UNCHANGED vars => IInv'
BY SameHolders DEF vars, IInv, TypeOK, LockInv, RefUnique, CallInv, MemoryInv,
   CountInv, AloneInv, InitialInv

LEMMA StepIInv == IInv /\ [Next]_vars => IInv'
<1>. SUFFICES ASSUME IInv, [Next]_vars PROVE IInv'
  OBVIOUS
<1>1. ASSUME NEW t \in Thread, CreateAllocate(t) \/ CreateMutex(t) \/ CreateInit(t)
      PROVE  IInv'
  BY <1>1, StepCreateAllocate, StepCreateMutex, StepCreateInit
<1>2. ASSUME NEW t \in Thread, RetainCall(t) \/ RetainLockFails(t) \/ Retain(t)
      PROVE  IInv'
  BY <1>2, StepRetainCall, StepRetainLockFails, StepRetainLock, StepRetainLoad,
     StepRetainStore, StepRetainUnlock DEF Retain
<1>3. ASSUME NEW t \in Thread, ReleaseCall(t) \/ ReleaseLockFails(t) \/ Release(t)
      PROVE  IInv'
  BY <1>3, StepReleaseCall, StepReleaseLockFails, StepReleaseLock, StepReleaseTest,
     StepReleaseStore, StepReleaseUnlock, StepReleaseCallback, StepReleaseLastUnlock,
     StepReleaseDestroy, StepReleaseFreeMutex DEF Release
<1>4. ASSUME NEW t \in Thread,
             LockCall(t) \/ LockAcquire(t) \/ LockGivesUp(t) \/ Unlock(t)
      PROVE  IInv'
  BY <1>4, StepLockCall, StepLockAcquire, StepLockGivesUp, StepUnlock
<1>. QED  BY <1>1, <1>2, <1>3, <1>4, StepGive, StutterIInv DEF Next

\* In every reachable state of every instance, the strengthened invariant holds.
THEOREM Inductive == Spec => []IInv
BY InitIInv, StepIInv, PTL DEF Spec

\* Every variable keeps its type; in particular the counter never goes below 0
\* in yobject_release.
THEOREM TypeCorrect == Spec => []TypeOK
<1>1. IInv => TypeOK
  BY DEF IInv
<1>. QED  BY <1>1, Inductive, PTL

\* However many threads retain, release, lock and pass on references, no
\* yobject function touches an object or a mutex that is gone.
THEOREM MemorySafe == Spec => []NoUseAfterFree
<1>1. IInv => NoUseAfterFree
  <2>. SUFFICES ASSUME IInv, NEW t \in Thread
                PROVE  /\ pc[t] \in TouchesObject => object = "live"
                       /\ pc[t] \in TouchesMutex => mutex = "ready"
                       /\ MayUse(t) => object = "live" /\ mutex = "ready"
    BY DEF NoUseAfterFree
  <2>1. pc[t] \in Using \/ MayUse(t) => object = "live" /\ mutex = "ready"
    BY DEF IInv, CallInv, MemoryInv, InUse
  <2>2. pc[t] = "rel_unlock" => mutex = "ready"
    BY InUseCounted DEF IInv, CallInv, MemoryInv
  <2>3. pc[t] \in {"rel_last_unlock", "rel_destroy"} => mutex = "ready"
    BY DEF IInv, MemoryInv
  <2>. QED
    BY <2>1, <2>2, <2>3 DEF TouchesObject, TouchesMutex, Using, RetainPC,
       ReleasePC, LockPC
<1>. QED  BY <1>1, Inductive, PTL

\* No update of the counter is lost between racing retains and releases.
THEOREM CounterExact == Spec => []CountIsExact
<1>1. IInv => CountIsExact
  BY DEF IInv, CountInv, CountIsExact, InUse
<1>. QED  BY <1>1, Inductive, PTL

\* The last release destroys the mutex when nobody holds or awaits it.
THEOREM QuietTeardown == Spec => []DestroyedIdle
<1>1. IInv => DestroyedIdle
  BY DEF IInv, AloneInv, LockInv, TypeOK, DestroyedIdle, Alone, Critical
<1>. QED  BY <1>1, Inductive, PTL

\* If the release callback frees the yobject, nothing stays allocated once the
\* last reference has been released.
THEOREM NothingLeaks == CallbackFrees => (Spec => []NoLeak)
<1>. SUFFICES ASSUME CallbackFrees PROVE Spec => []NoLeak
  OBVIOUS
<1>1. IInv => NoLeak
  BY DEF IInv, MemoryInv, NoLeak, InUse, Alone, CreatePC
<1>. QED  BY <1>1, Inductive, PTL

\* Only the thread whose call gives up the one remaining reference runs the
\* callback that frees the object.
THEOREM LastHolderFrees == Spec => FreedByLastHolder
<1>1. IInv /\ [Next]_vars =>
        [object = "live" /\ object' = "absent" =>
           \E t \in Thread :
             /\ pc[t] = "rel_callback"
             /\ \A u \in Thread \ {t} : Refs(u) = {} /\ initial # u
             /\ Refs(t) \subseteq {ref[t]}]_vars
  <2>. SUFFICES ASSUME IInv, Next, object = "live", object' = "absent"
                PROVE  \E t \in Thread :
                         /\ pc[t] = "rel_callback"
                         /\ \A u \in Thread \ {t} : Refs(u) = {} /\ initial # u
                         /\ Refs(t) \subseteq {ref[t]}
    BY DEF vars
  <2>1. ASSUME NEW t \in Thread, ReleaseCallback(t)
        PROVE  /\ pc[t] = "rel_callback"
               /\ \A u \in Thread \ {t} : Refs(u) = {} /\ initial # u
               /\ Refs(t) \subseteq {ref[t]}
    BY <2>1, StepReleaseCallback DEF ReleaseCallback
  <2>2. PICK t \in Thread :
          ReleaseCallback(t) \/ CreateMutex(t) \/ CreateInit(t)
    BY DEF Next, CreateAllocate, RetainCall, RetainLockFails, Retain, RetainLock,
       RetainLoad, RetainStore, RetainUnlock, ReleaseCall, ReleaseLockFails,
       Release, ReleaseLock, ReleaseTest, ReleaseStore, ReleaseUnlock,
       ReleaseLastUnlock, ReleaseDestroy, ReleaseFreeMutex, LockCall, LockAcquire,
       LockGivesUp, Unlock, Give, Acquire, LockFails
  <2>3. ~ CreateMutex(t) /\ ~ CreateInit(t)
    BY DEF CreateMutex, CreateInit, IInv, MemoryInv
  <2>. QED  BY <2>1, <2>2, <2>3
<1>. QED  BY <1>1, Inductive, PTL DEF Spec, FreedByLastHolder


-----------------------------------------------------------------------------
(* YArray: the ownership of the elements, the bounds of the memory for all *)
(* initial lengths, and growth for those that Step brings above 0.         *)

\* The ownership invariant is inductive together with the types.
OInv == ArrayTypeOK /\ HeldIsOwned

\* What InBounds needs: the code trusts maxlength, which may be negative as long
\* as the array is empty.
BInv == /\ InBounds
        /\ length > 0 => length <= maxlength
        /\ maxlength <= slots

\* What array.h says of YArray_createLength: the array grows on demand.  There
\* is always a length to grow to that is beyond the present one.
GrowsOnDemand == exists /\ length >= maxlength => NewLength > length

\* What GrowsOnDemand needs besides: one Step leads to a positive length.
GInv == maxlength + Step > 0

Lengths == \A n \in InitialLengths : n + Step > 0

LEMMA ArrayTypesInductive == ArrayTypeOK /\ [ArrayNext]_arrayVars => ArrayTypeOK'
<1> SUFFICES ASSUME ArrayTypeOK, [ArrayNext]_arrayVars PROVE ArrayTypeOK'
  OBVIOUS
<1> USE YArrayAssumption DEF ArrayTypeOK
<1>1. GivenUp \in {"caller", "released"}
  BY DEF GivenUp
<1>2. ASSUME NEW n \in InitialLengths, YArray_createLength(n) PROVE ArrayTypeOK'
  <2>1. slots' \in Nat /\ maxlength' \in Int
    BY <1>2 DEF YArray_createLength
  <2>2. elements' \in Seq(Element \cup {NULL})
    BY <1>2 DEF YArray_createLength
  <2> QED BY <1>2, <2>1, <2>2 DEF YArray_createLength
<1>3. ASSUME NEW e \in Element, YArray_append(e) PROVE ArrayTypeOK'
  <2>1. slots' \in Nat /\ maxlength' \in Int
    BY <1>3 DEF YArray_append, AppendInPlace, AppendGrown, NewLength
  <2>2. elements' \in Seq(Element \cup {NULL}) /\ status' \in [Element -> {"caller", "array", "released"}]
    BY <1>3 DEF YArray_append
  <2> QED BY <1>3, <2>1, <2>2 DEF YArray_append
<1>4. ASSUME NEW n \in 1..length, YArray_detach(n) PROVE ArrayTypeOK'
  BY <1>4 DEF YArray_detach, length
<1>5. ASSUME NEW n \in 1..length, YArray_prune(n) PROVE ArrayTypeOK'
  BY <1>1, <1>5 DEF YArray_prune, length
<1>6. CASE YArray_reset
  <2>1. elements' \in Seq(Element \cup {NULL})
    BY <1>6 DEF YArray_reset, Reset
  <2> QED BY <1>1, <1>6, <2>1 DEF YArray_reset, Reset
<1>7. CASE YArray_release
  <2>1. elements' \in Seq(Element \cup {NULL})
    BY <1>7 DEF YArray_release, Reset
  <2>2. status' \in [Element -> {"caller", "array", "released"}]
    BY <1>1, <1>7 DEF YArray_release, Reset
  <2>3. exists' \in BOOLEAN /\ releases' \in BOOLEAN
    BY <1>7 DEF YArray_release
  <2>4. slots' \in Nat /\ maxlength' \in Int
    BY <1>7 DEF YArray_release
  <2> QED BY <2>1, <2>2, <2>3, <2>4
<1>8. ASSUME NEW b \in BOOLEAN, YArray_setElementReleaseFunc(b) PROVE ArrayTypeOK'
  BY <1>8 DEF YArray_setElementReleaseFunc
<1>9. ASSUME NEW e \in Element, NewElement(e) PROVE ArrayTypeOK'
  BY <1>9 DEF NewElement
<1>10. CASE (\E e \in Element : AppendFails(e)) \/ UNCHANGED arrayVars
  BY <1>10 DEF AppendFails, arrayVars
<1> QED BY <1>2, <1>3, <1>4, <1>5, <1>6, <1>7, <1>8, <1>9, <1>10 DEF ArrayNext

LEMMA OwnershipInductive == OInv /\ [ArrayNext]_arrayVars => HeldIsOwned'
<1> SUFFICES ASSUME OInv, [ArrayNext]_arrayVars PROVE HeldIsOwned'
  OBVIOUS
<1> USE YArrayAssumption DEF OInv, ArrayTypeOK, HeldIsOwned, length
<1>1. GivenUp \in {"caller", "released"}
  BY DEF GivenUp
<1>2. ASSUME NEW n \in InitialLengths, YArray_createLength(n) PROVE HeldIsOwned'
  BY <1>2 DEF YArray_createLength
<1>3. ASSUME NEW e \in Element, YArray_append(e) PROVE HeldIsOwned'
  <2>1. /\ exists /\ exists' = exists
        /\ status[e] = "caller"
        /\ elements' = Append(elements, e)
        /\ status' = [status EXCEPT ![e] = "array"]
    BY <1>3 DEF YArray_append
  <2>2. /\ Len(elements') = Len(elements) + 1
        /\ \A n \in 1..Len(elements) : elements'[n] = elements[n] /\ elements[n] # e
        /\ elements'[Len(elements) + 1] = e
    BY <2>1
  <2>3. ASSUME NEW d \in Element
        PROVE  status'[d] = "array" <=> \E n \in 1..Len(elements') : elements'[n] = d
    <3>1. CASE d = e
      BY <3>1, <2>1, <2>2
    <3>2. CASE d # e
      BY <3>2, <2>1, <2>2
    <3> QED BY <3>1, <3>2
  <2>4. \A m, n \in 1..Len(elements') :
          elements'[m] = elements'[n] /\ elements'[m] # NULL => m = n
    BY <2>2
  <2> QED BY <2>1, <2>3, <2>4
<1>4. ASSUME NEW n \in 1..length, NEW s \in {"caller", "released"}, exists, exists' = exists,
             elements' = [elements EXCEPT ![n] = NULL],
             status' = [e \in Element |-> IF e = elements[n] THEN s ELSE status[e]]
      PROVE  HeldIsOwned'
  <2>1. /\ Len(elements') = Len(elements)
        /\ elements'[n] = NULL
        /\ \A m \in 1..Len(elements) : m # n => elements'[m] = elements[m]
    BY <1>4
  <2>2. ASSUME NEW d \in Element
        PROVE  status'[d] = "array" <=> \E m \in 1..Len(elements') : elements'[m] = d
    <3>1. CASE d = elements[n]
      BY <3>1, <1>4, <2>1
    <3>2. CASE d # elements[n]
      BY <3>2, <1>4, <2>1
    <3> QED BY <3>1, <3>2
  <2>3. \A l, m \in 1..Len(elements') :
          elements'[l] = elements'[m] /\ elements'[l] # NULL => l = m
    BY <2>1
  <2> QED BY <1>4, <2>2, <2>3
<1>5. ASSUME NEW n \in 1..length, YArray_detach(n) PROVE HeldIsOwned'
  BY <1>4, <1>5 DEF YArray_detach
<1>6. ASSUME NEW n \in 1..length, YArray_prune(n) PROVE HeldIsOwned'
  BY <1>1, <1>4, <1>6 DEF YArray_prune
<1>7. ASSUME Reset PROVE HeldIsOwned'
  <2>1. elements' = <<>> /\ Len(elements') = 0
    BY <1>7 DEF Reset
  <2>2. \A e \in Element : status'[e] # "array"
    BY <1>1, <1>7 DEF Reset
  <2> QED BY <2>1, <2>2
<1>8. CASE YArray_reset \/ YArray_release
  BY <1>7, <1>8 DEF YArray_reset, YArray_release
<1>9. ASSUME NEW b \in BOOLEAN, YArray_setElementReleaseFunc(b) PROVE HeldIsOwned'
  BY <1>9 DEF YArray_setElementReleaseFunc
<1>10. ASSUME NEW e \in Element, NewElement(e) PROVE HeldIsOwned'
  BY <1>10 DEF NewElement
<1>11. CASE (\E e \in Element : AppendFails(e)) \/ UNCHANGED arrayVars
  BY <1>11 DEF AppendFails, arrayVars
<1> QED BY <1>2, <1>3, <1>5, <1>6, <1>8, <1>9, <1>10, <1>11 DEF ArrayNext

LEMMA BoundsInductive ==
  ASSUME ArrayTypeOK, BInv, [ArrayNext]_arrayVars
  PROVE  BInv'
<1> USE YArrayAssumption
<1>1. ASSUME NEW n \in InitialLengths, YArray_createLength(n) PROVE BInv'
  BY <1>1 DEF ArrayTypeOK, BInv, InBounds, length, YArray_createLength
<1>2. ASSUME NEW e \in Element, YArray_append(e) PROVE BInv'
  <2>1. Len(elements') = Len(elements) + 1
    BY <1>2 DEF ArrayTypeOK, BInv, InBounds, length, YArray_append
  <2>2. CASE AppendInPlace
    BY <2>1, <2>2 DEF ArrayTypeOK, BInv, InBounds, length, AppendInPlace
  <2>3. CASE AppendGrown
    <3>1. NewLength \in Int /\ NewLength > maxlength /\ NewLength > 0
      BY <2>3 DEF ArrayTypeOK, BInv, NewLength, AppendGrown
    <3>2. Len(elements) = 0 \/ Len(elements) = maxlength
      BY <2>3 DEF ArrayTypeOK, BInv, InBounds, length, AppendGrown
    <3> QED BY <3>1, <3>2, <2>1, <2>3 DEF ArrayTypeOK, BInv, InBounds, length, AppendGrown
  <2> QED BY <1>2, <2>2, <2>3 DEF YArray_append
<1>3. ASSUME NEW n \in 1..length, YArray_detach(n) \/ YArray_prune(n) PROVE BInv'
  BY <1>3 DEF ArrayTypeOK, BInv, InBounds, length, YArray_detach, YArray_prune
<1>4. CASE YArray_reset
  BY <1>4 DEF ArrayTypeOK, BInv, InBounds, length, YArray_reset, Reset
<1>5. CASE YArray_release
  BY <1>5 DEF ArrayTypeOK, BInv, InBounds, length, YArray_release, Reset
<1>6. ASSUME NEW b \in BOOLEAN, YArray_setElementReleaseFunc(b) PROVE BInv'
  BY <1>6 DEF BInv, InBounds, length, YArray_setElementReleaseFunc
<1>7. ASSUME NEW e \in Element, NewElement(e) \/ AppendFails(e) PROVE BInv'
  BY <1>7 DEF BInv, InBounds, length, NewElement, AppendFails, arrayVars
<1>8. CASE UNCHANGED arrayVars
  BY <1>8 DEF BInv, InBounds, length, arrayVars
<1> QED BY <1>1, <1>2, <1>3, <1>4, <1>5, <1>6, <1>7, <1>8 DEF ArrayNext

LEMMA InitArrayInvariants == ArrayInit => OInv /\ BInv
<1> SUFFICES ASSUME ArrayInit PROVE OInv /\ BInv
  OBVIOUS
<1> USE YArrayAssumption
<1>1. /\ Len(elements) = 0 /\ elements = <<>>
      /\ elements \in Seq(Element \cup {NULL})
  BY DEF ArrayInit
<1>2. ArrayTypeOK
  <2>1. status \in [Element -> {"caller", "array", "released"}]
    BY DEF ArrayInit
  <2>2. exists \in BOOLEAN /\ releases \in BOOLEAN
    BY DEF ArrayInit
  <2>3. slots \in Nat /\ maxlength \in Int
    BY DEF ArrayInit
  <2> QED BY <1>1, <2>1, <2>2, <2>3 DEF ArrayTypeOK
<1>3. HeldIsOwned
  BY <1>1 DEF ArrayInit, HeldIsOwned, length
<1>4. BInv
  BY <1>1 DEF ArrayInit, BInv, InBounds, length
<1> QED BY <1>2, <1>3, <1>4 DEF OInv

LEMMA Ownership == ArraySpec => []OInv
<1>1. OInv /\ [ArrayNext]_arrayVars => OInv'
  BY ArrayTypesInductive, OwnershipInductive DEF OInv
<1> QED BY <1>1, InitArrayInvariants, PTL DEF ArraySpec

\* The variables have their types in every reachable state.
THEOREM ArrayTypeCorrect == ArraySpec => []ArrayTypeOK
<1>1. OInv => ArrayTypeOK
  BY DEF OInv
<1> QED BY <1>1, Ownership, PTL

\* The array holds the pointers of exactly the elements it owns, each once.
THEOREM OwnershipExact == ArraySpec => []HeldIsOwned
<1>1. OInv => HeldIsOwned
  BY DEF OInv
<1> QED BY <1>1, Ownership, PTL

\* No element is released that its caller owns or that was released before.
THEOREM ReleasesOnlyOwned == ArraySpec => OnlyOwnedIsReleased
<1>1. OInv /\ [ArrayNext]_arrayVars =>
        [\A e \in Element :
           status[e] # "released" /\ status'[e] = "released" => status[e] = "array"]_arrayVars
  <2> SUFFICES ASSUME OInv, ArrayNext, NEW e \in Element,
                      status[e] # "released", status'[e] = "released"
               PROVE  status[e] = "array"
    OBVIOUS
  <2> USE DEF OInv, ArrayTypeOK, HeldIsOwned, length
  <2>1. ASSUME NEW d \in Element, YArray_append(d) \/ AppendFails(d) \/ NewElement(d)
        PROVE  status[e] = "array"
    BY <2>1 DEF YArray_append, AppendFails, NewElement, arrayVars
  <2>2. ASSUME NEW n \in 1..length, YArray_detach(n) \/ YArray_prune(n)
        PROVE  status[e] = "array"
    BY <2>2 DEF YArray_detach, YArray_prune
  <2>3. CASE YArray_reset \/ YArray_release
    BY <2>3 DEF YArray_reset, YArray_release, Reset
  <2>4. CASE \/ \E n \in InitialLengths : YArray_createLength(n)
            \/ \E b \in BOOLEAN : YArray_setElementReleaseFunc(b)
    BY <2>4 DEF YArray_createLength, YArray_setElementReleaseFunc
  <2> QED BY <2>1, <2>2, <2>3, <2>4 DEF ArrayNext
<1> QED BY <1>1, Ownership, PTL DEF ArraySpec, OnlyOwnedIsReleased

\* Whatever initial lengths the callers ask for, every element is within the
\* allocated memory.
THEOREM ElementsInBounds == ArraySpec => []InBounds
<1>1. ArrayTypeOK /\ BInv /\ [ArrayNext]_arrayVars => BInv'
  BY BoundsInductive
<1>2. BInv => InBounds
  BY DEF BInv
<1> QED BY <1>1, <1>2, InitArrayInvariants, ArrayTypeCorrect, PTL DEF ArraySpec

\* If no caller asks for an initial length of -Step or less, an array always
\* has a length to grow to.
THEOREM AlwaysGrows == Lengths => (ArraySpec => []GrowsOnDemand)
<1> SUFFICES ASSUME Lengths PROVE ArraySpec => []GrowsOnDemand
  OBVIOUS
<1> USE YArrayAssumption
<1>1. ArrayInit => GInv
  BY DEF ArrayInit, GInv
<1>2. ASSUME ArrayTypeOK, GInv, [ArrayNext]_arrayVars PROVE GInv'
  <2>1. ASSUME NEW n \in InitialLengths, YArray_createLength(n) PROVE GInv'
    BY <2>1 DEF Lengths, GInv, YArray_createLength
  <2>2. ASSUME NEW e \in Element, YArray_append(e) PROVE GInv'
    BY <1>2, <2>2 DEF ArrayTypeOK, GInv, YArray_append, AppendInPlace, AppendGrown, NewLength
  <2>3. CASE YArray_release
    BY <2>3 DEF GInv, YArray_release
  <2>4. CASE maxlength' = maxlength
    BY <1>2, <2>4 DEF GInv
  <2> QED
    BY <1>2, <2>1, <2>2, <2>3, <2>4
    DEF ArrayNext, AppendFails, NewElement, YArray_detach, YArray_prune, YArray_reset,
        YArray_setElementReleaseFunc, arrayVars
<1>3. ASSUME ArrayTypeOK, BInv, GInv PROVE GrowsOnDemand
  <2>1. Len(elements) \in Nat /\ (Len(elements) > 0 => Len(elements) <= maxlength)
    BY <1>3 DEF ArrayTypeOK, BInv, length
  <2>2. NewLength > 0 /\ NewLength > maxlength /\ NewLength \in Int
    BY <1>3 DEF ArrayTypeOK, GInv, NewLength
  <2> QED BY <1>3, <2>1, <2>2 DEF ArrayTypeOK, GrowsOnDemand, length
<1>4. ArrayTypeOK /\ BInv /\ [ArrayNext]_arrayVars => BInv'
  BY BoundsInductive
<1> QED BY <1>1, <1>2, <1>3, <1>4, InitArrayInvariants, ArrayTypeCorrect, PTL DEF ArraySpec
============================================================================

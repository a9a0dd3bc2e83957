----------------------------- MODULE YosalInit ------------------------------
(***************************************************************************)
(* Yosal_init (src/system/system.c): the initialisation of the library by  *)
(* the first thread that needs it, with a check of gYosal_ready outside    *)
(* the mutex.  Yrandom and Ytime call it before they use what it sets up.  *)
(*                                                                         *)
(* gYosal_ready is a plain int, so that the first check and the read for   *)
(* the return value race with the write.  What a thread has written is     *)
(* pending until it reaches the memory that all threads see, in an order   *)
(* that only an unlock of the mutex constrains: an unlock waits for all.   *)
(* With Ordered writes reach the memory in the order of the program, which *)
(* is what a processor such as x86 does.                                   *)
(***************************************************************************)
EXTENDS Integers, Sequences

CONSTANTS
  Threads,   \* the threads that call Yosal_init
  NoThread,  \* nobody
  Ordered    \* do writes reach the memory in the order of the program?

ASSUME YosalInitAssumption ==
  /\ NoThread \notin Threads
  /\ Ordered \in BOOLEAN

VARIABLES
  pc,       \* where each thread is
  mutex,    \* the holder of gYosal_mutex
  memory,   \* what all threads see: the variables that have been written
  pending,  \* the variables that each thread has written for itself only
  result,   \* what the last call of each thread returned
  seeds     \* history: how often srand48 has been called

libraryVars == <<pc, mutex, memory, pending, result, seeds>>

\* "state" is what Yrandom_init and Ytime_init set up, "ready" is gYosal_ready.
Variables == {"state", "ready"}

\* Mutant: gYosal_ready is not set.
Writes_NotReady == <<"state", "state">>

\* The order in which the winner writes.
Writes == <<"state", "ready">>

LibraryInit ==
  /\ pc = [t \in Threads |-> "idle"]
  /\ mutex = NoThread
  /\ memory = {}
  /\ pending = [t \in Threads |-> {}]
  /\ result = [t \in Threads |-> -1]
  /\ seeds = 0

-----------------------------------------------------------------------------

Sees(t, v) == v \in memory \cup pending[t]

Goto(t, label) == pc' = [pc EXCEPT ![t] = label]

At(t, label) == pc[t] = label

Call(t) ==
  /\ At(t, "idle")
  /\ Goto(t, "check")
  /\ UNCHANGED <<mutex, memory, pending, result, seeds>>

\* The check outside the mutex.
Check(t) ==
  /\ At(t, "check")
  /\ Goto(t, IF Sees(t, "ready") THEN "return" ELSE "lock")
  /\ UNCHANGED <<mutex, memory, pending, result, seeds>>

\* Can the mutex be locked?
Lockable == mutex = NoThread

Lock(t) ==
  /\ At(t, "lock")
  /\ Lockable
  /\ mutex' = t
  /\ Goto(t, "recheck")
  /\ UNCHANGED <<memory, pending, result, seeds>>

\* Mutant: does not check again.
Recheck_None(t) == "first"

\* Where the check inside the mutex leads.
Recheck(t) == IF Sees(t, "ready") THEN "unlock" ELSE "first"

CheckAgain(t) ==
  /\ At(t, "recheck")
  /\ Goto(t, Recheck(t))
  /\ UNCHANGED <<mutex, memory, pending, result, seeds>>

\* Yrandom_init calls srand48.
Write(t, v) ==
  /\ pending' = [pending EXCEPT ![t] = @ \cup {v}]
  /\ seeds' = IF v = "state" THEN seeds + 1 ELSE seeds
  /\ UNCHANGED <<mutex, memory, result>>

WriteFirst(t) ==
  /\ At(t, "first")
  /\ Write(t, Writes[1])
  /\ Goto(t, "second")

WriteSecond(t) ==
  /\ At(t, "second")
  /\ Write(t, Writes[2])
  /\ Goto(t, "unlock")

\* A write reaches the memory.
Propagate(t) ==
  /\ \E v \in pending[t] :
       /\ Ordered /\ v = Writes[2] => Writes[1] \notin pending[t]
       /\ memory' = memory \cup {v}
       /\ pending' = [pending EXCEPT ![t] = @ \ {v}]
  /\ UNCHANGED <<pc, mutex, result, seeds>>

\* Mutant: the mutex stays locked.
Freed_None == mutex

\* The mutex after it is unlocked.
Freed == NoThread

Unlock(t) ==
  /\ At(t, "unlock")
  /\ pending[t] = {}
  /\ mutex' = Freed
  /\ Goto(t, "return")
  /\ UNCHANGED <<memory, pending, result, seeds>>

\* gYosal_ready is read once more for the return value.
Return(t) ==
  /\ At(t, "return")
  /\ result' = [result EXCEPT ![t] = IF Sees(t, "ready") THEN 1 ELSE -1]
  /\ Goto(t, "returned")
  /\ UNCHANGED <<mutex, memory, pending, seeds>>

\* The caller uses the library and calls again later.
Use(t) ==
  /\ At(t, "returned")
  /\ Goto(t, "idle")
  /\ UNCHANGED <<mutex, memory, pending, result, seeds>>

Yosal_init(t) ==
  \/ Check(t) \/ Lock(t) \/ CheckAgain(t)
  \/ WriteFirst(t) \/ WriteSecond(t) \/ Propagate(t)
  \/ Unlock(t) \/ Return(t)

LibraryNext == \E t \in Threads : Call(t) \/ Yosal_init(t) \/ Use(t)

LibrarySpec == LibraryInit /\ [][LibraryNext]_libraryVars

\* Every thread is scheduled.  The mutex is taken only until all see
\* gYosal_ready, so that it need not be fair.
FairSpec == LibrarySpec /\ \A t \in Threads : WF_libraryVars(Yosal_init(t))

-----------------------------------------------------------------------------
(* What the module checks *)

TypeOK ==
  /\ pc \in [Threads -> {"idle", "check", "lock", "recheck", "first", "second",
                         "unlock", "return", "returned"}]
  /\ mutex \in Threads \cup {NoThread}
  /\ memory \subseteq Variables
  /\ pending \in [Threads -> SUBSET Variables]
  /\ \A t \in Threads : pending[t] # {} => mutex = t
  /\ result \in [Threads -> {-1, 1}]
  /\ seeds \in Nat

\* The generator is seeded once, however the calls of the threads interleave:
\* no sequence of random numbers starts anew under a thread that uses it.
SeededOnce == seeds <= 1

\* A call never returns the initial value of gYosal_ready, which is that of YOSAL_ERROR,
\* although it reads the variable again after the mutex is unlocked.  What it returns
\* is not the YOSAL_OK of system.h either, but 1.
ReturnsReady == \A t \in Threads : At(t, "returned") => result[t] # -1

\* What system.h promises the functions that call Yosal_init: when it returns,
\* the library is initialised for the thread that called it.
InitialisedForCaller ==
  \A t \in Threads : At(t, "returned") => Sees(t, "state")

\* Every call returns.
CallsReturn == \A t \in Threads : At(t, "check") ~> At(t, "returned")
=============================================================================

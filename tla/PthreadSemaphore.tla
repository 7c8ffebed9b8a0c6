--------------------------- MODULE PthreadSemaphore ---------------------------
(***************************************************************************)
(* The semaphores of the POSIX runtime (runtime/POSIX/threadsync.c): one   *)
(* semaphore, which the program uses between sem_init and sem_destroy.     *)
(***************************************************************************)
EXTENDS Integers, PthreadCalls

CONSTANTS
  Values,     \* the values that the program passes to sem_init
  MaxUnits    \* bound on the units of the semaphore, posted ones included

VARIABLES
  sem,     \* the sem_data_t
  units,   \* history: the value given to sem_init and the calls of sem_post
  passed   \* history: the calls of sem_wait and sem_trywait that returned 0

\* Not initialised, or destroyed
NoSem == [wlist |-> 0, count |-> 0]

Init == sem = NoSem /\ units = 0 /\ passed = 0

SemWaiting == [call |-> "sem_wait"]

SemInit(value) ==
  /\ Calls(Self)
  /\ sem = NoSem /\ CanGetWaitingLists(sched)
  /\ sched' = GetWaitingList(sched)
  /\ sem' = [wlist |-> sched.wlistCounter, count |-> value]
  /\ units' = value /\ passed' = 0
  /\ UNCHANGED pc

\* A program may destroy a semaphore that nobody waits for.
SemDestroy ==
  /\ Calls(Self)
  /\ sem # NoSem /\ Inside(SemWaiting) = {}
  /\ sem' = NoSem /\ units' = 0 /\ passed' = 0
  /\ UNCHANGED <<sched, pc>>

\* _atomic_sem_lock: the count is taken before the caller knows whether it sleeps.
SemWait(t) ==
  /\ Calls(t) /\ sem # NoSem
  /\ sem' = [sem EXCEPT !.count = @ - 1]
  /\ \/ /\ sem.count > 0
        /\ sched' = Preempt(sched)
        /\ passed' = passed + 1
        /\ UNCHANGED pc
     \/ /\ sem.count <= 0
        /\ sched' = Sleep(sched, sem.wlist)
        /\ pc' = [pc EXCEPT ![t] = SemWaiting]
        /\ UNCHANGED passed
  /\ UNCHANGED units

SemWaitWakes(t) ==
  /\ GoesOn(t, SemWaiting)
  /\ sched' = Preempt(sched)
  /\ pc' = [pc EXCEPT ![t] = Run]
  /\ passed' = passed + 1
  /\ UNCHANGED <<sem, units>>

\* A try that would sleep gives its count back and returns EBUSY.
SemTryWait(t) ==
  /\ Calls(t) /\ sem # NoSem /\ sem.count > 0
  /\ sem' = [sem EXCEPT !.count = @ - 1]
  /\ sched' = Preempt(sched)
  /\ passed' = passed + 1
  /\ UNCHANGED <<pc, units>>

NotifyIfNegative(count) == count < 0
NotifyIf(count) == count <= 0

SemPost(t) ==
  /\ Calls(t) /\ sem # NoSem /\ units < MaxUnits
  /\ sem' = [sem EXCEPT !.count = @ + 1]
  /\ sched' = Preempt(IF NotifyIf(sem.count + 1) THEN NotifyOne(sched, sem.wlist) ELSE sched)
  /\ units' = units + 1
  /\ UNCHANGED <<pc, passed>>

Next ==
  \/ \E value \in Values : SemInit(value)
  \/ SemDestroy
  \/ \E t \in Tids : SemWait(t) \/ SemWaitWakes(t) \/ SemTryWait(t) \/ SemPost(t)

(***************************************************************************)
(* Properties                                                              *)
(***************************************************************************)
TypeOK ==
  /\ sem \in [wlist : {0} \cup Wlists, count : -Cardinality(Tids) .. MaxUnits]
  /\ units \in 0 .. MaxUnits /\ passed \in 0 .. MaxUnits

Sleeping == IF sem = NoSem THEN {} ELSE sched.waitingLists[sem.wlist]

\* Nobody gets through sem_wait without a unit of the semaphore, and no unit is
\* lost: the units are those that passed, those handed to a woken thread and those
\* that the count still shows.  A negative count is the number of sleeping threads,
\* so nobody sleeps while a unit is left.
UnitsAreConserved ==
  /\ units = passed + Cardinality(Inside(SemWaiting) \ Sleeping)
                    + (IF sem.count > 0 THEN sem.count ELSE 0)
  /\ Cardinality(Sleeping) = (IF sem.count < 0 THEN -sem.count ELSE 0)

\* t sleeps, and there is no unit for it.
WaitsInVain(t) == t \in Inside(SemWaiting) /\ sem.count < 0
=============================================================================

---------------------------- MODULE PthreadRwlock ----------------------------
(***************************************************************************)
(* The read-write locks of the POSIX runtime (runtime/POSIX/threadsync.c): *)
(* one lock, and threads that unlock it only when they have it.            *)
(***************************************************************************)
EXTENDS Integers, PthreadCalls

VARIABLES
  rw,      \* the rwlock_data_t
  has      \* history: has[t], the lock that t has: "none", "read" or "write"

Kinds == {"none", "read", "write"}

\* STATIC_RWLOCK_VALUE: not initialised
StaticRwlock ==
  [wlist_readers |-> 0, wlist_writers |-> 0, nr_readers |-> 0,
   nr_readers_queued |-> 0, nr_writers_queued |-> 0, writer |-> 0]

Init ==
  /\ rw = StaticRwlock
  /\ has = [t \in Tids |-> "none"]

Locking(kind) == [call |-> "rwlock", kind |-> kind]

RwlockInit ==
  /\ Calls(Self)
  /\ rw = StaticRwlock /\ CanGetWaitingLists(sched)
  /\ rw' = [rw EXCEPT !.wlist_readers = sched.wlistCounter,
                      !.wlist_writers = sched.wlistCounter + 1]
  /\ sched' = GetWaitingList(GetWaitingList(sched))
  /\ UNCHANGED <<pc, has>>

\* A program may destroy a lock that nobody has or waits for.  A lock that is not
\* initialised is, only to be destroyed.
RwlockDestroy ==
  /\ Calls(Self)
  /\ Inside(Locking("read")) \cup Inside(Locking("write")) = {}
  /\ \A t \in Tids : has[t] = "none"
  /\ rw # StaticRwlock \/ CanGetWaitingLists(sched)
  /\ rw' = StaticRwlock
  /\ sched' = IF rw # StaticRwlock THEN sched ELSE GetWaitingList(GetWaitingList(sched))
  /\ UNCHANGED <<pc, has>>

\* The call returns 0 and the thread has the lock.
Locked(t, kind, rw1) ==
  /\ rw' = rw1
  /\ sched' = Preempt(sched)
  /\ pc' = [pc EXCEPT ![t] = Run]
  /\ has' = [has EXCEPT ![t] = kind]

Sleeps(t, kind, rw1, wlist) ==
  /\ rw' = rw1
  /\ sched' = Sleep(sched, wlist)
  /\ pc' = [pc EXCEPT ![t] = Locking(kind)]
  /\ UNCHANGED has

\* EBUSY, or EINVAL for a lock that is not initialised
Refused == UNCHANGED <<sched, pc, rw, has>>

RdLock(t, try) ==
  /\ Calls(t) /\ has[t] = "none"
  /\ IF rw = StaticRwlock THEN Refused
     ELSE IF rw.writer = 0 /\ rw.nr_writers_queued = 0
     THEN Locked(t, "read", [rw EXCEPT !.nr_readers = @ + 1])
     ELSE IF try THEN Refused
     ELSE Sleeps(t, "read", [rw EXCEPT !.nr_readers_queued = @ + 1], rw.wlist_readers)

RdWakes(t) ==
  /\ GoesOn(t, Locking("read"))
  /\ Locked(t, "read", [rw EXCEPT !.nr_readers = @ + 1, !.nr_readers_queued = @ - 1])

WrLock(t, try) ==
  /\ Calls(t) /\ has[t] = "none"
  /\ IF rw = StaticRwlock THEN Refused
     ELSE IF rw.writer = 0 /\ rw.nr_readers = 0
     THEN Locked(t, "write", [rw EXCEPT !.writer = t])
     ELSE IF try THEN Refused
     ELSE Sleeps(t, "write", [rw EXCEPT !.nr_writers_queued = @ + 1], rw.wlist_writers)

WrWakes(t) ==
  /\ GoesOn(t, Locking("write"))
  /\ Locked(t, "write", [rw EXCEPT !.writer = t, !.nr_writers_queued = @ - 1])

\* What an unlock does to the data, and the threads it wakes
Released ==
  IF rw.writer # 0 THEN [rw EXCEPT !.writer = 0]
  ELSE IF rw.nr_readers > 0 THEN [rw EXCEPT !.nr_readers = @ - 1] ELSE rw

NotifiedIfReaders(rw1) ==
  IF rw1.nr_readers > 0 /\ rw1.nr_readers_queued > 0
  THEN NotifyAll(sched, rw1.wlist_readers)
  ELSE IF rw1.nr_writers_queued # 0 THEN NotifyOne(sched, rw1.wlist_writers)
  ELSE sched

Notified(rw1) ==
  IF rw1.nr_readers = 0 /\ rw1.nr_writers_queued # 0
  THEN NotifyOne(sched, rw1.wlist_writers)
  ELSE IF rw1.nr_readers_queued > 0 THEN NotifyAll(sched, rw1.wlist_readers)
  ELSE sched

Unlock(t) ==
  /\ Calls(t) /\ has[t] # "none"
  /\ rw' = Released
  /\ sched' = Preempt(Notified(Released))
  /\ has' = [has EXCEPT ![t] = "none"]
  /\ UNCHANGED pc

Next ==
  \/ RwlockInit
  \/ RwlockDestroy
  \/ \E t \in Tids :
       \/ RdWakes(t) \/ WrWakes(t) \/ Unlock(t)
       \/ \E try \in BOOLEAN : RdLock(t, try) \/ WrLock(t, try)

(***************************************************************************)
(* Properties                                                              *)
(***************************************************************************)
TypeOK ==
  /\ has \in [Tids -> Kinds]
  /\ rw \in [wlist_readers : {0} \cup Wlists, wlist_writers : {0} \cup Wlists,
             nr_readers : 0 .. Cardinality(Tids), nr_readers_queued : 0 .. Cardinality(Tids),
             nr_writers_queued : 0 .. Cardinality(Tids), writer : {0} \cup Tids]

Having(kind) == {t \in Tids : has[t] = kind}
Sleepers == Inside(Locking("read")) \cup Inside(Locking("write"))

\* A lock that a thread has for writing is had by no other thread: what makes it
\* a "POSIX Read Write Lock".
Exclusion ==
  Having("write") # {} => Cardinality(Having("write") \cup Having("read")) = 1

\* While nobody has the lock and threads sleep for it, one of them has been woken
\* (the notifies of _atomic_rwlock_unlock), however readers and writers mix.
NoLostWakeup ==
  Having("read") \cup Having("write") = {} /\ Sleepers # {} =>
    Sleepers \cap Enabled(sched) # {}

\* The queue lengths that decide who is woken count the threads inside rdlock and
\* wrlock.
QueuesAgree ==
  /\ rw.nr_readers_queued = Cardinality(Inside(Locking("read")))
  /\ rw.nr_writers_queued = Cardinality(Inside(Locking("write")))

\* t sleeps for a lock that some thread has.
WaitsInVain(t) == t \in Sleepers /\ Having("read") \cup Having("write") # {}
=============================================================================

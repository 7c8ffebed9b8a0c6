----------------------------- MODULE PthreadMutex -----------------------------
(***************************************************************************)
(* The mutexes and condition variables of the POSIX runtime                *)
(* (runtime/POSIX/threadsync.c), used by threads that call them in any     *)
(* order.                                                                  *)
(***************************************************************************)
EXTENDS Integers, PthreadCalls

CONSTANTS
  Mutexes, Conds,
  MaxDepth    \* bound on how often a thread locks one mutex

VARIABLES
  mutex,   \* mutex[m] : its mutex_data_t
  cond,    \* cond[c] : its condvar_data_t
  depth    \* history: depth[t][m], the locks of m that t has not undone

\* STATIC_MUTEX_VALUE, STATIC_CVAR_VALUE: not initialised, or statically
StaticMutex == [wlist |-> 0, taken |-> FALSE, owner |-> 0, count |-> -1, queued |-> 0]
StaticCond == [wlist |-> 0, mutex |-> "none", queued |-> 0]

Locking(m) == [call |-> "lock", mutex |-> m]
Waiting(c, m) == [call |-> "wait", cond |-> c, mutex |-> m]

Init ==
  /\ mutex = [m \in Mutexes |-> StaticMutex]
  /\ cond = [c \in Conds |-> StaticCond]
  /\ depth = [t \in Tids |-> [m \in Mutexes |-> 0]]

\* An operation is a function of the threads and the object's data to
\* [s, d, res]: both after it, and what it returns.
MutexInit(s, recursive) ==
  [s |-> GetWaitingList(s),
   d |-> [StaticMutex EXCEPT !.wlist = s.wlistCounter,
                             !.count = IF recursive THEN 0 ELSE -1],
   res |-> "ok"]

GetMutexData(s, m) ==
  IF mutex[m].wlist = 0 THEN MutexInit(s, FALSE)
  ELSE [s |-> s, d |-> mutex[m], res |-> "ok"]

CondInit(s) ==
  [s |-> GetWaitingList(s), d |-> [StaticCond EXCEPT !.wlist = s.wlistCounter]]

GetCondvarData(s, c) ==
  IF cond[c].wlist = 0 THEN CondInit(s) ELSE [s |-> s, d |-> cond[c]]

\* The lock is the caller's.
Take(d, t) ==
  [d EXCEPT !.taken = TRUE, !.owner = t, !.count = IF @ = -1 THEN -1 ELSE 1]

ContendedIfTaken(d) == d.taken

\* A free mutex that threads are queued for belongs to the one that is woken.
Contended(d) == d.queued > 0 \/ d.taken

AtomicMutexLock(x, t, try) ==
  LET d == x.d
  IN  IF d.taken /\ d.count >= 0 /\ d.owner = t
      THEN [x EXCEPT !.d.count = @ + 1]
      ELSE IF ~Contended(d) THEN [x EXCEPT !.d = Take(d, t)]
      ELSE IF try THEN [x EXCEPT !.res = "EBUSY"]
      ELSE [s |-> Sleep(x.s, d.wlist), d |-> [d EXCEPT !.queued = @ + 1], res |-> "asleep"]

\* _atomic_mutex_lock after the thread has been woken
Woken(x, t) == [x EXCEPT !.d = Take([x.d EXCEPT !.queued = @ - 1], t)]

Notifies(d) == d.queued > 0

StillLockedAlways(d) == TRUE
\* An unlock of a recursive mutex leaves locks to undo.
StillLocked(d) == d.count # 0

AtomicMutexUnlock(x, t) ==
  LET d == x.d
      recursive == d.taken /\ d.count > 0 /\ d.owner = t
      d1 == IF recursive THEN [d EXCEPT !.count = @ - 1] ELSE d
      s1 == IF Notifies(d1) THEN NotifyOne(x.s, d.wlist) ELSE x.s
  IN  IF recursive /\ StillLocked(d1) THEN [x EXCEPT !.d = d1]
      ELSE IF ~recursive /\ (~d.taken \/ d.owner # t) THEN [x EXCEPT !.res = "EPERM"]
      ELSE [x EXCEPT !.s = s1, !.d = [d1 EXCEPT !.taken = FALSE]]

\* A lock operation returns x; the caller is preempted if it has the lock.
LockReturns(t, m, x) ==
  /\ sched' = IF x.res = "ok" THEN Preempt(x.s) ELSE x.s
  /\ mutex' = [mutex EXCEPT ![m] = x.d]
  /\ pc' = [pc EXCEPT ![t] = IF x.res = "asleep" THEN Locking(m) ELSE Run]
  /\ depth' = IF x.res = "ok" THEN [depth EXCEPT ![t][m] = @ + 1] ELSE depth

Lock(t, m, try) ==
  /\ Calls(t)
  /\ mutex[m].wlist # 0 \/ CanGetWaitingLists(sched)
  /\ depth[t][m] < MaxDepth
  /\ LockReturns(t, m, AtomicMutexLock(GetMutexData(sched, m), t, try))
  /\ UNCHANGED cond

LockWakes(t, m) ==
  /\ GoesOn(t, Locking(m))
  /\ LockReturns(t, m, Woken(GetMutexData(sched, m), t))
  /\ UNCHANGED cond

Unlock(t, m) ==
  LET x == AtomicMutexUnlock(GetMutexData(sched, m), t)
  IN  /\ Calls(t)
      /\ mutex[m].wlist # 0 \/ CanGetWaitingLists(sched)
      /\ sched' = Preempt(x.s)
      /\ mutex' = [mutex EXCEPT ![m] = x.d]
      /\ depth' = IF x.res = "ok" THEN [depth EXCEPT ![t][m] = @ - 1] ELSE depth
      /\ UNCHANGED <<pc, cond>>

InitMutex(m, recursive) ==
  LET x == MutexInit(sched, recursive)
  IN  /\ Calls(Self)
      /\ mutex[m] = StaticMutex /\ CanGetWaitingLists(sched)
      /\ sched' = x.s
      /\ mutex' = [mutex EXCEPT ![m] = x.d]
      /\ UNCHANGED <<pc, cond, depth>>

\* A program may destroy a mutex that nobody has or waits for.
DestroyMutex(m) ==
  /\ Calls(Self)
  /\ ~mutex[m].taken /\ mutex[m].queued = 0
  /\ \A c \in Conds : Inside(Waiting(c, m)) = {}
  /\ mutex[m].wlist # 0 \/ CanGetWaitingLists(sched)
  /\ sched' = GetMutexData(sched, m).s
  /\ mutex' = [mutex EXCEPT ![m] = StaticMutex]
  /\ UNCHANGED <<pc, cond, depth>>

InitCond(c) ==
  LET x == CondInit(sched)
  IN  /\ Calls(Self)
      /\ cond[c] = StaticCond /\ CanGetWaitingLists(sched)
      /\ sched' = x.s
      /\ cond' = [cond EXCEPT ![c] = x.d]
      /\ UNCHANGED <<pc, mutex, depth>>

\* A program may destroy a condition variable that nobody waits for.
DestroyCond(c) ==
  /\ Calls(Self)
  /\ cond[c].queued = 0
  /\ cond[c].wlist # 0 \/ CanGetWaitingLists(sched)
  /\ sched' = GetCondvarData(sched, c).s
  /\ cond' = [cond EXCEPT ![c] = StaticCond]
  /\ UNCHANGED <<pc, mutex, depth>>

\* pthread_cond_wait up to the sleep.  The program has locked m at most once:
\* waiting with more locks of a recursive mutex is undefined.
CondWait(t, c, m) ==
  LET f == GetCondvarData(sched, c)
      x0 == GetMutexData(f.s, m)
      x == AtomicMutexUnlock(x0, t)
      other == f.d.queued > 0 /\ f.d.mutex # m
      waits == ~other /\ x.res = "ok"
      d1 == IF other THEN f.d ELSE [f.d EXCEPT !.mutex = m]
  IN  /\ Calls(t) /\ depth[t][m] <= 1
      /\ (cond[c].wlist # 0 /\ mutex[m].wlist # 0) \/ CanGetWaitingLists(sched)
      /\ cond' = [cond EXCEPT ![c] = IF waits THEN [d1 EXCEPT !.queued = @ + 1] ELSE d1]
      /\ mutex' = [mutex EXCEPT ![m] = IF waits THEN x.d ELSE x0.d]
      /\ sched' = IF waits THEN Sleep(x.s, f.d.wlist) ELSE x0.s
      /\ pc' = IF waits THEN [pc EXCEPT ![t] = Waiting(c, m)] ELSE pc
      /\ depth' = IF waits THEN [depth EXCEPT ![t][m] = @ - 1] ELSE depth

CondWakesKeepsQueued(t, c, m) ==
  /\ GoesOn(t, Waiting(c, m))
  /\ LockReturns(t, m, AtomicMutexLock(GetMutexData(sched, m), t, FALSE))
  /\ UNCHANGED cond

\* The waiter has been woken: it takes the mutex again, or sleeps for it.
CondWakes(t, c, m) ==
  /\ GoesOn(t, Waiting(c, m))
  /\ cond' = [cond EXCEPT ![c].queued = @ - 1]
  /\ LockReturns(t, m, AtomicMutexLock(GetMutexData(sched, m), t, FALSE))

CondNotify(t, c, all) ==
  LET f == GetCondvarData(sched, c)
      s1 == IF f.d.queued = 0 THEN f.s
            ELSE IF all THEN NotifyAll(f.s, f.d.wlist) ELSE NotifyOne(f.s, f.d.wlist)
  IN  /\ Calls(t)
      /\ cond[c].wlist # 0 \/ CanGetWaitingLists(sched)
      /\ sched' = Preempt(s1)
      /\ cond' = [cond EXCEPT ![c] = f.d]
      /\ UNCHANGED <<pc, mutex, depth>>

Next ==
  \/ \E m \in Mutexes :
       \/ \E recursive \in BOOLEAN : InitMutex(m, recursive)
       \/ DestroyMutex(m)
  \/ \E c \in Conds : InitCond(c) \/ DestroyCond(c)
  \/ \E t \in Tids :
       \/ \E m \in Mutexes :
            \/ Unlock(t, m) \/ LockWakes(t, m)
            \/ \E try \in BOOLEAN : Lock(t, m, try)
            \/ \E c \in Conds : CondWait(t, c, m) \/ CondWakes(t, c, m)
       \/ \E c \in Conds, all \in BOOLEAN : CondNotify(t, c, all)

(***************************************************************************)
(* Properties                                                              *)
(***************************************************************************)
TypeOK ==
  /\ mutex \in [Mutexes -> [wlist : {0} \cup Wlists, taken : BOOLEAN, owner : {0} \cup Tids,
                             count : -1 .. MaxDepth, queued : 0 .. Cardinality(Tids)]]
  /\ cond \in [Conds -> [wlist : {0} \cup Wlists, mutex : {"none"} \cup Mutexes,
                          queued : 0 .. Cardinality(Tids)]]
  /\ depth \in [Tids -> [Mutexes -> 0 .. MaxDepth]]

Holders(m) == {t \in Tids : depth[t][m] > 0}

\* At most one thread is between a lock of m that returned 0 and the unlock, and
\* the mutex_data_t says so: taken, owner and the count of a recursive mutex
\* (_atomic_mutex_lock hands m to a woken thread without another test).
MutualExclusion ==
  \A m \in Mutexes :
    /\ Cardinality(Holders(m)) <= 1
    /\ mutex[m].taken <=> Holders(m) # {}
    /\ \A t \in Holders(m) : /\ mutex[m].owner = t
                             /\ mutex[m].count \in {-1, depth[t][m]}

\* While m is free and threads are queued for it, one of them has been woken:
\* the notify of _atomic_mutex_unlock is not lost.
NoLostWakeup ==
  \A m \in Mutexes :
    ~mutex[m].taken /\ mutex[m].queued > 0 =>
      \E t \in Enabled(sched) : pc[t] = Locking(m)

\* The queued counters, which decide who sleeps and who is notified, count the
\* threads inside lock and wait.
QueuesAgree ==
  /\ \A m \in Mutexes : mutex[m].queued = Cardinality(Inside(Locking(m)))
  /\ \A c \in Conds :
       cond[c].queued = Cardinality(UNION {Inside(Waiting(c, m)) : m \in Mutexes})

\* What t sleeps for is not there: m is had, or nobody has signalled the variable.
WaitsInVain(t) ==
  \/ \E m \in Mutexes : pc[t] = Locking(m) /\ Holders(m) # {}
  \/ \E c \in Conds, m \in Mutexes : pc[t] = Waiting(c, m)
=============================================================================

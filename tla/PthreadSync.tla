----------------------------- MODULE PthreadSync -----------------------------
(***************************************************************************)
(* Threads of one program that synchronise with mutexes and condition      *)
(* variables, a read-write lock, a semaphore and a barrier, that talk      *)
(* through a pipe, and that create, join and detach each other, all of it  *)
(* over the one scheduler and its waiting lists.                           *)
(***************************************************************************)
EXTENDS Integers, PthreadCalls

CONSTANTS
  Programs,            \* the sets of kinds of objects that programs use
  Mutexes, Conds, MaxDepth,
  Values, MaxUnits,
  Counts, MaxRounds,
  Fds, Sizes, MaxSize, MaxEvents,
  MaxCreated

Kinds == {"mutex", "rwlock", "semaphore", "barrier", "pipe", "threads"}

ASSUME SyncAssumption ==
  /\ Programs \subseteq SUBSET Kinds
  /\ MaxDepth \in Nat /\ MaxUnits \in Nat /\ MaxRounds \in Nat
  /\ Values \subseteq 0 .. MaxUnits
  /\ Counts \subseteq Nat \ {0}
  /\ Fds \subseteq Nat /\ Sizes \subseteq Nat \ {0}
  /\ MaxSize \in Nat \ {0} /\ MaxEvents \in Nat
  /\ MaxCreated \in Nat /\ Tids = 1 .. Cardinality(Tids) /\ Cardinality(Tids) < MaxWlist

VARIABLES
  uses,                  \* the kinds of objects that this program uses
  mutex, cond, depth,    \* PthreadMutex
  rw, has,               \* PthreadRwlock
  sem, units, passed,    \* PthreadSemaphore
  barrier, arrived, left,\* PthreadBarrier
  fds, ends, buff, put, got, inOrder,    \* PosixPipe
  table, created, who, claimed, joined   \* PthreadThreads

mutexVars == <<mutex, cond, depth>>
rwlockVars == <<rw, has>>
semaphoreVars == <<sem, units, passed>>
barrierVars == <<barrier, arrived, left>>
threadVars == <<table, created, who, claimed, joined>>
pipeVars == <<fds, ends, buff, put, got, inOrder>>
objectVars == <<mutexVars, rwlockVars, semaphoreVars, barrierVars, pipeVars>>
vars == <<sched, pc, uses, objectVars, threadVars>>

M == INSTANCE PthreadMutex
R == INSTANCE PthreadRwlock
S == INSTANCE PthreadSemaphore
B == INSTANCE PthreadBarrier
P == INSTANCE PosixPipe
T == INSTANCE PthreadThreads

Init ==
  /\ uses \in Programs
  /\ pc = [t \in Tids |-> Run]
  /\ T!Init(IF "threads" \in uses THEN {1} ELSE Tids)
  /\ M!Init /\ R!Init /\ S!Init /\ B!Init /\ P!Init

\* sched_yield and the like
Yield(t) ==
  /\ Calls(t)
  /\ sched' = Preempt(sched)
  /\ UNCHANGED <<pc, uses, objectVars, threadVars>>

Exit(t) ==
  /\ T!PthreadExit(t)
  /\ UNCHANGED <<uses, objectVars>>

\* One operation on an object of each kind
MutexStep ==
  /\ "mutex" \in uses
  /\ M!Next
  /\ UNCHANGED <<uses, rwlockVars, semaphoreVars, barrierVars, pipeVars, threadVars>>

RwlockStep ==
  /\ "rwlock" \in uses
  /\ R!Next
  /\ UNCHANGED <<uses, mutexVars, semaphoreVars, barrierVars, pipeVars, threadVars>>

SemaphoreStep ==
  /\ "semaphore" \in uses
  /\ S!Next
  /\ UNCHANGED <<uses, mutexVars, rwlockVars, barrierVars, pipeVars, threadVars>>

BarrierStep ==
  /\ "barrier" \in uses
  /\ B!Next
  /\ UNCHANGED <<uses, mutexVars, rwlockVars, semaphoreVars, pipeVars, threadVars>>

PipeStep ==
  /\ "pipe" \in uses
  /\ P!Next
  /\ UNCHANGED <<uses, mutexVars, rwlockVars, semaphoreVars, barrierVars, threadVars>>

ThreadStep ==
  /\ "threads" \in uses
  /\ T!Next
  /\ UNCHANGED <<uses, objectVars>>

Next ==
  \/ MutexStep \/ RwlockStep \/ SemaphoreStep \/ BarrierStep \/ PipeStep \/ ThreadStep
  \/ \E t \in Tids : Yield(t) \/ Exit(t)

Spec == Init /\ [][Next]_vars

\* The executor goes on stepping a state that has not ended, and the thread it steps
\* comes again and again to a call that yields, sleeps or wakes: between such calls the
\* scheduler never takes the processor away (a thread may close and dup3 for ever).
FairSpec == Spec /\ (([]<><<TRUE>>_sched) \/ <>[](sched.status # "running"))

(***************************************************************************)
(* Properties                                                              *)
(***************************************************************************)
\* Types of the variables, those of the objects in their modules.
TypeOK ==
  /\ IsScheduler(sched)
  /\ uses \in Programs
  /\ M!TypeOK /\ R!TypeOK /\ S!TypeOK /\ B!TypeOK /\ P!TypeOK /\ T!TypeOK

\* At most one thread has a mutex, and the mutex_data_t says so (M!MutualExclusion):
\* _atomic_mutex_lock hands it to a woken thread without another test.
MutualExclusion == M!MutualExclusion

\* A lock that a thread has for writing is had by no other thread: what makes it
\* a "POSIX Read Write Lock".
Exclusion == R!Exclusion

\* Threads do not all sleep for a mutex or a read-write lock that nobody has, none
\* sleeps in read, write or select for a pipe that is ready or closed, and none in
\* pthread_join for one that has ended: the notify of the unlock, of the call that made
\* the pipe ready or of the exit reaches them.
NoLostWakeup == M!NoLostWakeup /\ R!NoLostWakeup /\ P!NoLostWakeup /\ T!JoinIsWoken

\* The executor's asserts on its waiting lists hold, whatever the runtime calls,
\* and the counters and the thread table of the runtime agree with the executor.
SchedulerAgrees ==
  /\ TypeOK
  /\ AssertsHold(sched) /\ WaitingListsAgree(sched)
  /\ M!QueuesAgree /\ R!QueuesAgree /\ P!QueuesAgree /\ T!SlotsAreThreads

\* Nobody gets through sem_wait without a unit, no unit is lost, and nobody sleeps
\* while one is left (the test of _atomic_sem_unlock wakes one thread per post).
UnitsAreConserved == S!UnitsAreConserved

\* Whoever has been woken in pthread_barrier_wait belongs to a round that is full, and
\* no thread leaves its k-th round before every thread has reached it.
Synchronises == B!Synchronises

\* "hang (possible deadlock?)" is reported only when every thread that is left
\* waits for something that no thread has given: an unlock, a signal, a post, an
\* arrival, bytes or room in the pipe, or an exit.  (The thread that exits is the current one still.)
HangIsReal ==
  sched.status = "hang" =>
    \A t \in Live(sched) \ {Self} :
      M!WaitsInVain(t) \/ R!WaitsInVain(t) \/ S!WaitsInVain(t) \/ B!WaitsInVain(t)
        \/ P!WaitsInVain(t) \/ T!WaitsInVain(t)

\* The bytes that read returns are those that write was given, in order, also when the
\* ring of the stream buffer wraps (_stream_readv, _stream_writev).
StreamIsFifo == P!StreamIsFifo

\* The ends and the buffer of a pipe are freed when the last descriptor is closed and the
\* last thread has left them, not earlier and not later (_stream_destroy, _close_pipe).
PipeIsReleased == P!PipeIsReleased

\* pthread_join returns the value of the thread it was called for, although slots and
\* ids are used again.
JoinGetsItsThread == T!JoinGetsItsThread

\* A thread that has been woken inside a call goes on, unless the state ends
\* first: the scheduler passes no enabled thread over for ever, however the others
\* yield, try and post.
WokenGoesOn ==
  \A t \in Tids :
    (pc[t] # Run /\ t \in Enabled(sched))
      ~> (pc[t] = Run \/ t \notin Enabled(sched) \/ sched.status # "running")
=============================================================================

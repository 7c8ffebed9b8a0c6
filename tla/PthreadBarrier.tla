---------------------------- MODULE PthreadBarrier ----------------------------
(***************************************************************************)
(* The barriers of the POSIX runtime (runtime/POSIX/threadsync.c): one     *)
(* barrier.                                                                *)
(***************************************************************************)
EXTENDS Naturals, Functions, PthreadCalls

CONSTANTS
  Counts,     \* the counts that the program passes to pthread_barrier_init
  MaxRounds   \* bound on the calls of pthread_barrier_wait by one thread

VARIABLES
  barrier,  \* the barrier_data_t
  arrived,  \* history: how often each thread has called pthread_barrier_wait
  left      \* history: how often each thread has returned from it

\* STATIC_BARRIER_VALUE: not initialised
StaticBarrier == [wlist |-> 0, curr_event |-> 0, init_count |-> 0, left |-> 0]

Never == [t \in Tids |-> 0]

Init == barrier = StaticBarrier /\ arrived = Never /\ left = Never

BarrierWaiting == [call |-> "barrier_wait"]

BarrierInit(count) ==
  /\ Calls(Self)
  /\ barrier = StaticBarrier /\ CanGetWaitingLists(sched)
  /\ sched' = GetWaitingList(sched)
  /\ barrier' = [wlist |-> sched.wlistCounter, curr_event |-> 0,
                 init_count |-> count, left |-> count]
  /\ UNCHANGED <<pc, arrived, left>>

\* A program may destroy a barrier that no thread is in.  One that is not
\* initialised is, only to be destroyed.
BarrierDestroy ==
  /\ Calls(Self)
  /\ Inside(BarrierWaiting) = {}
  /\ \/ barrier # StaticBarrier /\ UNCHANGED sched
     \/ barrier = StaticBarrier /\ CanGetWaitingLists(sched) /\ sched' = GetWaitingList(sched)
  /\ barrier' = StaticBarrier /\ arrived' = Never /\ left' = Never
  /\ UNCHANGED pc

\* The round is full: the next one starts.
Reset(b) == [b EXCEPT !.curr_event = @ + 1, !.left = b.init_count]

IsLastEarly(b) == b.left - 1 <= 1
IsLast(b) == b.left - 1 = 0

\* The last thread of a round wakes the others and runs on.  (EINVAL if the
\* barrier is not initialised.)
BarrierWait(t) ==
  /\ Calls(t) /\ barrier # StaticBarrier /\ arrived[t] < MaxRounds
  /\ arrived' = [arrived EXCEPT ![t] = @ + 1]
  /\ \/ /\ IsLast(barrier)
        /\ barrier' = Reset(barrier)
        /\ sched' = NotifyAll(sched, barrier.wlist)
        /\ left' = [left EXCEPT ![t] = @ + 1]
        /\ UNCHANGED pc
     \/ /\ ~IsLast(barrier)
        /\ barrier' = [barrier EXCEPT !.left = @ - 1]
        /\ sched' = Sleep(sched, barrier.wlist)
        /\ pc' = [pc EXCEPT ![t] = BarrierWaiting]
        /\ UNCHANGED left

BarrierWakes(t) ==
  /\ GoesOn(t, BarrierWaiting)
  /\ pc' = [pc EXCEPT ![t] = Run]
  /\ left' = [left EXCEPT ![t] = @ + 1]
  /\ UNCHANGED <<sched, barrier, arrived>>

Next ==
  \/ \E count \in Counts : BarrierInit(count)
  \/ BarrierDestroy
  \/ \E t \in Tids : BarrierWait(t) \/ BarrierWakes(t)

(***************************************************************************)
(* Properties                                                              *)
(***************************************************************************)
TypeOK ==
  /\ \/ barrier = StaticBarrier
     \/ /\ barrier \in [wlist : Wlists, curr_event : Nat, init_count : Counts, left : Nat]
        /\ barrier.left \in 1 .. barrier.init_count
  /\ arrived \in [Tids -> 0 .. MaxRounds] /\ left \in [Tids -> 0 .. MaxRounds]

\* A thread sleeps in the round that is being filled, and only there: whoever has
\* been woken or has returned belongs to a round of init_count arrivals.
RoundsAreFull ==
  barrier # StaticBarrier =>
    LET inRound == barrier.init_count - barrier.left
    IN  /\ SumFunction(arrived) = barrier.init_count * barrier.curr_event + inRound
        /\ Cardinality(sched.waitingLists[barrier.wlist]) = inRound

\* Rounds do not mix, and a thread leaves its k-th round only when every thread has
\* reached it, if the barrier is for all the threads.
Synchronises ==
  /\ RoundsAreFull
  /\ barrier.init_count = Cardinality(Tids) => \A t, u \in Tids : left[t] <= arrived[u]

\* t is in a round that more threads have to join.
WaitsInVain(t) ==
  t \in Inside(BarrierWaiting) /\ SumFunction(arrived) % barrier.init_count # 0
=============================================================================

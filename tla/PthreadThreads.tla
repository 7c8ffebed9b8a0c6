---------------------------- MODULE PthreadThreads ----------------------------
(***************************************************************************)
(* Creating, ending, joining and detaching threads: the table of the POSIX *)
(* runtime (runtime/POSIX/threads.c), whose slots, and with them the ids,  *)
(* are used again, over the threads of the executor.  A thread returns its *)
(* incarnation, so that values of different threads can be told apart.     *)
(***************************************************************************)
EXTENDS Naturals, PthreadCalls

CONSTANT MaxCreated   \* bound on the threads that the program creates

VARIABLES
  table,    \* __tsync.threads; slot t - 1 is for id t
  created,  \* history: threads created so far
  who,      \* history: who[t], the incarnation that id t stands for
  claimed,  \* history: the ids that a join or a detach has been called for
  joined    \* history: the thread that the last join was for, and the value it got

\* STATIC_LIST_CLEAR
FreeSlot == [allocated |-> FALSE, terminated |-> FALSE, joinable |-> FALSE,
             ret_value |-> 0, wlist |-> 0]

\* The slots and waiting lists when the threads in started run: main, for which
\* klee_init_threads sets up the table, or main and threads that it has detached.
Taken(joinable, wlist) ==
  [FreeSlot EXCEPT !.allocated = TRUE, !.joinable = joinable, !.wlist = wlist]

Init(started) ==
  /\ sched = [SetupThreads(started) EXCEPT !.wlistCounter = Cardinality(started) + 1]
  /\ table = [t \in Tids |-> IF t \in started THEN Taken(t = 1, t) ELSE FreeSlot]
  /\ created = Cardinality(started)
  /\ who = [t \in Tids |-> IF t \in started THEN t ELSE 0]
  /\ claimed = {}
  /\ joined = [target |-> 0, got |-> 0]

\* A thread that sleeps for u in pthread_join
Joining(u) == [call |-> "join", thread |-> u]

\* STATIC_LIST_ALLOC: the first free slot
FreeSlots == {t \in Tids : ~table[t].allocated}

\* attr is NULL or says joinable or detached; NULL is taken as detached.  EAGAIN if
\* there is no slot.
PthreadCreate(t, joinable) ==
  LET u == Min(FreeSlots)
  IN  /\ Calls(t)
      /\ FreeSlots # {} /\ created < MaxCreated /\ sched.wlistCounter \in Wlists
      /\ table' = [table EXCEPT ![u] = Taken(joinable, sched.wlistCounter)]
      /\ sched' = CreateThread(GetWaitingList(sched), u)
      /\ created' = created + 1
      /\ who' = [who EXCEPT ![u] = created + 1]
      /\ claimed' = claimed \ {u}
      /\ UNCHANGED <<pc, joined>>

PthreadExitClears(t) ==
  /\ Calls(t)
  /\ table' = [table EXCEPT ![t] = FreeSlot]
  /\ sched' = ExecuteThreadExit(NotifyAll(sched, table[t].wlist))
  /\ UNCHANGED <<pc, created, who, claimed, joined>>

\* Returning from the start routine calls pthread_exit as well.
PthreadExit(t) ==
  LET slot == table[t]
  IN  /\ Calls(t)
      /\ table' = [table EXCEPT ![t] =
                     IF slot.joinable
                     THEN [slot EXCEPT !.terminated = TRUE, !.ret_value = who[t]]
                     ELSE FreeSlot]
      /\ sched' = ExecuteThreadExit(IF slot.joinable THEN NotifyAll(sched, slot.wlist)
                                    ELSE sched)
      /\ UNCHANGED <<pc, created, who, claimed, joined>>

\* pthread_join takes the value and frees the slot.
Collect(u) ==
  /\ joined' = [target |-> who[u], got |-> table[u].ret_value]
  /\ table' = [table EXCEPT ![u] = FreeSlot]

\* A program joins or detaches a joinable thread once.  The calls that return an
\* error (ESRCH, EDEADLK, EINVAL) change nothing.
MayClaim(t, u) ==
  /\ Calls(t)
  /\ u # t /\ u \notin claimed /\ table[u].allocated /\ table[u].joinable

PthreadJoin(t, u) ==
  /\ MayClaim(t, u)
  /\ claimed' = claimed \cup {u}
  /\ \/ /\ table[u].terminated
        /\ Collect(u)
        /\ UNCHANGED <<sched, pc>>
     \/ /\ ~table[u].terminated
        /\ sched' = Sleep(sched, table[u].wlist)
        /\ pc' = [pc EXCEPT ![t] = Joining(u)]
        /\ UNCHANGED <<table, joined>>
  /\ UNCHANGED <<created, who>>

PthreadJoinWakes(t, u) ==
  /\ GoesOn(t, Joining(u))
  /\ Collect(u)
  /\ pc' = [pc EXCEPT ![t] = Run]
  /\ UNCHANGED <<sched, created, who, claimed>>

\* A thread may detach itself.
PthreadDetach(t, u) ==
  /\ Calls(t)
  /\ u \notin claimed /\ table[u].allocated /\ table[u].joinable
  /\ claimed' = claimed \cup {u}
  /\ table' = [table EXCEPT ![u] =
                 IF @.terminated THEN FreeSlot ELSE [@ EXCEPT !.joinable = FALSE]]
  /\ UNCHANGED <<sched, pc, created, who, joined>>

Next ==
  \E t \in Tids :
    \/ \E joinable \in BOOLEAN : PthreadCreate(t, joinable)
    \/ \E u \in Tids : PthreadJoin(t, u) \/ PthreadJoinWakes(t, u) \/ PthreadDetach(t, u)

(***************************************************************************)
(* Properties                                                              *)
(***************************************************************************)
TypeOK ==
  /\ table \in [Tids -> [allocated : BOOLEAN, terminated : BOOLEAN, joinable : BOOLEAN,
                         ret_value : 0 .. MaxCreated, wlist : {0} \cup Wlists]]
  /\ created \in 1 .. MaxCreated
  /\ who \in [Tids -> 0 .. MaxCreated]
  /\ claimed \subseteq Tids
  /\ joined \in [target : 0 .. MaxCreated, got : 0 .. MaxCreated]

\* A join returns the value of the thread it was called for, not of an earlier or a
\* later one with the same slot.
JoinGetsItsThread == joined.got = joined.target

\* The slots that are taken and not terminated are the threads of the executor, so
\* that createThread never meets an id that is in use.
SlotsAreThreads ==
  sched.status = "running" =>
    Live(sched) = {t \in Tids : table[t].allocated /\ ~table[t].terminated}

\* A thread that sleeps in pthread_join has been woken if and only if the thread that
\* it waits for has ended.
JoinIsWoken ==
  \A t, u \in Tids : pc[t] = Joining(u) =>
    table[u].allocated /\ (sched.threads[t].enabled <=> table[u].terminated)

\* What t sleeps for is not there: the thread has not ended.
WaitsInVain(t) == \E u \in Tids : pc[t] = Joining(u) /\ ~table[u].terminated
=============================================================================

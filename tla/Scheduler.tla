------------------------------ MODULE Scheduler ------------------------------
(***************************************************************************)
(* The threads of one execution state and the cooperative scheduler that   *)
(* runs them: ExecutionState's threads, waitingLists and crtThreadIt, and  *)
(* the klee_thread_* calls.  A thread runs until it calls the scheduler,   *)
(* which picks the first enabled thread after it in the order of the ids.  *)
(* The part of an ExecutionState that this changes is a value, so that the *)
(* pthread runtime can make several of these calls in one step.            *)
(***************************************************************************)
EXTENDS Naturals, FiniteSets, FiniteSetsExt

CONSTANTS Tids,     \* thread ids; the first thread is 1
          MaxWlist  \* bound on wlistCounter

ASSUME SchedulerAssumption ==
  /\ Tids \subseteq Nat \ {0}
  /\ 1 \in Tids
  /\ MaxWlist \in Nat \ {0}

Wlists == 1 .. MaxWlist

\* "hang", "exit" and "assert" end the state: no thread is enabled, the last
\* thread has returned, an assert of the executor has failed.
Statuses == {"running", "hang", "exit", "assert"}

IsScheduler(s) ==
  /\ DOMAIN s.threads \subseteq Tids
  /\ s = [threads      |-> s.threads,
          waitingLists |-> s.waitingLists,
          wlistCounter |-> s.wlistCounter,
          crtThread    |-> s.crtThread,
          status       |-> s.status]
  /\ s.threads \in [DOMAIN s.threads -> [enabled : BOOLEAN, waitingList : {0} \cup Wlists]]
  /\ s.waitingLists \in [Wlists -> SUBSET Tids]
  /\ s.wlistCounter \in 1 .. MaxWlist + 1
  /\ s.crtThread \in Tids
  /\ s.status \in Statuses

Runnable == [enabled |-> TRUE, waitingList |-> 0]

Live(s) == DOMAIN s.threads
Enabled(s) == {t \in Live(s) : s.threads[t].enabled}

\* The state of a program that has started the threads in live and runs main
SetupThreads(live) ==
  [threads      |-> [t \in live |-> Runnable],
   waitingLists |-> [w \in Wlists |-> {}],
   wlistCounter |-> 1,
   crtThread    |-> 1,
   status       |-> "running"]

\* s1 if the assert holds in s
Asserting(holds, s, s1) == IF holds THEN s1 ELSE [s EXCEPT !.status = "assert"]

\* Room for the two waiting lists that one call may need
CanGetWaitingLists(s) == s.wlistCounter < MaxWlist
GetWaitingList(s) == [s EXCEPT !.wlistCounter = @ + 1]

NextThreadFromBegin(s) ==
  LET others == Enabled(s) \ {s.crtThread}
  IN  Min(IF others # {} THEN others ELSE Enabled(s))

\* The first enabled thread after the current one, in the cyclic order of ids
NextThread(s) ==
  LET after == {t \in Enabled(s) : t > s.crtThread}
  IN  Min(IF after # {} THEN after ELSE Enabled(s))

Schedule(s) ==
  IF Enabled(s) = {}
  THEN [s EXCEPT !.status = "hang"]
  ELSE [s EXCEPT !.crtThread = NextThread(s)]

\* klee_thread_sleep: sleepThread and schedule
Sleep(s, w) ==
  LET t == s.crtThread
  IN  Asserting(s.threads[t].enabled /\ w > 0, s,
        Schedule([s EXCEPT !.threads[t] = [enabled |-> FALSE, waitingList |-> w],
                           !.waitingLists[w] = @ \cup {t}]))

Wake(s, woken, w) ==
  [s EXCEPT !.threads = [t \in Live(s) |-> IF t \in woken THEN Runnable ELSE @[t]],
            !.waitingLists[w] = @ \ woken]

\* klee_thread_notify for one thread: the head of the list, if there is one
NotifyOne(s, w) ==
  LET head == Min(s.waitingLists[w])
  IN  IF s.waitingLists[w] = {} THEN s
      ELSE Asserting(w > 0 /\ head \in Live(s) \ Enabled(s), s, Wake(s, {head}, w))

NotifyAll(s, w) ==
  Asserting(w > 0 /\ s.waitingLists[w] \subseteq Live(s), s, Wake(s, s.waitingLists[w], w))

\* klee_thread_create; the creator runs on
CreateThread(s, tid) ==
  Asserting(tid \notin Live(s), s,
    [s EXCEPT !.threads = [t \in Live(s) \cup {tid} |-> IF t = tid THEN Runnable ELSE @[t]]])

\* klee_thread_terminate: the thread is disabled, another one is scheduled, and
\* then the thread is erased.
ExecuteThreadExit(s) ==
  LET t == s.crtThread
      s1 == Schedule([s EXCEPT !.threads[t].enabled = FALSE])
  IN  IF Live(s) = {t} THEN [s EXCEPT !.status = "exit"]
      ELSE IF s1.status = "hang" THEN s1
      ELSE Asserting(s1.crtThread # t /\ s1.threads[t].waitingList = 0, s1,
             [s1 EXCEPT !.threads = [u \in Live(s) \ {t} |-> @[u]]])

(***************************************************************************)
(* Properties, of the scheduler s of any program                           *)
(***************************************************************************)
\* The asserts of sleepThread, notifyOne, notifyAll, createThread and
\* terminateThread never fail.
AssertsHold(s) == s.status # "assert"

\* A thread is in the waiting list that it names, in no other one, and exactly
\* the threads in no waiting list are enabled; the thread that runs is enabled
\* (ExecutionState::waitingLists and Thread::waitingList are kept in step).
WaitingListsAgree(s) ==
  /\ \A t \in Live(s) :
       /\ \A w \in Wlists : t \in s.waitingLists[w] <=> s.threads[t].waitingList = w
       /\ s.status # "hang" => (s.threads[t].enabled <=> s.threads[t].waitingList = 0)
  /\ \A w \in Wlists : s.waitingLists[w] \subseteq Live(s)
  /\ s.status = "running" => s.crtThread \in Enabled(s)
=============================================================================

----------------------------- MODULE PthreadCalls -----------------------------
(***************************************************************************)
(* The threads of a program inside the pthread runtime.  A thread runs     *)
(* until it calls the scheduler; one that has slept inside a call goes on  *)
(* from there, and pc says in which call it is.                            *)
(***************************************************************************)
EXTENDS Scheduler

VARIABLES
  sched,  \* the threads (Scheduler)
  pc      \* pc[t] : the call that t is in the middle of

Run == [call |-> "none"]

Self == sched.crtThread

\* The thread that runs is t, and it goes on inside call.
GoesOn(t, call) == sched.status = "running" /\ t = Self /\ pc[t] = call

\* The thread that runs is t, and it may call the runtime.
Calls(t) == GoesOn(t, Run)

\* The threads that are asleep or have been woken inside call
Inside(call) == {t \in Tids : pc[t] = call}

Preempt(s) == Schedule(s)
=============================================================================

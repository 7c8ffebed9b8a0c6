----------------------------- MODULE NvmLocks -----------------------------
(* The shared/exclusive locks of the NVM Direct library (nvm_locks.c):      *)
(* nvm_lock and nvm_unlock by concurrent transactions, the waiting on the   *)
(* condition of the mutex, a crash at any point and the repair of the locks *)
(* by nvm_recover_lock before the recovery threads release them.            *)
(*                                                                         *)
(* A transaction has a slot number, a state and its lock records, oldest    *)
(* first; its own recoverability is the subject of NvmTransaction, so here  *)
(* it is one line of memory.                                                *)
EXTENDS NvmMemory, Integers, Sequences, SequencesExt

CONSTANTS
  Slots,       \* transaction slots, positive integers; one thread each
  Mutexes,     \* NVM mutexes
  Level,       \* lock level of each mutex
  Loads        \* what the threads may ask for, how a crash comes, and the
               \* bounds: [requests, power, crashes, locks, rounds], where
               \* requests are records [m, excl, wait], locks bounds the lock
               \* requests of a transaction, rounds[t] the transactions of t

VARIABLES
  th,          \* each thread: where it is, its request, the record it unlocks
  wl,          \* thread that holds the volatile mutex of the wait list, or 0
  load,        \* the element of Loads
  rounds,      \* transactions begun by each thread
  phase,       \* "up", "repair" (nvm_recover) or "recover" (nvm_txrecover)
  left,        \* lock records nvm_recover has still to repair
  crashes      \* crashes still to come

vars == <<mem, hist, pend, power, th, wl, load, rounds, phase, left, crashes>>

MutexLine(m) == <<"mutex", m>>
TxLine(t) == <<"tx", t>>
Mutex(m) == mem[MutexLine(m)]
Tx(t) == mem[TxLine(t)]

Free == [owners |-> 0, x_waiters |-> 0, s_waiters |-> 0]
Idle == [state |-> "idle", locks |-> <<>>]
Out == [pc |-> "out", m |-> "none", excl |-> FALSE, wait |-> "none", waited |-> FALSE,
        late |-> FALSE, k |-> 0, asks |-> 0]

---------------------------------------------------------------------------
(* Small steps of the thread and of the memory.                             *)

To(t, pc) == th' = [th EXCEPT ![t].pc = pc]
Stays == UNCHANGED <<power, load, rounds, phase, left, crashes>>

(* The lock record a thread works on: the newest when locking. *)
Newest(t) == Len(Tx(t).locks)
WithLock(t, k, st) == [Tx(t) EXCEPT !.locks[k].state = st]

(* Shares and exclusive ownership as the records have them. *)
Held(t, m) == {k \in DOMAIN Tx(t).locks : Tx(t).locks[k] = [m |-> m, state |-> "held_s"]}
Shares(m) == MapThenSumSet(LAMBDA t : Cardinality(Held(t, m)), Slots)

(* Threads asleep on the condition of the mutex. *)
Sleepers(m) == {t \in Slots : th[t].pc = "sleep" /\ th[t].m = m}

(* Outcomes of nvms_cond_post: all sleepers wake, or one of them. *)
Posted(m, all) ==
  IF Sleepers(m) = {} THEN {{}}
  ELSE IF all THEN {Sleepers(m)} ELSE {{t} : t \in Sleepers(m)}

(* The thread moves on and the woken ones want the wait list mutex back. *)
Wakes(t, pc, ts) ==
  th' = [u \in Slots |-> IF u = t THEN [th[u] EXCEPT !.pc = pc]
                         ELSE IF u \in ts THEN [th[u] EXCEPT !.pc = "woken"]
                         ELSE th[u]]

---------------------------------------------------------------------------
(* nvm_lock                                                                 *)

(* A thread asks for a lock: the lock order is respected or the wait is     *)
(* timed.  Nothing to do if the transaction has the mutex exclusively,      *)
(* else nvm_add_lock_op adds a record.                                      *)
AskLock(t, r) ==
  /\ phase = "up" /\ th[t].pc = "in" /\ th[t].asks < load.locks
  /\ r.wait = "forever" =>
       \A k \in DOMAIN Tx(t).locks : Level[Tx(t).locks[k].m] < Level[r.m]
  /\ Mutex(r.m).owners # t
  /\ StorePersist1(TxLine(t), [Tx(t) EXCEPT !.locks =
       Append(@, [m |-> r.m, state |-> IF r.excl THEN "x" ELSE "free_s"])])
  /\ th' = [th EXCEPT ![t] = [pc |-> "want", m |-> r.m, excl |-> r.excl, wait |-> r.wait,
                              waited |-> FALSE, late |-> FALSE, k |-> 0, asks |-> th[t].asks + 1]]
  /\ UNCHANGED wl /\ Stays

(* nvm_get_wait_list *)
LockWaitList(t) ==
  /\ th[t].pc = "want" /\ wl = 0
  /\ wl' = t
  /\ To(t, "check")
  /\ UNCHANGED memory /\ Stays

(* A plausible mistake: a thread that has waited defers to others too. *)
GrantableAfterWaiters(t) ==
  LET x == Mutex(th[t].m)  excl == th[t].excl
  IN  /\ x.owners = 0 \/ (~excl /\ x.owners < 0)
      /\ x.x_waiters = 0 /\ (x.s_waiters = 0 \/ ~excl)

(* The lock is compatible, and a thread that has not waited defers to the   *)
(* waiters it conflicts with.                                               *)
Grantable(t) ==
  LET x == Mutex(th[t].m)  excl == th[t].excl
  IN  /\ x.owners = 0 \/ (~excl /\ x.owners < 0)
      /\ th[t].waited \/ (x.x_waiters = 0 /\ (x.s_waiters = 0 \/ ~excl))

GrantExclusive(t) ==
  /\ th[t].pc = "check" /\ th[t].excl /\ Grantable(t) = TRUE
  /\ StorePersist1(MutexLine(th[t].m), [Mutex(th[t].m) EXCEPT !.owners = t])
  /\ wl' = 0
  /\ To(t, "in")
  /\ Stays

(* A share is acquired in three persistent steps. *)
AcquireShare(t) ==
  /\ th[t].pc = "check" /\ ~th[t].excl /\ Grantable(t) = TRUE
  /\ StorePersist1(TxLine(t), WithLock(t, Newest(t), "acquire_s"))
  /\ To(t, "acquire")
  /\ UNCHANGED wl /\ Stays

CountShare(t) ==
  /\ th[t].pc = "acquire"
  /\ StorePersist1(MutexLine(th[t].m), [Mutex(th[t].m) EXCEPT !.owners = @ - 1])
  /\ To(t, "hold")
  /\ UNCHANGED wl /\ Stays

(* A first share taken by a thread that waited wakes the other waiters if   *)
(* an exclusive one is among them.                                          *)
HoldShare(t) ==
  /\ th[t].pc = "hold"
  /\ StorePersist1(TxLine(t), WithLock(t, Newest(t), "held_s"))
  /\ LET x == Mutex(th[t].m)
         post == th[t].waited /\ x.owners = -1 /\ x.x_waiters # 0 /\ x.s_waiters # 0
     IN  \E ts \in IF post THEN Posted(th[t].m, TRUE) ELSE {{}} : Wakes(t, "in", ts)
  /\ wl' = 0
  /\ Stays

(* No wait, or the time of a timed wait is up: the record is thrown away. *)
GiveUp(t) ==
  /\ th[t].pc = "check" /\ ~Grantable(t)
  /\ th[t].wait = "none" \/ (th[t].wait = "timed" /\ th[t].waited)
  /\ wl' = 0
  /\ To(t, "drop")
  /\ UNCHANGED memory /\ Stays

(* nvm_apply_one *)
DropRecord(t) ==
  /\ th[t].pc = "drop"
  /\ StorePersist1(TxLine(t), [Tx(t) EXCEPT !.locks = Front(@)])
  /\ To(t, "in")
  /\ UNCHANGED wl /\ Stays

(* Waiter counts live in the mutex and are not flushed. *)
Waiters(t, d) ==
  LET x == Mutex(th[t].m)
  IN  IF th[t].excl THEN [x EXCEPT !.x_waiters = @ + d] ELSE [x EXCEPT !.s_waiters = @ + d]

Sleep(t) ==
  /\ th[t].pc = "check" /\ ~Grantable(t) /\ th[t].wait # "none" /\ ~th[t].late
  /\ Store(MutexLine(th[t].m), Waiters(t, 1))
  /\ wl' = 0
  /\ To(t, "sleep")
  /\ Stays

(* The time of a timed wait is up. *)
TimeOut(t) ==
  /\ th[t].pc = "sleep" /\ th[t].wait = "timed"
  /\ th' = [th EXCEPT ![t].pc = "woken", ![t].late = TRUE]
  /\ UNCHANGED <<memory, wl>> /\ Stays

Wake(t) ==
  /\ th[t].pc = "woken" /\ wl = 0
  /\ wl' = t
  /\ Store(MutexLine(th[t].m), Waiters(t, -1))
  /\ th' = [th EXCEPT ![t].pc = "check", ![t].waited = TRUE]
  /\ Stays

---------------------------------------------------------------------------
(* The end of a transaction: nvm_commit releases the locks newest first and *)
(* keeps the records till the end, nvm_apply_undo removes each record after *)
(* its lock is released.                                                    *)

Begin(t) ==
  /\ phase = "up" /\ th[t].pc = "out" /\ rounds[t] < load.rounds[t]
  /\ StorePersist1(TxLine(t), [Idle EXCEPT !.state = "active"])
  /\ rounds' = [rounds EXCEPT ![t] = @ + 1]
  /\ To(t, "in")
  /\ UNCHANGED <<power, wl, load, phase, left, crashes>>

Ending(t, state) ==
  /\ StorePersist1(TxLine(t), [Tx(t) EXCEPT !.state = state])
  /\ th' = [th EXCEPT ![t] = [Out EXCEPT !.pc = "end", !.k = Newest(t)]]
  /\ UNCHANGED wl /\ Stays

End(t) ==
  /\ th[t].pc = "in"
  /\ \E state \in {"committing", "aborting"} : Ending(t, state)

Lock(t) == Tx(t).locks[th[t].k]

HoldsLock(t) ==
  /\ Lock(t).state # "free_s"
  /\ Lock(t).state = "x" => Mutex(Lock(t).m).owners = t

(* A plausible mistake: only a waiter for the exclusive lock is woken. *)
UnlockPostsExclusive(x, m) ==
  IF x.x_waiters # 0 /\ x.owners = 0 THEN Posted(m, FALSE) ELSE {{}}

(* Sleepers nvm_unlock wakes once the mutex is as in x. *)
UnlockPosts(x, m) ==
  IF x.x_waiters # 0 /\ x.owners = 0 THEN Posted(m, FALSE)
  ELSE IF x.s_waiters # 0 THEN Posted(m, TRUE)
  ELSE {{}}

SkipUnlock(t) ==
  /\ th[t].pc = "end" /\ th[t].k > 0 /\ ~HoldsLock(t)
  /\ To(t, "next")
  /\ UNCHANGED <<memory, wl>> /\ Stays

UnlockExclusive(t) ==
  /\ th[t].pc = "end" /\ th[t].k > 0 /\ HoldsLock(t) /\ wl = 0
  /\ Lock(t).state = "x"
  /\ LET m == Lock(t).m  x == [Mutex(m) EXCEPT !.owners = 0]
     IN  /\ StorePersist1(MutexLine(m), x)
         /\ \E ts \in UnlockPosts(x, m) : Wakes(t, "next", ts)
  /\ UNCHANGED wl /\ Stays

ReleaseShare(t) ==
  /\ th[t].pc = "end" /\ th[t].k > 0 /\ HoldsLock(t) /\ wl = 0
  /\ Lock(t).state # "x"
  /\ wl' = t
  /\ StorePersist1(TxLine(t), WithLock(t, th[t].k, "release_s"))
  /\ To(t, "release")
  /\ Stays

UncountShare(t) ==
  /\ th[t].pc = "release"
  /\ LET m == Lock(t).m IN StorePersist1(MutexLine(m), [Mutex(m) EXCEPT !.owners = @ + 1])
  /\ To(t, "released")
  /\ UNCHANGED wl /\ Stays

FreeShare(t) ==
  /\ th[t].pc = "released"
  /\ StorePersist1(TxLine(t), WithLock(t, th[t].k, "free_s"))
  /\ LET m == Lock(t).m IN \E ts \in UnlockPosts(Mutex(m), m) : Wakes(t, "next", ts)
  /\ wl' = 0
  /\ Stays

NextRecord(t) ==
  /\ th[t].pc = "next"
  /\ IF Tx(t).state = "aborting"
     THEN StorePersist1(TxLine(t), [Tx(t) EXCEPT !.locks = Front(@)])
     ELSE UNCHANGED memory
  /\ th' = [th EXCEPT ![t].pc = "end", ![t].k = @ - 1]
  /\ UNCHANGED wl /\ Stays

Ended(t) ==
  /\ th[t].pc = "end" /\ th[t].k = 0
  /\ StorePersist1(TxLine(t), Idle)
  /\ To(t, "out")
  /\ UNCHANGED wl /\ Stays

---------------------------------------------------------------------------
(* Crash and recovery.                                                      *)

(* Every record of the dead transactions, the last slot first. *)
RecordsIn(image) ==
  LET Of(t) == [i \in DOMAIN image[TxLine(t)].locks |-> <<t, Len(image[TxLine(t)].locks) + 1 - i>>]
      slots == Reverse(SetToSortSeq(Slots, <))
  IN  FlattenSeq([i \in DOMAIN slots |-> Of(slots[i])])

Crash ==
  /\ crashes > 0
  /\ crashes' = crashes - 1
  /\ mem' \in Images
  /\ hist' = [l \in DOMAIN mem |-> {mem'[l]}]
  /\ pend' = {}
  /\ th' = [t \in Slots |-> [Out EXCEPT !.pc = IF mem'[TxLine(t)].state = "idle" THEN "out" ELSE "dead"]]
  /\ wl' = 0
  /\ phase' = "repair"
  /\ left' = RecordsIn(mem')
  /\ UNCHANGED <<power, load, rounds>>

(* nvm_recover_lock of the next record. *)
Repaired == Tx(Head(left)[1]).locks[Head(left)[2]]
WaitingExclusive(m) == Mutex(m).x_waiters # 0   \* a plausible mistake
Waiting(m) == Mutex(m).x_waiters # 0 \/ Mutex(m).s_waiters # 0
InFluxAcquire(st) == st = "acquire_s"           \* a plausible mistake
InFlux(st) == st \in {"acquire_s", "release_s"}

(* nvm_find_shares counts the records in state held. *)
nvm_find_shares(m) == Shares(m)

Repairing == phase = "repair" /\ left # <<>>
Unmoved == UNCHANGED <<power, th, wl, load, rounds, phase, crashes>>

RepairWaiters ==
  /\ Repairing /\ Waiting(Repaired.m) = TRUE
  /\ StoreFlush(MutexLine(Repaired.m), [Free EXCEPT !.owners = Mutex(Repaired.m).owners])
  /\ UNCHANGED left /\ Unmoved

WrongShares(r) ==
  /\ InFlux(r.state)
  /\ Mutex(r.m).owners \notin {0, -nvm_find_shares(r.m)}

RepairOwners ==
  /\ Repairing /\ ~Waiting(Repaired.m) /\ WrongShares(Repaired)
  /\ StorePersist1(MutexLine(Repaired.m), [Free EXCEPT !.owners = -nvm_find_shares(Repaired.m)])
  /\ UNCHANGED left /\ Unmoved

RepairRecord ==
  /\ Repairing /\ ~Waiting(Repaired.m) /\ ~WrongShares(Repaired)
  /\ LET t == Head(left)[1]
     IN  IF InFlux(Repaired.state)
         THEN StoreFlush(TxLine(t), WithLock(t, Head(left)[2], "free_s"))
         ELSE UNCHANGED memory
  /\ left' = Tail(left)
  /\ Unmoved

(* nvm_recover persists the repairs before any recovery thread runs. *)
StartRecovery ==
  /\ phase = "repair" /\ left = <<>>
  /\ Persist
  /\ phase' = "recover"
  /\ UNCHANGED <<power, th, wl, load, rounds, left, crashes>>

(* nvm_txrecover: an unfinished commit goes on, all else is aborted. *)
nvm_txrecover(t) ==
  /\ phase = "recover" /\ th[t].pc = "dead"
  /\ Ending(t, IF Tx(t).state = "committing" THEN "committing" ELSE "aborting")

(* nvm_recover returns when no dead transaction is left. *)
EndRecovery ==
  /\ phase = "recover" /\ \A t \in Slots : th[t].pc = "out"
  /\ phase' = "up"
  /\ UNCHANGED <<memory, power, th, wl, load, rounds, left, crashes>>

---------------------------------------------------------------------------
Init ==
  /\ load \in Loads
  /\ power = load.power /\ crashes = load.crashes
  /\ InitMemory([l \in {MutexLine(m) : m \in Mutexes} \cup {TxLine(t) : t \in Slots} |->
                   IF l[1] = "mutex" THEN Free ELSE Idle])
  /\ th = [t \in Slots |-> Out]
  /\ wl = 0
  /\ rounds = [t \in Slots |-> 0]
  /\ phase = "up"
  /\ left = <<>>

(* What a thread does once it is in a call, and the end of its transaction. *)
Step(t) ==
  \/ LockWaitList(t) \/ GrantExclusive(t) \/ AcquireShare(t) \/ CountShare(t) \/ HoldShare(t)
  \/ GiveUp(t) \/ DropRecord(t) \/ Sleep(t) \/ TimeOut(t) \/ Wake(t)
  \/ End(t) \/ SkipUnlock(t) \/ UnlockExclusive(t) \/ ReleaseShare(t) \/ UncountShare(t)
  \/ FreeShare(t) \/ NextRecord(t) \/ Ended(t) \/ nvm_txrecover(t)

Ask(t) == Begin(t) \/ (\E r \in load.requests : AskLock(t, r))

nvm_recover == RepairWaiters \/ RepairOwners \/ RepairRecord \/ StartRecovery \/ EndRecovery

Next == (\E t \in Slots : Step(t) \/ Ask(t)) \/ nvm_recover \/ Crash

Spec == Init /\ [][Next]_vars

(* Every thread is scheduled and every transaction ends. *)
FairSpec == Spec /\ (\A t \in Slots : WF_vars(Step(t))) /\ WF_vars(nvm_recover)

---------------------------------------------------------------------------
(* Properties.                                                              *)

(* The owners word tells the truth: while nobody is inside nvm_lock or      *)
(* nvm_unlock it is minus the number of held share records, or the slot of  *)
(* a transaction with an exclusive record, whose lock excludes all shares;  *)
(* so after any crash and repair too.                                       *)
OwnersExact ==
  (wl = 0 /\ phase # "repair") =>
    \A m \in Mutexes :
      IF Mutex(m).owners > 0
      THEN /\ Shares(m) = 0
           /\ [m |-> m, state |-> "x"] \in Range(Tx(Mutex(m).owners).locks)
      ELSE Mutex(m).owners = -Shares(m)

(* No wakeup is lost: a mutex nobody holds has no sleepers unless a thread  *)
(* that was posted, or timed out, is on its way to look at it again.        *)
NoLostWakeup ==
  (wl = 0 /\ phase = "up") =>
    \A m \in Mutexes :
      (Mutex(m).owners = 0 /\ Sleepers(m) # {})
        => \E t \in Slots : th[t].pc = "woken" /\ th[t].m = m

(* "When all calls to nvm_recover_lock are complete ... there are no        *)
(* mutexes with non-zero waiter counts", and when recovery is over none is  *)
(* held either: counts are those of the threads that really wait.           *)
WaitersExact ==
  (phase # "repair") =>
    \A m \in Mutexes :
      Mutex(m).x_waiters + Mutex(m).s_waiters =
        Cardinality({t \in Slots : th[t].m = m /\ th[t].pc \in {"sleep", "woken"}})

(* Everyone is served: again and again no thread is inside a call of the    *)
(* library, so every request is granted or times out, no unlock is stuck,   *)
(* and recovery gives the region back.                                      *)
Served == []<>(phase = "up" /\ \A t \in Slots : th[t].pc \in {"out", "in"})

===========================================================================

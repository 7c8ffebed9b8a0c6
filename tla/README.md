# Agamotto: verification project

Agamotto is KLEE with support for persistent memory (PM). It executes a program
symbolically, follows which cache lines of persistent objects are durable on every
path, and reports writes that a crash may lose, flushes and fences that do
nothing, and violations of some library rules. Among the programs it was evaluated on
is the NVM Direct library, whose transactions, locks and flush cache are modelled
here as well (`nvmbugs/005_nvm_direct`). This directory has TLA+ models of
its parts, TLC configurations that check them on small instances, and theorems
that TLAPS checks for every instance. `PROJECT.json` links each definition to the
lines it models, and lists runs, mutants, findings, hazards and theorems.

## 1. Inventory

| Part | Code | State | Operations that change it |
|---|---|---|---|
| Root causes | `lib/Core/RootCause.{h,cpp}` | `rootToId`, `idToRoot`, masked and masking sets, `buggyIds`, counts | register a location, mark as bug |
| Persistence tracking | `lib/Core/Memory.{h,cpp}` (`PersistentState`), handlers in `Executor.cpp` | update lists of dirty bits, root causes and flushes per object; `persistentObjects` | store, nontemporal store, flush, clflush, fence, mark, check, exit |
| Address spaces | `lib/Core/AddressSpace.{h,cpp}`, `ExecutionState.cpp` | `objects`, `cowKey`, `copyOnWriteOwner` | alloc, bind, write, free, fork, terminate, fence, flush |
| Thread scheduler | `ExecutionState.{h,cpp}`, `Executor.cpp`, `SpecialFunctionHandler.cpp` | `threads`, `waitingLists`, current thread | create, exit, sleep, notify, preempt |
| pthread runtime | `runtime/POSIX/threads.c`, `threadsync.c` | thread table; mutex, condition variable, rwlock, semaphore, barrier data | the pthread and sem calls |
| Semantic checkers | `lib/Core/CustomCheckerHandler.cpp` | `in_tx`, `added_ranges`, `needed` | run on every instruction |
| NVM search | `lib/Core/NvmHeuristics.{h,cpp}`, `Searcher.cpp` | priorities, contexts, values; the searcher's queue | step, update, select |
| Main loop, merge | `lib/Core/Executor.cpp`, `MergeHandler.cpp` | states, added and removed states | run, updateStates, merge |
| Memory manager | `lib/Core/MemoryManager.cpp` | objects, addresses | allocate, deallocate |
| Buffers, pipes | `runtime/POSIX/buffers.c`, `pipes.c` | ring buffers, event queues | read, write, close, destroy |
| Files, mmap | `files.c`, `symfs.c`, `mman.c` | block buffers, page references | read, write, map, unmap |
| Descriptors, select | `fd.c` | descriptor table, wait queues | open, close, dup, select |
| Sockets | `sockets.c`, `netlink.c` | endpoints, listen queues | connect, accept, send, close |
| Solver chain | `lib/Solver/{IndependentSolver,CachingSolver,CexCachingSolver,Solver}.cpp`, `ADT/MapOfSets.h` | branch cache, counterexample cache | validity, truth, value and initial-value queries |
| NVM Direct transactions | `nvm_transaction.c` | undo blocks and records, transaction state, all in NVM | begin, undo, savepoint, callbacks, commit, abort, rollback, end, recover |
| NVM Direct locks | `nvm_locks.c` | mutexes and lock records in NVM, wait lists in memory | lock, unlock, wait, time out, repair |
| NVM Direct flush cache | `nvm_misc.c` | a two-way table of noted lines per thread | flush, persist |
| NVM Direct heap, regions, symbols | `nvm_heap.c`, `nvm_region.c`, `nvm_usid.c` | free lists, extents, a hash table | allocate, map, register |
| Expressions, core solvers, LLVM passes, statistics, tools | `lib/Expr`, `lib/Solver`, `lib/Module`, `tools` | caches, counters | not stateful for the analysis |

How they interact: every instruction of a state may write its address space; a
store, flush or fence on a persistent object updates that object's
`PersistentState`, registers program locations with the one root-cause manager,
and, at exit, marks them as bugs there. Forks copy address spaces lazily, while
the manager and the semantic checkers are shared by all states. The pthread
runtime is C code executed inside the program under test, on top of the
scheduler's few primitives; buffers, pipes, sockets and select sleep and notify
in the same way. Every "may" and "must" of the executor is a query to the solver
chain. In NVM Direct the locks record what they hold in the undo of a transaction,
and both rest on the promise of the flush cache that `nvm_persist` makes durable
what was flushed.

What is hard about it: copy on write with states that fork and end in any order;
six update lists per object that have to tell one story although each coalesces
on its own and offsets are symbolic; masks between root causes that are found
along different paths; wakeups between a notify and the run of the notified
thread; global checkers that see all states interleaved; caches that answer for a
query, its negation, its subsets and its supersets, filled by a solver that may give
up; undo logs and locks that a crash may stop between any two stores, also while
they recover.

What makes it correct, in one line per part: a line is called lost exactly when
its last store was not flushed and fenced, and the last store is blamed; the
table of causes never mixes up or forgets a location; a state never sees another
one's writes; synchronisation objects do what POSIX says and a hang is reported
only when there is one; bytes leave a pipe as they came in, and it is freed after its
last user; a checker's report is about one transaction of one state; an answer of the
solver is the truth about the path condition; of an NVM transaction all or nothing
survives a crash, and its locks are neither lost nor kept.

## 2. Modules

| Module | Models | State and actions |
|---|---|---|
| `RootCause` | the manager as a value `m` | operators: `GetNewId`, `GetRootCauseLocationID`, `MarkAsBugs` |
| `RootCauseManager` | the manager by itself | `mgr`; `RegisterWrite`, `RegisterOther`, `MarkAsBug` |
| `PersistentState` | one path's persistent objects, with the manager | `ps`, `mgr`, `worlds`, `persistentObjects`, `phase`; one action per handler |
| `PmemModel` | what the tracking promises: each line clean, dirty or flushed, in each feasible world | abstract specification |
| `ObjectState` | the contents of an object, as far as several states can share it | operators |
| `AddressSpace` | states over a heap of ObjectStates with owners and keys | `live`, `cowKey`, `objects`, `heap`, `persistentObjects`; one action per executor operation |
| `PrivateMemory` | what copy on write promises: a memory per state | abstract specification |
| `AddressSpaceRefinement` | the refinement mapping between them | `Isolation` |
| `Scheduler` | threads, waiting lists and the klee_thread calls, as a value | operators: `Sleep`, `NotifyOne`, `NotifyAll`, `Schedule`, ... |
| `PthreadCalls` | the thread that runs, and the calls that threads sleep in | `sched`, `pc` |
| `PthreadMutex` | mutexes (normal and recursive) and condition variables | `mutex`, `cond`; one action per call, two if it sleeps |
| `PthreadRwlock`, `PthreadSemaphore`, `PthreadBarrier` | one object each | `rw`, `sem`, `barrier`; the same |
| `PthreadThreads` | create, exit, join, detach | `sched` and the thread table |
| `PosixPipe` | one pipe: stream buffer, event queue, ends, descriptors, select | `fds`, `ends`, `buff`; one action per call, two if it sleeps |
| `PthreadSync` | programs that use these objects over one scheduler | instances of the six; `uses` is the choice of objects |
| `CustomCheckers` | the two registered checkers, over all states | `txAdd`, `txOnly`; one action per kind of instruction |
| `Solver` | what a solver promises: expressions by their satisfying assignments; the core solver as an oracle | operators |
| `CexCachingSolver`, `CachingSolver` | the two caches; an operator takes the caches and yields the set of outcomes, failure included | operators over `st` |
| `IndependentSolver` | the chain that states ask | `caches`, `call`, `last`; one action per query |
| `SolverAlgorithms` | the trie of `MapOfSets`, the two factorisations, `getRange`, as the code computes them | recursive operators against what `IndependentSolver` uses |
| `NvmMemory` | stores, flushes and barriers as NVM Direct sees them, and what a crash leaves | `mem`, `hist`, `pend` |
| `NvmTransaction` | one transaction slot, its client, crashes, recovery | `todo`, the phases that are left of a call; one action per phase |
| `NvmLocks` | threads that lock and unlock, wait, time out; crashes; repair | `th`, the place of each thread in `nvm_lock` or `nvm_unlock`; one action per step |
| `NvmFlushCache` | the table of noted lines, loop step by loop step | `fc`, `loop`, `sent` |
| `*Lemmas`, `*Proofs` | lemmas and theorems | |
| `MC*` | instances for TLC | |

Conventions. Symbolic data is a function of *worlds* (values of the program's
input), and a path is the set of worlds that its constraints allow: "may be true"
is "in some world of the path", "must be true" is "in all". A C function that
sleeps is two actions, up to the sleep and after it, and `pc` tells
which call a thread sleeps in; everything between two scheduler calls is one step,
as threads are cooperative. In the NVM modules a step is what happens between two
persist barriers or two releases of a lock, so that a crash, or another thread, can come
between any two. Variables marked *history* record what the program did
or got, and no action of the code reads them. A definition may have wrong variants, which
stand before it (for example `ContendedIfTaken` before `Contended`); the
specifications do not use them, they show that a property notices a plausible bug.

## 3. Runs

Passing runs:

| Run | Instance | Shows |
|---|---|---|
| `root_causes` | three stores and a fence, all hashes equal, five occurrences in all | ids stay unique, masks flat, acyclic and symmetric, bugs, counts and statistics agree, nothing is forgotten |
| `persistence` | one object, two lines, two worlds, a symbolic index and a straddling store, lists of up to 3 updates | the update lists implement `PmemModel`; the last store of a lost line is blamed, each loss is reported at exit and nothing else is; flush and fence reports are honest |
| `copy_on_write` | three states, one object, four ObjectStates | shared ObjectStates are never written; each state sees its own memory (`PrivateMemory`) |
| `symbolic_flush` | two states that fork again and again, an alloca and an object at a fixed address, flushes at symbolic addresses | `OwnedIsPrivate`; fences reach every PersistentState however objects come and go |
| `sync` | three threads; a mutex (recursion up to 2) and a condition variable, or a read-write lock, or a semaphore and a barrier, or threads that create, join and detach one another, or a pipe of two bytes with two descriptors and a queue for one event | exclusion, no lost wakeup, queues that count the sleepers, units and bytes conserved, rounds that do not mix, a join that gets its own thread although slots are reused, a pipe that is freed after its last user, no false hang; whoever is woken goes on |
| `checkers` | two states, nesting up to 2, ranges that touch, or overlap in one world | both checkers have one view of transactions and forget it at their end; until states fork or transactions nest, the reports are exact |
| `nvm_tx` | one slot, five undo blocks of two records; two transactions and a power failure; nesting, callbacks and an end of the process; shorter ones with two ends | all or nothing of a transaction survives; no undo without its lock; every undo block is in one list; no assertion or corruption is reached; recovery ends |
| `nvm_locks` | three threads on one mutex with a power failure, two threads on two mutexes with upgrades, two failures in a row | owners and waiters in NVM agree with the lock records, nobody sleeps while the lock is free for it, and each request is served or times out |
| `nvm_flush` | four lines over a table of two slots | no line asked for is forgotten, and `nvm_persist` makes it durable |
| `solver` | two arrays of two and one elements, nine expressions, four queries, four option sets, three calls, failures anywhere | answers and caches are right; the trie, the factorisations and the binary searches find what they should |

Runs whose property the code violates (each is a finding in `PROJECT.json`, with
the line of the repository that states it):

| Run | What the code does |
|---|---|
| `flush_shared` | a flush at a symbolic address writes a PersistentState after the fork that made it shared (`Executor.cpp:4156`) |
| `rwlock_exclusion` | a woken writer takes the lock although another thread took it first (`threadsync.c:565`) |

Other disagreements between the code and what it says of itself are part of the
models, without a run of their own:

- `Executor.cpp:3920`: a nontemporal store over two lines persists only the first
  (the comment is at 3918). `PmemModel` has the same store.
- `RootCause.cpp:221`: a location met again over other writes does not mask them
  (against the comment at 231).
- `Executor.cpp:3851`: a freed or newly symbolic object stays in `persistentObjects`
  (against the assert at 4063; the variable `aborted` records it).
- `CustomCheckerHandler.cpp:230`: ranges of different states are taken for one
  transaction's (the comment is at 139); 282: the end of an inner transaction ends the
  outer one for the checker (against 142); 416: offsets of added ranges are compared
  with addresses of stores. `TxAddIsExact` and `BareStoreIsReported` hold until a state
  forks or a transaction nests.
- `fd.c:703`: the sets that `select` returns are static, and a thread that sleeps in it
  may find the bits of another thread's call in them. The model leaves the sets out.
- `nvm_transaction.c:5293`: `nvm_recover` unlinks empty undo blocks without a flush and
  then frees them with one (5387). If the power fails again at that point, a block is in
  a transaction and on the free list, which the comment at 1361 rules out. This needs two
  power failures and two undo blocks; the client of `nvm_tx` with power failures has
  one failure.
- `nvm_transaction.c:814`: the end of a nested transaction flushes the new `nstd_last`
  and the count of the undo block under one barrier; a power failure may keep only one of
  them. The client of `nvm_tx` that nests has its failures as ends of the process.
- `nvm_transaction.c:3246`: a savepoint in a nested transaction after one in its parent
  fails with "Bad savepoint pointer" when both are undone. This takes four calls; the
  clients of `nvm_tx` have three.
- `nvm_transaction.c:3151`: `nvm_apply_undo` goes on with an undo block that an abort
  callback has filled and dropped meanwhile. The callbacks of the clients are short.
- `nvm_transaction.c`: `nvm_txend` and `nvm_recover` do not post `trans_cond` when they
  free a slot or finish, `nvm_txconfig_callback` skips one of two consecutive removals, and
  `nvm_create_trans_table` makes one idle slot too many. These parts are not modelled.
- `nvm_misc.c`: a line may be noted in both of its slots and be flushed twice, which is
  harmless.
- `CexCachingSolver.cpp`: with `-cex-cache-exp` a truth query whose negation is known to
  be valid fails instead of answering no.
- `CachingSolver.cpp`: half an answer in the branch cache is never replaced by the
  whole one, since `std::map::insert` keeps what is there.

Bounds. `MaxUpdates`, `MaxOccurences`, `MaxCowKey`, `MaxWlist`, `MaxDepth`,
`MaxUnits`, `MaxRounds`, `MaxCreated`, `MaxCalls` and the bounds in `Clients` and `Loads` stop counters
that grow without end; no property speaks of their values. `MaxSize`, `MaxEvents`, `BlockCap`
and the `Size` of the flush cache are sizes of the code's own tables, made so small that
they overflow: in the code they are 4096 bytes, 4 events, a page of undo and 8 slots. Two lines and two worlds are enough for what the
tracking distinguishes (same or other line, this or another input); three states
allow a fork of a fork; three threads are the least for a third one to come
between a notify and the thread it wakes. Writes of one and of two bytes
into a ring of two fill it, wrap around and are cut short. Two waiting lists at most are needed by one
call, hence `CanGetWaitingLists`.

`PthreadSync` starts with one of `Programs`, sets of kinds of objects: the
state spaces of the programs add up, and the pair shows that objects which share the
counter of waiting lists and the threads do not disturb each other.

Symmetry: pointers to ObjectStates, the states that forks make, and the stores of `root_causes` (equal hashes),
in no run with a liveness property (`Isolation` and the action properties are safety
properties). Thread ids are ordered by the scheduler and not symmetric.

Fairness. `FairSpec` of `PthreadSync` says that the executor goes on stepping a state that has
not ended, and that the thread it steps comes again and again to a call that yields,
sleeps or wakes. The first is the executor's loop, which stops for nothing else. The
second is a duty of the program: the scheduler is cooperative, and a thread that only
closes and duplicates descriptors keeps the processor. Nothing is assumed about which
thread runs; it is the round-robin `NextThread` that must bring each one to run. It is
written without ENABLED, which would cost TLC most of its time. `NvmTransaction` has weak
fairness of `Library`, the steps inside a library call and the recovery: a call that was begun
goes on unless a crash comes, and crashes are bounded, while the client need never make
another call. `NvmLocks` has weak fairness of the steps of every thread and of
`nvm_recover`: threads are those of the operating system, each goes on while it can, and
a transaction that has its locks ends. The other modules need none.

Deadlock is not checked where a behaviour may end: a state exits, hangs or is
terminated, the bounds are reached.

## 4. Proofs

All proofs are for arbitrary constants under the named assumptions of the modules.

- `RootCauseManagerProofs`: `ManagerIsConsistent` and `ManagerReportsAreStable`.
  The invariant `ManagerOK` (`RootCauseLemmas`) says that the two maps are inverse,
  masked sets flat, acyclic and the converse of the masking sets, and bugs those
  that occurred, closed under masking. Flatness alone is not inductive: a new
  location's set is the union of the sets of what it overwrites, so acyclicity and
  freshness of the id are needed with it. Assumed: hashes are not 0
  (`HashAssumption`); they may collide.
- `PersistentStateProofs`: `PersistenceTracking`. The invariant `IInv`
  (`PersistentStateProofs!IInv`) relates, for each object, the dirty bits, the pending
  bits, the root causes and the recorded flushes, in the worlds of the path and
  outside, to the history of last writers; the checked properties follow from it.
  It includes `ManagerOK`, as causes are ids of the manager, and uses that the
  manager only grows. Objects, lines, worlds, sites and list lengths are arbitrary.
- `AddressSpaceProofs`: `CopyOnWrite` (owners are at most the key, an owned
  ObjectState is bound nowhere else, every PersistentState is in
  `persistentObjects`), also with symbolic flushes; and `StatesAreIsolated`, the
  refinement `Spec => Isolation`, without them. With them it is false: that is
  `flush_shared`. The invariant is the conjunction in `AddressSpaceProofs!IInv`;
  `OwnedIsPrivate` needs `OwnerAtMostKey`, because a fork raises the key of both
  sides above every owner. `SharedIsNeverWritten` is the action property
  `NeverWriteShared`, again without symbolic flushes: a step of one state changes no
  other state's bindings and no memory that another state sees.
- `PersistentStateProofs` also has `ReportsAreHonest`: for any number of objects, a fence
  is counted as unnecessary only if no line of any object waits for one, and a store
  becomes a bug only in a step before which a line was unpersisted. It needs, beyond
  `IInv`, that what a write masks is a write.
  From these two follow, one by one, `ExitFindsEveryLoss`, `CleanFlushesAreClean` and
  `LossesAreReal`; in the same way `FencesReachAll` follows from `CopyOnWrite`.
- `PmemModelProofs`: `TracksPersistency`, the refinement `Spec => ImplementsPmemModel`. For
  each operation of a PersistentState a lemma says what becomes of the status of the lines
  (`StatusOf`) in every world, and each step of the executor maps to a step of `PmemModel` or a stutter.
- `CustomCheckersProofs`: `CheckersNeverDrift`, for any states and any interleaving of
  their calls; `AddedTwiceIsExact` and `BareStoresAreFound`, for any ranges and inputs as
  long as one state runs and its transactions do not nest. The invariant adds to them that
  the checkers then know exactly the transaction of that one state. The central lemma is
  that the comparison of ends in `overlaps` finds a common byte if there is one; it needs
  that no range is empty (`CheckersAssumption`).
- `NvmFlushCacheProofs`: `PersistMakesDurable` and `FlushesAreKept`, for every even size of
  the table and any number of lines. The invariant says of each line that was asked
  for that it is noted in the table, sent, ahead in the loop under way, or
  durable, and of the loop of `nvm_persist` that the slots behind it are empty.
  `NvmMemory` takes the result for granted.
- `SolverProofs`: `ChainIsRight`, for any arrays, values, expressions, queries and
  options. The invariant says that every entry of the caches is true of its key, and of
  the initial values under way that they satisfy the factors done; `CachesStayTrue` is
  its first part. The central lemmas are
  that a validity depends on the required constraints only, because the others share no
  element with them and can be satisfied, and that solutions of two factors can be
  joined. Assumed are: an expression depends on what it reads, reads something, and is
  negated by `Neg` (`ExprAssumption`, `NegAssumption`, `ReadsAssumption`).

Only model-checked: `StatsAgree` (sums over sets), all
properties of the thread modules, of the pipe, of NVM transactions and
locks, and `AlgorithmsAreExact` (recursive operators). Liveness is out of the prover's
reach and stays with TLC.

## 5. What is left out

- Within the modelled parts: `ignoreBytes`, solver timeouts and failures, wrap
  around of 64-bit ids and of `cowKey`, injected faults of the runtime (off by
  default), `pthread_once`, attributes other than recursive and joinable, the process
  that owns a semaphore and the limit of its value, a barrier for 0 threads, more
  than one object of a kind at a time (they share nothing but the scheduler). Programs are assumed to keep the
  rules that POSIX makes their duty: they use a semaphore after `sem_init`, unlock a
  read-write lock that they have, destroy what nobody uses, join or detach a thread once, wait on a condition variable with the mutex locked once.
- In `PersistentState` and `AddressSpace` a query is answered by the worlds of the path:
  the solver is taken as right there, which is what `IndependentSolver` is about.
- In the solver chain: path conditions are sets, where `CachingSolver` compares them as
  sequences, so that the model hits its cache more often; constants are answered before the chain;
  the validating, logging and fast solvers are options and left out.
- In the pipe: `O_NONBLOCK` (a call that would sleep returns and changes nothing), several
  iovecs, symbolic sizes, descriptors of anything else. The program has one pipe at a time.
- In NVM Direct: transactions over several regions, the growth and configuration of the transaction
  table, arrays of mutexes, upgrades of types. Where the code picks a free slot or a
  victim by a hash or a clock, the model has what the code computes or any choice.
- Parts not modelled are listed in `PROJECT.json` with the reason. Most of the repository is
  of three kinds: sequential library code over bytes (files, symbols, argument
  parsing), transliterations of an external definition (LLVM instructions,
  expression rewriting, the C code of other evaluated programs) and reporting (statistics,
  logging, tools). A model of those would repeat the code and have no property that is
  not its own text. The search heuristics order the states and have no influence on what is
  reported of one.

## 6. What could come next

1. `Sockets`: connection set-up over two stream buffers, which `PosixPipe` already has.
2. The heap of NVM Direct as a client of `NvmTransaction`, with several slots.
3. Proofs: mutual exclusion of `PthreadMutex`, conservation of semaphore units,
   and `OwnersExact` of `NvmLocks`.

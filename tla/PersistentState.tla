--------------------------- MODULE PersistentState ---------------------------
(***************************************************************************)
(* How one execution state tracks which cache lines of its persistent      *)
(* objects are durable: PersistentState (lib/Core/Memory.{h,cpp}) and the  *)
(* store, flush, fence and check operations of Executor.cpp that drive it. *)
(*                                                                         *)
(* An offset into an object may be symbolic.  A world is one assignment of *)
(* the symbolic inputs; worlds is the set of those the path constraints    *)
(* still allow.  An element of Indices is a cache-line index expression    *)
(* and LineOf(x, w) the line it denotes in world w.  The solver's          *)
(* mustBeTrue and mayBeTrue are \A and \E over worlds.                     *)
(*                                                                         *)
(* An UpdateList is kept as what the code observes of it: the value a      *)
(* ReadExpr over it has in each world and line (the last update that hits  *)
(* the line, or the initial value), its head and its size.                 *)
(***************************************************************************)
EXTENDS RootCause, Sequences

CONSTANTS Objects,       \* memory objects that may be marked persistent
          Lines,         \* cache lines of an object
          Worlds,        \* assignments of the symbolic inputs
          Indices,       \* cache-line index expressions
          LineOf(_, _),  \* the line an index expression denotes in a world
          Spans,         \* the index expressions a store's bytes touch
          Sites,         \* program locations of stores, flushes and fences
          NoSite,        \* no store yet
          StoreKinds,    \* the stores a program makes: nontemporal or not
          MaxUpdates,    \* bound on the length of an update list
          MaxOccurences  \* bound on the bugs counted

ASSUME LineAssumption ==
  \A x \in Indices, w \in Worlds : LineOf(x, w) \in Lines

ASSUME FiniteAssumption == IsFiniteSet(Objects)

ASSUME SpanAssumption ==
  Spans \subseteq {<<x>> : x \in Indices} \cup {<<x, y>> : x, y \in Indices}

ASSUME SiteAssumption ==
  /\ Sites \subseteq Insts
  /\ Objects \subseteq AllocSites
  /\ NoAlloc \notin Objects
  /\ NoSite \notin Sites
  /\ StoreKinds \subseteq BOOLEAN

ASSUME BoundAssumption == MaxUpdates \in Nat /\ MaxOccurences \in Nat

Persisted == "persisted"
Dirty == "dirty"

VARIABLES worlds,            \* the worlds the path constraints allow
          persistentObjects, \* ExecutionState::persistentObjects
          ps,                \* the PersistentState of each object
          mgr,               \* the RootCauseManager
          phase,             \* running, exited, or stopped without an exit
          lastWriter         \* history: site of the last store to each line

vars == <<worlds, persistentObjects, ps, mgr, phase, lastWriter>>

running == phase = "running"

-----------------------------------------------------------------------------
(* Update lists.                                                           *)

EmptyList(init) ==
  [val |-> [w \in Worlds |-> [l \in Lines |-> init]], head |-> << >>, size |-> 0]

Extend(ul, x, v) ==
  [val  |-> [w \in Worlds |-> [l \in Lines |->
               IF l = LineOf(x, w) THEN v ELSE ul.val[w][l]]],
   head |-> <<x, v>>,
   size |-> ul.size + 1]

IsUpdateListHeadEqualTo(ul, x, v) == ul.head = <<x, v>>

\* The ids a root-cause list may hold at index x, null left out.
GetRootCause(ul, W, x) == {ul.val[w][LineOf(x, w)] : w \in W} \ {Null}

-----------------------------------------------------------------------------
(* PersistentState.                                                        *)

NewPersistentState ==
  [cacheLineUpdates        |-> EmptyList(Persisted),
   pendingCacheLineUpdates |-> EmptyList(Persisted),
   rootCauseWrites         |-> EmptyList(Null),
   pendingRootCauseWrites  |-> EmptyList(Null),
   rootCauseFlushes        |-> EmptyList(Null),
   pendingRootCauseFlushes |-> EmptyList(Null)]

Loc(o, site, reason) == [alloc |-> o, inst |-> site, reason |-> reason]

\* Faults: a store is not seen before the next fence; a coalesced store leaves
\* the root causes alone as well.
DirtyCacheLineLate(p, m, W, o, x, site) ==
  LET rc == GetRootCauseLocationID(m, Loc(o, site, "PM_Unpersisted"),
                                   GetRootCause(p.pendingRootCauseWrites, W, x))
  IN  [p |-> [p EXCEPT
                !.pendingCacheLineUpdates = Extend(@, x, Dirty),
                !.rootCauseWrites = Extend(@, x, rc.id),
                !.pendingRootCauseWrites = Extend(@, x, rc.id)],
       m |-> rc.mgr]

DirtyCacheLineCoalesced(p, m, W, o, x, site) ==
  LET rc == GetRootCauseLocationID(m, Loc(o, site, "PM_Unpersisted"),
                                   GetRootCause(p.pendingRootCauseWrites, W, x))
  IN  IF IsUpdateListHeadEqualTo(p.pendingCacheLineUpdates, x, Dirty)
      THEN [p |-> p, m |-> rc.mgr]
      ELSE [p |-> [p EXCEPT
                     !.cacheLineUpdates = Extend(@, x, Dirty),
                     !.pendingCacheLineUpdates = Extend(@, x, Dirty),
                     !.rootCauseWrites = Extend(@, x, rc.id),
                     !.pendingRootCauseWrites = Extend(@, x, rc.id)],
            m |-> rc.mgr]

\* An operation on one object returns its PersistentState and the manager.
DirtyCacheLine(p, m, W, o, x, site) ==
  LET prevWrites == GetRootCause(p.pendingRootCauseWrites, W, x)
      rc == GetRootCauseLocationID(m, Loc(o, site, "PM_Unpersisted"), prevWrites)
      known == IsUpdateListHeadEqualTo(p.pendingCacheLineUpdates, x, Dirty)
      Add(ul) == IF known THEN ul ELSE Extend(ul, x, Dirty)
  IN  [p |-> [p EXCEPT
                !.cacheLineUpdates = Add(@),
                !.pendingCacheLineUpdates = Add(@),
                !.rootCauseWrites = Extend(@, x, rc.id),
                !.pendingRootCauseWrites = Extend(@, x, rc.id)],
       m |-> rc.mgr]

PersistCacheLine(p, m, o, x, site) ==
  LET rc == GetRootCauseLocationID(m, Loc(o, site, "PM_UnnecessaryFlush"), {})
  IN  [p |-> [p EXCEPT
                !.pendingCacheLineUpdates = Extend(@, x, Persisted),
                !.rootCauseFlushes = Extend(@, x, rc.id),
                !.pendingRootCauseFlushes = Extend(@, x, rc.id),
                !.pendingRootCauseWrites = Extend(@, x, Null)],
       m |-> rc.mgr]

CommitPendingPersists(p) ==
  [p EXCEPT !.cacheLineUpdates = p.pendingCacheLineUpdates,
            !.rootCauseWrites = p.pendingRootCauseWrites,
            !.pendingRootCauseFlushes = EmptyList(Null)]

\* Fault: the comparison is the wrong way round.
CommitNecessaryBackwards(p) == p.cacheLineUpdates.size > p.pendingCacheLineUpdates.size

CommitNecessary(p) == p.cacheLineUpdates.size # p.pendingCacheLineUpdates.size

IsCacheLinePersisted(ul, w, l) == ul.val[w][l] = Persisted

MustBePersisted(ul, W, x) ==
  \A w \in W : IsCacheLinePersisted(ul, w, LineOf(x, w))

\* Fault: a line that is only waiting for its fence is passed over.
GetRootCausesPending(p, W) ==
  LET unpersisted == {l \in Lines : \E w \in W :
                        ~IsCacheLinePersisted(p.pendingCacheLineUpdates, w, l)}
  IN  {p.rootCauseWrites.val[w][l] : w \in W, l \in unpersisted} \ {Null}

\* The causes of every line that is not persisted in all worlds.
GetRootCauses(p, W) ==
  LET unpersisted == {l \in Lines : \E w \in W :
                        ~IsCacheLinePersisted(p.cacheLineUpdates, w, l)}
  IN  {p.rootCauseWrites.val[w][l] : w \in W, l \in unpersisted} \ {Null}

\* Some offset of the object may be unpersisted.
HasUnpersisted(p, W) ==
  \E w \in W, l \in Lines : ~IsCacheLinePersisted(p.cacheLineUpdates, w, l)

\* markPersistenceErrors for each object of objs, in any order.
MarkPersistenceErrors(m, objs) ==
  LET bad == {o \in objs : HasUnpersisted(ps[o], worlds)}
  IN  MarkAsBugs(m, UNION {{o} \X GetRootCauses(ps[o], worlds) : o \in bad})

\* Fault: the redundant flush is filed as a lost write.
MarkFlushAsBugUnpersisted(p, m, W, o, x, site) ==
  LET rc == GetRootCauseLocationID(m, Loc(o, site, "PM_Unpersisted"), {})
  IN  MarkAsBugs(rc.mgr, {<<o, rc.id>>})

MarkFlushAsBug(p, m, W, o, x, site) ==
  LET reason == IF GetRootCause(p.rootCauseFlushes, W, x) = {}
                THEN "PM_FlushOnUnmodified" ELSE "PM_UnnecessaryFlush"
      rc == GetRootCauseLocationID(m, Loc(o, site, reason), {})
  IN  MarkAsBugs(rc.mgr, {<<o, rc.id>>})

-----------------------------------------------------------------------------
(* The operations of Executor on one persistent object.  Each returns the  *)
(* PersistentState and the manager.                                        *)

\* executeMemoryOperation, isWrite: every byte dirties its line; a nontemporal
\* store then persists the line of its first byte.
StoreOp(o, span, site, nontemporal) ==
  LET d1 == DirtyCacheLine(ps[o], mgr, worlds, o, span[1], site)
      d2 == IF Len(span) = 1 THEN d1
            ELSE DirtyCacheLine(d1.p, d1.m, worlds, o, span[2], site)
  IN  IF nontemporal THEN PersistCacheLine(d2.p, d2.m, o, span[1], site) ELSE d2

\* Fault: a flush that leaves no record of itself.
FlushOpUnrecorded(o, x, site) ==
  LET r == PersistCacheLine(ps[o], mgr, o, x, site)
  IN  [r EXCEPT !.p.rootCauseFlushes = ps[o].rootCauseFlushes]

\* executePersistentMemoryFlush
FlushOp(o, x, site) ==
  IF MustBePersisted(ps[o].pendingCacheLineUpdates, worlds, x)
  THEN [p |-> ps[o], m |-> MarkFlushAsBug(ps[o], mgr, worlds, o, x, site)]
  ELSE PersistCacheLine(ps[o], mgr, o, x, site)

\* executePersistentMemoryFence over the object states p and the manager m
FenceMgr(p, m, site) ==
  IF \E o \in persistentObjects : CommitNecessary(p[o])
  THEN m
  ELSE LET rc == GetRootCauseLocationID(m, Loc(NoAlloc, site, "PM_UnnecessaryFence"), {})
       IN  MarkAsBugs(rc.mgr, {<<NoAlloc, rc.id>>})

CommitAll(p) ==
  [o \in Objects |-> IF o \in persistentObjects THEN CommitPendingPersists(p[o])
                     ELSE p[o]]

-----------------------------------------------------------------------------
(* Actions.                                                                *)

NeverWritten == [w \in Worlds |-> [l \in Lines |-> NoSite]]

Init ==
  /\ worlds = Worlds
  /\ persistentObjects = {}
  /\ ps = [o \in Objects |-> NewPersistentState]
  /\ mgr = NewManager
  /\ phase = "running"
  /\ lastWriter = [o \in Objects |-> NeverWritten]

\* The bounds: lists of at most MaxUpdates updates, MaxOccurences bugs counted.
Room(o) == ps[o].pendingRootCauseWrites.size < MaxUpdates
Countable == mgr.totalOccurences < MaxOccurences

\* executeMarkPersistent binds a new PersistentState, to a persistent object too.
MarkPersistent(o) ==
  /\ running
  /\ persistentObjects' = persistentObjects \cup {o}
  /\ ps' = [ps EXCEPT ![o] = NewPersistentState]
  /\ lastWriter' = [lastWriter EXCEPT ![o] = NeverWritten]
  /\ UNCHANGED <<worlds, mgr, phase>>

Store(o, span, site, nontemporal) ==
  /\ running
  /\ o \in persistentObjects
  /\ Room(o)
  /\ LET r == StoreOp(o, span, site, nontemporal)
     IN  /\ ps' = [ps EXCEPT ![o] = r.p]
         /\ mgr' = r.m
  /\ lastWriter' = [lastWriter EXCEPT ![o] = [w \in Worlds |-> [l \in Lines |->
                      IF \E i \in DOMAIN span : LineOf(span[i], w) = l
                      THEN site ELSE @[w][l]]]]
  /\ UNCHANGED <<worlds, persistentObjects, phase>>

\* clwb and clflushopt
Flush(o, x, site) ==
  /\ running
  /\ o \in persistentObjects
  /\ Room(o)
  /\ Countable
  /\ LET r == FlushOp(o, x, site)
     IN  /\ ps' = [ps EXCEPT ![o] = r.p]
         /\ mgr' = r.m
  /\ UNCHANGED <<worlds, persistentObjects, phase, lastWriter>>

\* sfence and mfence
Fence(site) ==
  /\ running
  /\ Countable
  /\ ps' = CommitAll(ps)
  /\ mgr' = FenceMgr(ps, mgr, site)
  /\ UNCHANGED <<worlds, persistentObjects, phase, lastWriter>>

\* clflush: a flush and a fence in one instruction
Clflush(o, x, site) ==
  /\ running
  /\ o \in persistentObjects
  /\ Room(o)
  /\ Countable
  /\ LET r == FlushOp(o, x, site)
         flushed == [ps EXCEPT ![o] = r.p]
     IN  /\ ps' = CommitAll(flushed)
         /\ mgr' = FenceMgr(flushed, r.m, site)
  /\ UNCHANGED <<worlds, persistentObjects, phase, lastWriter>>

\* klee_pmem_check_persisted on one object
CheckPersisted(o) ==
  /\ running
  /\ o \in persistentObjects
  /\ Countable
  /\ mgr' = MarkPersistenceErrors(mgr, {o})
  /\ UNCHANGED <<worlds, persistentObjects, ps, phase, lastWriter>>

\* The check of all objects at a thread's exit, after which the path goes on.
ThreadExitCheck ==
  /\ running
  /\ Countable
  /\ mgr' = MarkPersistenceErrors(mgr, persistentObjects)
  /\ UNCHANGED <<worlds, persistentObjects, ps, phase, lastWriter>>

\* terminateStateOnExit: the same check, and the path ends.
Exit ==
  /\ running
  /\ mgr' = MarkPersistenceErrors(mgr, persistentObjects)
  /\ phase' = "exited"
  /\ UNCHANGED <<worlds, persistentObjects, ps, lastWriter>>

\* haltExecution, or an error of another kind, ends the path before its objects
\* have been checked; the check of some of them may be over.
Stop ==
  /\ running
  /\ \E done \in SUBSET persistentObjects : mgr' = MarkPersistenceErrors(mgr, done)
  /\ phase' = "stopped"
  /\ UNCHANGED <<worlds, persistentObjects, ps, lastWriter>>

Forget(o) ==
  /\ persistentObjects' = persistentObjects \ {o}
  /\ ps' = [ps EXCEPT ![o] = NewPersistentState]
  /\ lastWriter' = [lastWriter EXCEPT ![o] = NeverWritten]

\* popFrame on a persistent alloca: checked, then unbound.  ~ExecutionState pops
\* the frames that are left, so this also happens after the end of the path.
PopFrame(o) ==
  /\ o \in persistentObjects
  /\ Countable
  /\ mgr' = MarkPersistenceErrors(mgr, {o})
  /\ Forget(o)
  /\ UNCHANGED <<worlds, phase>>

\* klee_undefine_fixed_object: unbound without a check.
UndefineFixedObject(o) ==
  /\ running
  /\ o \in persistentObjects
  /\ Forget(o)
  /\ UNCHANGED <<worlds, mgr, phase>>

\* A branch on symbolic data: this path keeps some of its worlds.
Branch ==
  /\ running
  /\ \E W \in SUBSET worlds : W # {} /\ W # worlds /\ worlds' = W
  /\ UNCHANGED <<persistentObjects, ps, mgr, phase, lastWriter>>

Next ==
  \/ \E o \in Objects : MarkPersistent(o)
  \/ \E o \in Objects, span \in Spans, site \in Sites, nontemporal \in StoreKinds :
        Store(o, span, site, nontemporal)
  \/ \E o \in Objects, x \in Indices, site \in Sites : Flush(o, x, site)
  \/ \E o \in Objects, x \in Indices, site \in Sites : Clflush(o, x, site)
  \/ \E site \in Sites : Fence(site)
  \/ \E o \in Objects : CheckPersisted(o)
  \/ ThreadExitCheck
  \/ Exit
  \/ Stop
  \/ \E o \in Objects : PopFrame(o)
  \/ \E o \in Objects : UndefineFixedObject(o)
  \/ Branch

Spec == Init /\ [][Next]_vars

-----------------------------------------------------------------------------
(* Properties.                                                             *)

UpdateListOf(V) ==
  [val  : [Worlds -> [Lines -> V]],
   head : {<< >>} \cup (Indices \X V),
   size : Nat]

CacheLineList == UpdateListOf({Persisted, Dirty})
RootCauseList == UpdateListOf(Nat)

PersistentStateType ==
  [cacheLineUpdates : CacheLineList, pendingCacheLineUpdates : CacheLineList,
   rootCauseWrites : RootCauseList, pendingRootCauseWrites : RootCauseList,
   rootCauseFlushes : RootCauseList, pendingRootCauseFlushes : RootCauseList]

\* Type correctness of the tracking state of every object.
TypeOK ==
  /\ worlds \subseteq Worlds
  /\ persistentObjects \subseteq Objects
  /\ ps \in [Objects -> PersistentStateType]
  /\ ManagerType(mgr)
  /\ phase \in {"running", "exited", "stopped"}
  /\ lastWriter \in [Objects -> [Worlds -> [Lines -> Sites \cup {NoSite}]]]

\* markNonPersistedWritesAsBugs asserts that an object with an unpersisted line
\* has a root cause to blame: the dirty bits and the root causes are kept in
\* different update lists, with different coalescing, and must not drift apart.
UnpersistedHasCause ==
  \A o \in persistentObjects :
     HasUnpersisted(ps[o], worlds) => GetRootCauses(ps[o], worlds) # {}

\* The cause of an unpersisted line is the last store to that line, in every
\* world, whatever flushes and fences came between (getRootCause reads
\* rootCauseWrites, which commitPendingPersists replaces).
BlamesLastWriter ==
  \A o \in persistentObjects, w \in worlds, l \in Lines :
     ~IsCacheLinePersisted(ps[o].cacheLineUpdates, w, l) =>
        LET id == ps[o].rootCauseWrites.val[w][l]
        IN  /\ id \in UsedIds(mgr)
            /\ mgr.idToRoot[id] = Loc(o, lastWriter[o][w][l], "PM_Unpersisted")

\* terminateStateEarlyPmem: a path that exits has had every line that may be
\* unpersisted reported, its root cause is among the bugs of the manager.
ExitReportsEveryLoss ==
  phase = "exited" =>
     \A o \in persistentObjects, w \in worlds, l \in Lines :
        ~IsCacheLinePersisted(ps[o].cacheLineUpdates, w, l) =>
           ps[o].rootCauseWrites.val[w][l] \in mgr.buggyIds

\* markFlushAsBug: a redundant flush is called "flush (never modified)" only if
\* no store has ever reached the line, although the code decides it from the
\* flushes it has recorded and never looks at the stores.
NeverModifiedIsHonest ==
  \A o \in persistentObjects, w \in worlds, l \in Lines :
     IsCacheLinePersisted(ps[o].pendingCacheLineUpdates, w, l) =>
        (ps[o].rootCauseFlushes.val[w][l] = Null => lastWriter[o][w][l] = NoSite)

\* commitPendingPersists returns true iff the epoch has a flush to commit: it
\* compares the sizes of two lists that stores extend together or not at all.
CommitNecessaryIffFlushed ==
  \A o \in persistentObjects :
     CommitNecessary(ps[o]) <=> ps[o].pendingRootCauseFlushes.size > 0

\* A line waits for a fence: flushed since its last store and not yet committed.
LineWaits ==
  \E o \in persistentObjects, w \in worlds, l \in Lines :
     /\ IsCacheLinePersisted(ps[o].pendingCacheLineUpdates, w, l)
     /\ ~IsCacheLinePersisted(ps[o].cacheLineUpdates, w, l)

\* When the list sizes say that no object has anything to commit, no line waits
\* for a fence, although the sizes do not look at lines and a flush at a symbolic
\* offset persists a line in some worlds only.
UnnecessaryFenceIsHonest ==
  (\A o \in persistentObjects : ~CommitNecessary(ps[o])) => ~LineWaits

\* executePersistentMemoryFence reports a fence as unnecessary only in a step
\* before which no line of any object waited for one.
FenceReportIsHonest ==
  [][ (\E id \in UsedIds(mgr') :
         /\ ReasonOf(mgr', id) = "PM_UnnecessaryFence"
         /\ mgr'.occurences[id] > (IF id \in UsedIds(mgr) THEN mgr.occurences[id] ELSE 0))
      => ~LineWaits ]_vars

\* A step turns a write into a bug only if some line is unpersisted in a world
\* the path allows: no false alarm of the correctness kind.
OnlyLossesAreReported ==
  [][ (\E id \in mgr'.buggyIds \ mgr.buggyIds : ReasonOf(mgr', id) = "PM_Unpersisted")
      => \E o \in persistentObjects : HasUnpersisted(ps[o], worlds) ]_vars

\* The status that PmemModel gives to each line.
LineStatus ==
  [w \in Worlds |-> [o \in Objects |-> [l \in Lines |->
     IF w \notin worlds THEN "infeasible"
     ELSE IF IsCacheLinePersisted(ps[o].cacheLineUpdates, w, l) THEN "clean"
     ELSE IF IsCacheLinePersisted(ps[o].pendingCacheLineUpdates, w, l) THEN "flushed"
     ELSE "dirty"]]]

PM == INSTANCE PmemModel WITH feasible <- worlds, tracked <- persistentObjects,
                              status <- LineStatus

\* The update lists implement the persistency model: in every feasible world a
\* line is reported persisted iff its last store has been flushed and fenced.
ImplementsPmemModel == PM!Spec
=============================================================================

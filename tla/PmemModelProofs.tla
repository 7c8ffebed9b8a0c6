--------------------------- MODULE PmemModelProofs ---------------------------
(***************************************************************************)
(* The update lists of a PersistentState implement the persistency model:  *)
(* what each operation does to the status of the lines in every world, and *)
(* the step of PmemModel that each step of the executor is.                *)
(***************************************************************************)
EXTENDS PersistentStateProofs

\* The status of the lines of an object with PersistentState p in a world.
StatusOf(p, w) ==
  [l \in Lines |-> IF IsCacheLinePersisted(p.cacheLineUpdates, w, l) THEN "clean"
                   ELSE IF IsCacheLinePersisted(p.pendingCacheLineUpdates, w, l) THEN "flushed"
                   ELSE "dirty"]

NoStatus == [l \in Lines |-> "infeasible"]

\* What the lines of an object are, in the worlds of the path and outside.
LEMMA StatusOfObject ==
  /\ \A w \in Worlds, o \in Objects :
       LineStatus[w][o] = IF w \in worlds THEN StatusOf(ps[o], w) ELSE NoStatus
  /\ LineStatus = [w \in Worlds |-> [o \in Objects |-> LineStatus[w][o]]]
BY Zenon DEF LineStatus, StatusOf, NoStatus

\* What the lists say of a line is a status of the persistency model.
LEMMA StatusType ==
  ASSUME NEW p, NEW w
  PROVE  StatusOf(p, w) \in [Lines -> PM!Status] /\ NoStatus \in [Lines -> PM!Status]
BY DEF StatusOf, NoStatus, PM!Status

\* A PersistentState just bound to an object has nothing pending.
LEMMA NewStatus ==
  ASSUME NEW w \in Worlds
  PROVE  StatusOf(NewPersistentState, w) = PM!AllClean
<1>1. \A l \in Lines : IsCacheLinePersisted(EmptyList(Persisted), w, l)
  BY DEF EmptyList, IsCacheLinePersisted
<1> QED
  BY <1>1 DEF StatusOf, NewPersistentState, PM!AllClean

\* From p to q the line of x becomes dirty, or it is flushed.
Dirties(p, q, w, x) ==
  StatusOf(q, w) = PM!Stored(StatusOf(p, w), LineOf(x, w), LineOf(x, w), FALSE)
Flushes(p, q, w, x) == StatusOf(q, w) = PM!Flushed(StatusOf(p, w), LineOf(x, w))

\* dirtyCacheLineAtOffset makes the line dirty, coalesced or not.
LEMMA DirtyStatus ==
  ASSUME NEW m, NEW o, NEW lw, NEW p, ObjectOK(p, m, o, lw), NEW W, NEW x \in Indices,
         NEW site, NEW w \in Worlds
  PROVE  Dirties(p, DirtyCacheLine(p, m, W, o, x, site).p, w, x)
<1> DEFINE cl == p.cacheLineUpdates
           pcl == p.pendingCacheLineUpdates
           known == IsUpdateListHeadEqualTo(pcl, x, Dirty)
           Add(ul) == IF known THEN ul ELSE Extend(ul, x, Dirty)
           q == DirtyCacheLine(p, m, W, o, x, site).p
<1>1. q.cacheLineUpdates = Add(cl) /\ q.pendingCacheLineUpdates = Add(pcl)
  BY DEF DirtyCacheLine, ObjectOK, PersistentStateType
<1>2. cl \in CacheLineList /\ pcl \in CacheLineList
  BY DEF ObjectOK, PersistentStateType
<1> HIDE DEF q
<1>3. \A l \in Lines :
        /\ Add(cl).val[w][l] = IF l = LineOf(x, w) THEN Dirty ELSE cl.val[w][l]
        /\ Add(pcl).val[w][l] = IF l = LineOf(x, w) THEN Dirty ELSE pcl.val[w][l]
  <2>1. CASE known
    <3>1. pcl.val[w][LineOf(x, w)] = Dirty
      BY <2>1 DEF IsUpdateListHeadEqualTo, ObjectOK, HeadOK
    <3>2. cl.val[w][LineOf(x, w)] = Dirty
      BY <1>2, <3>1, LineAssumption
         DEF ObjectOK, LinesOK, CacheLineList, UpdateListOf, Persisted, Dirty
    <3> QED
      BY <2>1, <3>1, <3>2
  <2>2. CASE ~known
    BY <2>2 DEF Extend
  <2> QED
    BY <2>1, <2>2
<1> HIDE DEF cl, pcl, Add
<1>4. \A l \in Lines :
        /\ q.cacheLineUpdates.val[w][l] = IF l = LineOf(x, w) THEN Dirty ELSE cl.val[w][l]
        /\ q.pendingCacheLineUpdates.val[w][l] = IF l = LineOf(x, w) THEN Dirty ELSE pcl.val[w][l]
  BY <1>1, <1>3
<1> QED
  BY <1>4 DEF Dirties, StatusOf, PM!Stored, IsCacheLinePersisted, cl, pcl, q, Persisted, Dirty

\* persistCacheLineAtOffset makes a dirty line wait for the fence.
LEMMA PersistStatus ==
  ASSUME NEW m, NEW o, NEW lw, NEW p, ObjectOK(p, m, o, lw), NEW x \in Indices,
         NEW site, NEW w \in Worlds
  PROVE  Flushes(p, PersistCacheLine(p, m, o, x, site).p, w, x)
<1> DEFINE cl == p.cacheLineUpdates
           pcl == p.pendingCacheLineUpdates
           q == PersistCacheLine(p, m, o, x, site).p
<1>1. q.cacheLineUpdates = cl /\ q.pendingCacheLineUpdates = Extend(pcl, x, Persisted)
  BY DEF PersistCacheLine, ObjectOK, PersistentStateType
<1> HIDE DEF q
<1>2. \A l \in Lines :
        q.pendingCacheLineUpdates.val[w][l] =
          IF l = LineOf(x, w) THEN Persisted ELSE pcl.val[w][l]
  BY <1>1 DEF Extend
<1> QED
  BY <1>1, <1>2 DEF Flushes, StatusOf, PM!Flushed, IsCacheLinePersisted, q

\* commitPendingPersists makes the lines clean that wait for it, and no other.
LEMMA CommitStatus ==
  ASSUME NEW m, NEW o, NEW lw, NEW p, ObjectOK(p, m, o, lw), NEW w \in Worlds
  PROVE  StatusOf(CommitPendingPersists(p), w) = PM!Fenced(StatusOf(p, w))
<1> DEFINE q == CommitPendingPersists(p)
<1>1. /\ q.cacheLineUpdates = p.pendingCacheLineUpdates
      /\ q.pendingCacheLineUpdates = p.pendingCacheLineUpdates
  BY Zenon DEF CommitPendingPersists, ObjectOK, PersistentStateType
<1>2. \A l \in Lines : p.cacheLineUpdates.val[w][l] = Persisted
                         => p.pendingCacheLineUpdates.val[w][l] = Persisted
  BY DEF ObjectOK, LinesOK
<1> HIDE DEF q
<1> QED
  BY <1>1, <1>2 DEF StatusOf, PM!Fenced, IsCacheLinePersisted, q
\* Two stores, and a flush of the first line, make one store of the model.
LEMMA StoresCombine ==
  ASSUME NEW s, NEW a, NEW b
  PROVE  /\ PM!Stored(PM!Stored(s, a, a, FALSE), b, b, FALSE) = PM!Stored(s, a, b, FALSE)
         /\ PM!Flushed(PM!Stored(s, a, b, FALSE), a) = PM!Stored(s, a, b, TRUE)
BY DEF PM!Stored, PM!Flushed

\* A store over one or two lines, nontemporal or not, is a store of the model.
LEMMA StoreStatus ==
  ASSUME IInv, NEW o \in Objects, NEW span \in Spans, NEW site \in Sites,
         NEW nontemporal \in BOOLEAN, NEW w \in Worlds
  PROVE  \E first, last \in Lines :
           StatusOf(StoreOp(o, span, site, nontemporal).p, w) =
             PM!Stored(StatusOf(ps[o], w), first, last, nontemporal)
<1> DEFINE lw == lastWriter[o]
           lw1 == WrittenBy(lw, span[1], site)
           lw2 == WrittenBy(lw1, span[2], site)
           d1 == DirtyCacheLine(ps[o], mgr, worlds, o, span[1], site)
           e == DirtyCacheLine(d1.p, d1.m, worlds, o, span[2], site)
           d2 == IF Len(span) = 1 THEN d1 ELSE e
           d3 == PersistCacheLine(d2.p, d2.m, o, span[1], site)
           s == StatusOf(ps[o], w)
           a == LineOf(span[1], w)
           b == IF Len(span) = 1 THEN a ELSE LineOf(span[2], w)
<1>1. /\ span[1] \in Indices
      /\ Len(span) # 1 => span[2] \in Indices
  BY SpanAssumption
<1>2. a \in Lines /\ b \in Lines
  BY <1>1, LineAssumption
<1>3. /\ worlds \in SUBSET Worlds /\ lw \in WriterMap
      /\ ManagerOK(mgr) /\ ObjectOK(ps[o], mgr, o, lw)
  BY DEF IInv, TypeOK, WriterMap
<1>4. ManagerOK(d1.m) /\ ObjectOK(d1.p, d1.m, o, lw1)
  BY <1>1, <1>3, DirtyOK
<1>5. Dirties(ps[o], d1.p, w, span[1])
  BY <1>1, <1>3, DirtyStatus
<1>6. lw1 \in WriterMap
  BY <1>1, <1>3, WriterMapType
<1> HIDE DEF d1, lw, lw1
<1>12. StatusOf(d1.p, w) = PM!Stored(s, a, a, FALSE)
  BY <1>5, Zenon DEF Dirties
<1> HIDE DEF s, a
<1>7. ASSUME Len(span) # 1
      PROVE  /\ ObjectOK(e.p, e.m, o, lw2)
             /\ StatusOf(e.p, w) = PM!Stored(s, a, b, FALSE)
  <2>1. span[2] \in Indices /\ b = LineOf(span[2], w)
    BY <1>1, <1>7
  <2>2. ObjectOK(e.p, e.m, o, lw2)
    <3>1. Tracks(d1, o, lw1)
      BY <1>4, <1>6, Zenon DEF Tracks
    <3>2. Tracks(e, o, lw2)
      BY <1>3, <2>1, <3>1, DirtyTracks
    <3> QED
      BY <3>2, Zenon DEF Tracks
  <2>3. Dirties(d1.p, e.p, w, span[2])
    BY <1>4, <2>1, DirtyStatus
  <2>4. StatusOf(e.p, w) = PM!Stored(StatusOf(d1.p, w), b, b, FALSE)
    BY <2>1, <2>3, Zenon DEF Dirties
  <2> QED
    BY <1>12, <2>2, <2>4, StoresCombine, Zenon
<1> HIDE DEF e
<1>8. /\ ObjectOK(d2.p, d2.m, o, IF Len(span) = 1 THEN lw1 ELSE lw2)
      /\ StatusOf(d2.p, w) = PM!Stored(s, a, b, FALSE)
  <2>1. CASE Len(span) = 1
    BY <1>4, <1>12, <2>1
  <2>2. CASE Len(span) # 1
    BY <1>7, <2>2
  <2> QED
    BY <2>1, <2>2
<1> HIDE DEF d2, b
<1>9. StatusOf(d3.p, w) = PM!Stored(s, a, b, TRUE)
  <2>1. Flushes(d2.p, d3.p, w, span[1])
    BY <1>1, <1>8, PersistStatus
  <2> QED
    BY <1>8, <2>1, StoresCombine, Zenon DEF Flushes, a
<1>10. StoreOp(o, span, site, nontemporal) = IF nontemporal THEN d3 ELSE d2
  BY Zenon DEF StoreOp, d3, d2, e, d1
<1> HIDE DEF d3
<1>11. StatusOf(StoreOp(o, span, site, nontemporal).p, w) = PM!Stored(s, a, b, nontemporal)
  BY <1>8, <1>9, <1>10
<1> QED
  BY <1>2, <1>11 DEF s

\* A flush, the redundant one that is only reported included, is one of the model.
LEMMA FlushStatus ==
  ASSUME IInv, NEW o \in Objects, NEW x \in Indices, NEW site \in Sites, NEW w \in worlds
  PROVE  StatusOf(FlushOp(o, x, site).p, w) = PM!Flushed(StatusOf(ps[o], w), LineOf(x, w))
<1>1. w \in Worlds /\ LineOf(x, w) \in Lines /\ ObjectOK(ps[o], mgr, o, lastWriter[o])
  BY LineAssumption DEF IInv, TypeOK
<1>2. CASE MustBePersisted(ps[o].pendingCacheLineUpdates, worlds, x)
  <2>1. FlushOp(o, x, site).p = ps[o]
    BY <1>2 DEF FlushOp
  <2>2. IsCacheLinePersisted(ps[o].pendingCacheLineUpdates, w, LineOf(x, w))
    BY <1>2 DEF MustBePersisted
  <2>3. StatusOf(ps[o], w)[LineOf(x, w)] # "dirty"
    BY <1>1, <2>2 DEF StatusOf
  <2>4. StatusOf(ps[o], w) = [l \in Lines |-> StatusOf(ps[o], w)[l]]
    BY Zenon DEF StatusOf
  <2> QED
    BY <2>1, <2>3, <2>4 DEF PM!Flushed
<1>3. CASE ~MustBePersisted(ps[o].pendingCacheLineUpdates, worlds, x)
  <2>1. FlushOp(o, x, site) = PersistCacheLine(ps[o], mgr, o, x, site)
    BY <1>3 DEF FlushOp
  <2>2. Flushes(ps[o], FlushOp(o, x, site).p, w, x)
    BY <1>1, <2>1, PersistStatus
  <2> QED
    BY <2>2, Zenon DEF Flushes
<1> QED
  BY <1>2, <1>3

\* A step that gives one object the PersistentState q changes the status of its lines.
LEMMA ObjectStatus ==
  ASSUME IInv, NEW o \in Objects, NEW q, ps' = [ps EXCEPT ![o] = q], worlds' = worlds
  PROVE  /\ LineStatus' \in [Worlds -> [Objects -> [Lines -> PM!Status]]]
         /\ \A w \in worlds : LineStatus[w][o] = StatusOf(ps[o], w)
         /\ \A w \in worlds : LineStatus'[w][o] = StatusOf(q, w)
         /\ \A w \in worlds : \A other \in Objects \ {o} :
               LineStatus'[w][other] = LineStatus[w][other]
         /\ \A w \in Worlds \ worlds : LineStatus'[w] = LineStatus[w]
<1>1. worlds \subseteq Worlds /\ ps \in [Objects -> PersistentStateType]
  BY DEF IInv, TypeOK
<1>2. \A w \in Worlds, p \in Objects :
        LineStatus'[w][p] = IF w \in worlds THEN StatusOf(ps'[p], w) ELSE NoStatus
  BY Zenon DEF LineStatus, StatusOf, NoStatus
<1>3. LineStatus' = [w \in Worlds |-> [p \in Objects |-> LineStatus'[w][p]]]
  BY Zenon DEF LineStatus
<1>4. ps'[o] = q /\ \A p \in Objects \ {o} : ps'[p] = ps[p]
  BY <1>1
<1> HIDE DEF LineStatus
<1>5. ASSUME NEW w \in Worlds, NEW p \in Objects PROVE LineStatus'[w][p] \in [Lines -> PM!Status]
  <2>1. StatusOf(ps'[p], w) \in [Lines -> PM!Status] /\ NoStatus \in [Lines -> PM!Status]
    BY StatusType, Zenon
  <2>2. LineStatus'[w][p] = IF w \in worlds THEN StatusOf(ps'[p], w) ELSE NoStatus
    BY <1>2, Zenon
  <2>3. CASE w \in worlds
    BY <2>1, <2>2, <2>3, Zenon
  <2>4. CASE w \notin worlds
    BY <2>1, <2>2, <2>4, Zenon
  <2> QED
    BY <2>3, <2>4
<1>6. LineStatus' \in [Worlds -> [Objects -> [Lines -> PM!Status]]]
  BY <1>3, <1>5, Zenon
<1>7. /\ \A w \in worlds : LineStatus[w][o] = StatusOf(ps[o], w)
      /\ \A w \in worlds : LineStatus'[w][o] = StatusOf(q, w)
  BY <1>1, <1>2, <1>4, StatusOfObject, Zenon
<1>8. \A w \in worlds : \A p \in Objects \ {o} : LineStatus'[w][p] = LineStatus[w][p]
  BY <1>1, <1>2, <1>4, StatusOfObject, Zenon
<1>9. ASSUME NEW w \in Worlds \ worlds PROVE LineStatus'[w] = LineStatus[w]
  <2>1. \A p \in Objects : LineStatus'[w][p] = NoStatus /\ LineStatus[w][p] = NoStatus
    BY <1>2, StatusOfObject, Zenon
  <2>2. /\ LineStatus'[w] = [p \in Objects |-> LineStatus'[w][p]]
        /\ LineStatus[w] = [p \in Objects |-> LineStatus[w][p]]
    BY <1>3, StatusOfObject, Zenon
  <2> QED
    BY <2>1, <2>2
<1> QED
  BY <1>6, <1>7, <1>8, <1>9
\* A fence of the objects p commits those that are persistent.
LEMMA FenceStatus ==
  ASSUME NEW p, NEW m, \A a \in Objects : ObjectOK(p[a], m, a, lastWriter[a]),
         ps' = CommitAll(p), worlds' = worlds, NEW w \in Worlds, NEW a \in Objects
  PROVE  LineStatus'[w][a] = IF w \notin worlds THEN NoStatus
                             ELSE IF a \in persistentObjects THEN PM!Fenced(StatusOf(p[a], w))
                             ELSE StatusOf(p[a], w)
<1>1. LineStatus'[w][a] = IF w \in worlds THEN StatusOf(ps'[a], w) ELSE NoStatus
  BY Zenon DEF LineStatus, StatusOf, NoStatus
<1>2. ps'[a] = IF a \in persistentObjects THEN CommitPendingPersists(p[a]) ELSE p[a]
  BY DEF CommitAll
<1>3. StatusOf(CommitPendingPersists(p[a]), w) = PM!Fenced(StatusOf(p[a], w))
  <2>1. ObjectOK(p[a], m, a, lastWriter[a])
    OBVIOUS
  <2> QED
    BY <2>1, CommitStatus
<1> HIDE DEF LineStatus
<1> QED
  BY <1>1, <1>2, <1>3, Zenon

\* A line outside of the path has no status to lose.
LEMMA NoStatusStays ==
  ASSUME NEW l
  PROVE  PM!Fenced(NoStatus) = NoStatus /\ PM!Flushed(NoStatus, l) = NoStatus
BY DEF PM!Fenced, PM!Flushed, NoStatus

\* Each handler is a step of the model, or none.
LEMMA ModelSteps ==
  ASSUME IInv, NEW o \in Objects
  PROVE  /\ MarkPersistent(o) => PM!Track(o, persistentObjects \cup {o})
         /\ PopFrame(o) \/ UndefineFixedObject(o) => PM!Track(o, persistentObjects \ {o})
         /\ \A span \in Spans, site \in Sites, nontemporal \in StoreKinds :
              Store(o, span, site, nontemporal) => PM!Store(o, nontemporal)
         /\ \A x \in Indices, site \in Sites : Flush(o, x, site) => PM!Flush(o)
<1>1. ASSUME worlds' = worlds, ps' = [ps EXCEPT ![o] = NewPersistentState]
      PROVE  PM!Track(o, persistentObjects')
  <2>1. \A w \in worlds : StatusOf(NewPersistentState, w) = PM!AllClean
    BY NewStatus DEF IInv, TypeOK
  <2>2. /\ LineStatus' \in [Worlds -> [Objects -> [Lines -> PM!Status]]]
        /\ \A w \in worlds : LineStatus'[w][o] = StatusOf(NewPersistentState, w)
        /\ \A w \in worlds : \A other \in Objects \ {o} :
              LineStatus'[w][other] = LineStatus[w][other]
        /\ \A w \in Worlds \ worlds : LineStatus'[w] = LineStatus[w]
    BY <1>1, ObjectStatus
  <2> HIDE DEF LineStatus
  <2> QED
    BY <1>1, <2>1, <2>2, Zenon DEF PM!Track, PM!OnObject
<1>2. ASSUME MarkPersistent(o) PROVE PM!Track(o, persistentObjects \cup {o})
  <2>1. /\ worlds' = worlds /\ ps' = [ps EXCEPT ![o] = NewPersistentState]
        /\ persistentObjects' = persistentObjects \cup {o}
    BY <1>2 DEF MarkPersistent
  <2>2. PM!Track(o, persistentObjects')
    BY <1>1, <2>1
  <2> QED
    BY <2>1, <2>2, Zenon
<1>3. ASSUME PopFrame(o) \/ UndefineFixedObject(o)
      PROVE  PM!Track(o, persistentObjects \ {o})
  <2>1. /\ worlds' = worlds /\ ps' = [ps EXCEPT ![o] = NewPersistentState]
        /\ persistentObjects' = persistentObjects \ {o}
    BY <1>3 DEF PopFrame, UndefineFixedObject, Forget
  <2>2. PM!Track(o, persistentObjects')
    BY <1>1, <2>1
  <2> QED
    BY <2>1, <2>2, Zenon
<1>4. ASSUME NEW span \in Spans, NEW site \in Sites, NEW nontemporal \in StoreKinds,
             Store(o, span, site, nontemporal)
      PROVE  PM!Store(o, nontemporal)
  <2> DEFINE q == StoreOp(o, span, site, nontemporal).p
  <2>1. /\ o \in persistentObjects /\ ps' = [ps EXCEPT ![o] = q]
        /\ worlds' = worlds /\ persistentObjects' = persistentObjects
    BY <1>4 DEF Store
  <2>2. \A w \in worlds : \E first, last \in Lines :
          StatusOf(q, w) = PM!Stored(StatusOf(ps[o], w), first, last, nontemporal)
    <3>1. nontemporal \in BOOLEAN /\ worlds \subseteq Worlds
      BY SiteAssumption DEF IInv, TypeOK
    <3> QED
      BY <3>1, StoreStatus, Zenon
  <2> HIDE DEF q
  <2>3. /\ LineStatus' \in [Worlds -> [Objects -> [Lines -> PM!Status]]]
        /\ \A w \in worlds : LineStatus[w][o] = StatusOf(ps[o], w)
        /\ \A w \in worlds : LineStatus'[w][o] = StatusOf(q, w)
        /\ \A w \in worlds : \A other \in Objects \ {o} :
              LineStatus'[w][other] = LineStatus[w][other]
        /\ \A w \in Worlds \ worlds : LineStatus'[w] = LineStatus[w]
    BY <2>1, ObjectStatus
  <2> HIDE DEF LineStatus
  <2>4. \A w \in worlds : \E first, last \in Lines :
          LineStatus'[w][o] = PM!Stored(LineStatus[w][o], first, last, nontemporal)
    BY <2>2, <2>3, Zenon
  <2> QED
    BY <2>1, <2>3, <2>4, Zenon DEF PM!Store, PM!OnObject
<1>5. ASSUME NEW x \in Indices, NEW site \in Sites, Flush(o, x, site)
      PROVE  PM!Flush(o)
  <2> DEFINE q == FlushOp(o, x, site).p
  <2>1. /\ o \in persistentObjects /\ ps' = [ps EXCEPT ![o] = q]
        /\ worlds' = worlds /\ persistentObjects' = persistentObjects
    BY <1>5 DEF Flush
  <2>2. \A w \in worlds : /\ StatusOf(q, w) = PM!Flushed(StatusOf(ps[o], w), LineOf(x, w))
                          /\ LineOf(x, w) \in Lines
    BY FlushStatus, LineAssumption DEF IInv, TypeOK
  <2> HIDE DEF q
  <2>3. /\ LineStatus' \in [Worlds -> [Objects -> [Lines -> PM!Status]]]
        /\ \A w \in worlds : LineStatus[w][o] = StatusOf(ps[o], w)
        /\ \A w \in worlds : LineStatus'[w][o] = StatusOf(q, w)
        /\ \A w \in worlds : \A other \in Objects \ {o} :
              LineStatus'[w][other] = LineStatus[w][other]
        /\ \A w \in Worlds \ worlds : LineStatus'[w] = LineStatus[w]
    BY <2>1, ObjectStatus
  <2> HIDE DEF LineStatus
  <2>4. \A w \in worlds : \E line \in Lines :
          LineStatus'[w][o] = PM!Flushed(LineStatus[w][o], line)
    BY <2>2, <2>3, Zenon
  <2> QED
    BY <2>1, <2>3, <2>4, Zenon DEF PM!Flush, PM!OnObject
<1> QED
  BY <1>2, <1>3, <1>4, <1>5
\* The fences, with and without a flush, are fences of the model.
LEMMA ModelFences ==
  ASSUME IInv, NEW site \in Sites
  PROVE  /\ Fence(site) => PM!Fence
         /\ \A o \in Objects, x \in Indices :
              Clflush(o, x, site) => \E line \in [Worlds -> Lines] : PM!FlushAndFence(o, line)
<1>1. /\ \A a \in Objects : ObjectOK(ps[a], mgr, a, lastWriter[a])
      /\ ps \in [Objects -> PersistentStateType]
  BY DEF IInv, TypeOK
<1>2. LineStatus' = [w \in Worlds |-> [a \in Objects |-> LineStatus'[w][a]]]
  BY Zenon DEF LineStatus
<1>3. \A w \in Worlds, a \in Objects :
        LineStatus[w][a] = IF w \in worlds THEN StatusOf(ps[a], w) ELSE NoStatus
  BY StatusOfObject
<1>4. ASSUME Fence(site) PROVE PM!Fence
  <2>1. /\ ps' = CommitAll(ps) /\ worlds' = worlds
        /\ persistentObjects' = persistentObjects
    BY <1>4 DEF Fence
  <2>2. ASSUME NEW w \in Worlds, NEW a \in Objects
        PROVE  LineStatus'[w][a] = IF a \in persistentObjects THEN PM!Fenced(LineStatus[w][a])
                                   ELSE LineStatus[w][a]
    <3>1. LineStatus'[w][a] = IF w \notin worlds THEN NoStatus
                              ELSE IF a \in persistentObjects THEN PM!Fenced(StatusOf(ps[a], w))
                              ELSE StatusOf(ps[a], w)
      BY <1>1, <2>1, FenceStatus
    <3> HIDE DEF LineStatus
    <3> QED
      BY <1>3, <3>1, NoStatusStays, Zenon
  <2> HIDE DEF LineStatus
  <2> QED
    BY <1>2, <2>1, <2>2 DEF PM!Fence
<1>5. ASSUME NEW o \in Objects, NEW x \in Indices, Clflush(o, x, site)
      PROVE  \E line \in [Worlds -> Lines] : PM!FlushAndFence(o, line)
  <2> DEFINE r == FlushOp(o, x, site)
             p == [ps EXCEPT ![o] = r.p]
             line == [w \in Worlds |-> LineOf(x, w)]
  <2>1. /\ ps' = CommitAll(p) /\ worlds' = worlds /\ o \in persistentObjects
        /\ persistentObjects' = persistentObjects
    BY <1>5 DEF Clflush
  <2>2. Grows(mgr, r.m) /\ ObjectOK(r.p, r.m, o, lastWriter[o])
    BY FlushOK
  <2>3. \A w \in worlds : StatusOf(r.p, w) = PM!Flushed(StatusOf(ps[o], w), LineOf(x, w))
    BY FlushStatus
  <2> HIDE DEF r
  <2>4. p[o] = r.p /\ \A a \in Objects \ {o} : p[a] = ps[a]
    BY <1>1
  <2> HIDE DEF p
  <2>5. \A a \in Objects : ObjectOK(p[a], r.m, a, lastWriter[a])
    BY <1>1, <2>2, <2>4, GrowsKeepsObject, Zenon
  <2>6. line \in [Worlds -> Lines] /\ \A w \in Worlds : line[w] = LineOf(x, w)
    BY LineAssumption
  <2> HIDE DEF line
  <2>7. ASSUME NEW w \in Worlds, NEW a \in Objects
        PROVE  LineStatus'[w][a] =
                 IF a \notin persistentObjects THEN LineStatus[w][a]
                 ELSE PM!Fenced(IF a = o THEN PM!Flushed(LineStatus[w][a], line[w])
                                ELSE LineStatus[w][a])
    <3>1. LineStatus'[w][a] = IF w \notin worlds THEN NoStatus
                              ELSE IF a \in persistentObjects THEN PM!Fenced(StatusOf(p[a], w))
                              ELSE StatusOf(p[a], w)
      BY <2>1, <2>5, FenceStatus
    <3> HIDE DEF LineStatus
    <3>2. CASE w \notin worlds
      BY <1>3, <3>1, <3>2, NoStatusStays, Zenon
    <3>3. CASE w \in worlds /\ a = o
      BY <1>3, <2>1, <2>3, <2>4, <2>6, <3>1, <3>3, Zenon
    <3>4. CASE w \in worlds /\ a # o
      BY <1>3, <2>4, <3>1, <3>4
    <3> QED
      BY <3>2, <3>3, <3>4
  <2> HIDE DEF LineStatus
  <2>8. PM!FlushAndFence(o, line)
    BY <1>2, <2>1, <2>7 DEF PM!FlushAndFence
  <2> QED
    BY <2>6, <2>8
<1> QED
  BY <1>4, <1>5

\* A branch excludes worlds and changes nothing else.
LEMMA ModelBranch ==
  ASSUME IInv, Branch
  PROVE  PM!Restrict
<1>1. /\ worlds' \subseteq worlds /\ ps' = ps /\ persistentObjects' = persistentObjects
  BY DEF Branch
<1>2. LineStatus' = [w \in Worlds |-> [o \in Objects |-> [l \in Lines |->
                       IF w \in worlds' THEN LineStatus[w][o][l] ELSE "infeasible"]]]
  BY <1>1 DEF LineStatus
<1> HIDE DEF LineStatus
<1> QED
  BY <1>1, <1>2 DEF PM!Restrict

\* PersistentState implements PmemModel: whatever is stored, flushed and fenced, at
\* concrete and symbolic offsets, and however lines and list heads are coalesced, the two
\* lists of cache lines give each line, in each world of the path, the status that the
\* persistency model gives it.
THEOREM TracksPersistency == Spec => ImplementsPmemModel
<1>1. Init => IInv /\ PM!Init
  <2> SUFFICES ASSUME Init PROVE PM!Init
    BY InitOK
  <2>1. \A w \in Worlds, l \in Lines :
          IsCacheLinePersisted(NewPersistentState.cacheLineUpdates, w, l)
    BY DEF NewPersistentState, EmptyList, IsCacheLinePersisted
  <2>2. worlds = Worlds /\ persistentObjects = {} /\ ps = [o \in Objects |-> NewPersistentState]
    BY DEF Init
  <2> QED
    BY <2>1, <2>2 DEF PM!Init, PM!AllClean, LineStatus
<1>2. IInv /\ [Next]_vars => IInv' /\ [PM!Next]_PM!pmVars
  <2> SUFFICES ASSUME IInv, [Next]_vars PROVE [PM!Next]_PM!pmVars
    BY NextOK
  <2>1. ASSUME UNCHANGED <<worlds, persistentObjects, ps>>
        PROVE  UNCHANGED PM!pmVars
    BY <2>1 DEF PM!pmVars, LineStatus
  <2>2. ASSUME UNCHANGED vars PROVE UNCHANGED PM!pmVars
    BY <2>1, <2>2 DEF vars
  <2>3. ASSUME (\E o \in Objects : CheckPersisted(o)) \/ ThreadExitCheck \/ Exit \/ Stop
        PROVE  UNCHANGED PM!pmVars
    BY <2>1, <2>3 DEF CheckPersisted, ThreadExitCheck, Exit, Stop
  <2>4. ASSUME NEW o \in Objects,
               \/ MarkPersistent(o) \/ PopFrame(o) \/ UndefineFixedObject(o)
               \/ \E span \in Spans, site \in Sites, nontemporal \in StoreKinds :
                    Store(o, span, site, nontemporal)
               \/ \E x \in Indices, site \in Sites : Flush(o, x, site)
        PROVE  PM!Next
    <3>1. StoreKinds \subseteq BOOLEAN
      BY SiteAssumption
    <3> QED
      BY <2>4, <3>1, ModelSteps, Zenon DEF PM!Next
  <2>5. ASSUME NEW site \in Sites, Fence(site) \/ \E o \in Objects, x \in Indices : Clflush(o, x, site)
        PROVE  PM!Next
    BY <2>5, ModelFences, Zenon DEF PM!Next
  <2>6. ASSUME Branch PROVE PM!Next
    BY <2>6, ModelBranch, Zenon DEF PM!Next
  <2> QED
    BY <2>2, <2>3, <2>4, <2>5, <2>6, Zenon DEF Next
<1> QED
  BY <1>1, <1>2, PTL DEF Spec, ImplementsPmemModel, PM!Spec
===============================================================================

------------------------ MODULE PersistentStateProofs ------------------------
(***************************************************************************)
(* The persistence tracking is right for any number of objects, lines,     *)
(* worlds and program locations, and update lists of any length: the       *)
(* inductive invariant, what each operation of a PersistentState does to   *)
(* it, and what it says about the reports.                                 *)
(***************************************************************************)
EXTENDS PersistentState, RootCauseLemmas

(***************************************************************************)
(* The inductive invariant, for one object o with PersistentState p, the   *)
(* manager m and the last writer lw of each line.                          *)
(***************************************************************************)

\* id is the root cause that a store at site to object o has.
Blames(m, id, o, site) ==
  id \in UsedIds(m) /\ m.idToRoot[id] = Loc(o, site, "PM_Unpersisted")

\* The ids of the locations that are stores.
WriteIds(m) == {i \in UsedIds(m) : ReasonOf(m, i) = "PM_Unpersisted"}

\* The root-cause lists of the writes hold ids of stores or null, and the last
\* writer of dirty lines.
CausesOK(p, m, o, lw) ==
  \A w \in Worlds, l \in Lines :
     LET rcw == p.rootCauseWrites.val[w][l]
         prcw == p.pendingRootCauseWrites.val[w][l]
     IN  /\ rcw \in WriteIds(m) \cup {Null}
         /\ prcw \in WriteIds(m) \cup {Null}
         /\ p.cacheLineUpdates.val[w][l] = Dirty => Blames(m, rcw, o, lw[w][l])
         /\ p.pendingCacheLineUpdates.val[w][l] = Dirty => Blames(m, prcw, o, lw[w][l])

\* A line that is persisted is so in the next epoch; one that has been written
\* and is to be persisted has a flush on record.
LinesOK(p, lw) ==
  \A w \in Worlds, l \in Lines :
     LET cl == p.cacheLineUpdates.val[w][l]
         pcl == p.pendingCacheLineUpdates.val[w][l]
     IN  /\ cl = Persisted => pcl = Persisted
         /\ pcl = Persisted /\ p.rootCauseFlushes.val[w][l] = Null => lw[w][l] = NoSite

\* The head that lets a store be coalesced is a store to the same line.
HeadOK(p) ==
  \A x \in Indices :
     p.pendingCacheLineUpdates.head = <<x, Dirty>> =>
        \A w \in Worlds : p.pendingCacheLineUpdates.val[w][LineOf(x, w)] = Dirty

\* The pending list is ahead by the flushes of this epoch, and by nothing else.
EpochOK(p) ==
  /\ p.pendingCacheLineUpdates.size =
       p.cacheLineUpdates.size + p.pendingRootCauseFlushes.size
  /\ p.pendingRootCauseFlushes.size = 0 =>
       \A w \in Worlds, l \in Lines :
          p.pendingCacheLineUpdates.val[w][l] = p.cacheLineUpdates.val[w][l]

ObjectOK(p, m, o, lw) ==
  /\ p \in PersistentStateType
  /\ CausesOK(p, m, o, lw)
  /\ LinesOK(p, lw)
  /\ HeadOK(p)
  /\ EpochOK(p)

WriterMap == [Worlds -> [Lines -> Sites \cup {NoSite}]]

\* The last writers after a store at site to index x.
WrittenBy(lw, x, site) ==
  [w \in Worlds |-> [l \in Lines |-> IF l = LineOf(x, w) THEN site ELSE lw[w][l]]]

IInv ==
  /\ TypeOK
  /\ ManagerOK(mgr)
  /\ \A o \in Objects : ObjectOK(ps[o], mgr, o, lastWriter[o])
  /\ ExitReportsEveryLoss

-----------------------------------------------------------------------------
(* Update lists.                                                           *)

\* The lists that the operations build have the types of the lists they extend.
LEMMA ListTypes ==
  /\ \A x \in Indices : \A v, V : \A ul \in UpdateListOf(V) :
        v \in V =>
          /\ Extend(ul, x, v) \in UpdateListOf(V)
          /\ Extend(ul, x, v).head = <<x, v>>
          /\ Extend(ul, x, v).size = ul.size + 1
          /\ \A w \in Worlds, l \in Lines :
                Extend(ul, x, v).val[w][l] = IF l = LineOf(x, w) THEN v ELSE ul.val[w][l]
  /\ \A v, V : v \in V =>
        /\ EmptyList(v) \in UpdateListOf(V)
        /\ EmptyList(v).head = << >>
        /\ EmptyList(v).size = 0
        /\ \A w \in Worlds, l \in Lines : EmptyList(v).val[w][l] = v
<1>1. ASSUME NEW x \in Indices, NEW v, NEW V, NEW ul \in UpdateListOf(V), v \in V
      PROVE  /\ Extend(ul, x, v) \in UpdateListOf(V)
             /\ Extend(ul, x, v).head = <<x, v>>
             /\ Extend(ul, x, v).size = ul.size + 1
             /\ \A w \in Worlds, l \in Lines :
                   Extend(ul, x, v).val[w][l] = IF l = LineOf(x, w) THEN v ELSE ul.val[w][l]
  BY <1>1 DEF Extend, UpdateListOf
<1>2. ASSUME NEW v, NEW V, v \in V
      PROVE  /\ EmptyList(v) \in UpdateListOf(V)
             /\ EmptyList(v).head = << >>
             /\ EmptyList(v).size = 0
             /\ \A w \in Worlds, l \in Lines : EmptyList(v).val[w][l] = v
  BY <1>2 DEF EmptyList, UpdateListOf
<1>3. QED
  BY <1>1, <1>2, Zenon

-----------------------------------------------------------------------------
(* The operations on one object keep its invariant.                        *)

\* A PersistentState just bound to an object satisfies the invariant.
LEMMA NewOK ==
  ASSUME NEW m, NEW o
  PROVE  ObjectOK(NewPersistentState, m, o, NeverWritten)
<1> DEFINE p == NewPersistentState
<1>1. /\ EmptyList(Persisted) \in CacheLineList
      /\ EmptyList(Null) \in RootCauseList
      /\ EmptyList(Persisted).head = << >>
      /\ EmptyList(Persisted).size = 0 /\ EmptyList(Null).size = 0
      /\ \A w \in Worlds, l \in Lines : /\ EmptyList(Persisted).val[w][l] = Persisted
                                        /\ EmptyList(Null).val[w][l] = Null
  BY ListTypes, Zenon DEF CacheLineList, RootCauseList, Null
<1>2. p \in PersistentStateType
  BY <1>1 DEF PersistentStateType, NewPersistentState
<1>3. CausesOK(p, m, o, NeverWritten)
  BY <1>1 DEF CausesOK, NewPersistentState, Persisted, Dirty
<1>4. LinesOK(p, NeverWritten) /\ HeadOK(p) /\ EpochOK(p)
  BY <1>1 DEF LinesOK, HeadOK, EpochOK, NewPersistentState, NeverWritten
<1>5. QED
  BY <1>2, <1>3, <1>4 DEF ObjectOK

\* A manager knows what it knows.
LEMMA GrowsSelf ==
  ASSUME NEW m, ManagerType(m)
  PROVE  Grows(m, m)
<1>1. \A i \in UsedIds(m) : m.occurences[i] \in Nat
  BY DEF ManagerType
<1>2. QED
  BY <1>1 DEF Grows

\* A manager that knows more does not disturb an object.
LEMMA GrowsKeepsObject ==
  ASSUME NEW m, NEW n, Grows(m, n), NEW p, NEW o, NEW lw, ObjectOK(p, m, o, lw)
  PROVE  ObjectOK(p, n, o, lw)
<1>1. WriteIds(m) \subseteq WriteIds(n)
  BY DEF Grows, WriteIds, ReasonOf
<1>2. QED
  BY <1>1 DEF ObjectOK, Grows, CausesOK, Blames

\* dirtyCacheLineAtOffset keeps the invariant, the writer of the line being the
\* store, whether or not the update of the line is coalesced with the last one.
LEMMA DirtyOK ==
  ASSUME NEW m, ManagerOK(m), NEW o \in Objects, NEW lw \in WriterMap,
         NEW p, ObjectOK(p, m, o, lw), NEW W \in SUBSET Worlds,
         NEW x \in Indices, NEW site \in Sites
  PROVE  LET r == DirtyCacheLine(p, m, W, o, x, site)
         IN  /\ ManagerOK(r.m)
             /\ Grows(m, r.m)
             /\ r.m.buggyIds = m.buggyIds
             /\ ObjectOK(r.p, r.m, o, WrittenBy(lw, x, site))
<1> DEFINE prev == GetRootCause(p.pendingRootCauseWrites, W, x)
           loc == Loc(o, site, "PM_Unpersisted")
           rc == GetRootCauseLocationID(m, loc, prev)
           n == rc.mgr
           id == rc.id
           known == IsUpdateListHeadEqualTo(p.pendingCacheLineUpdates, x, Dirty)
           Add(ul) == IF known THEN ul ELSE Extend(ul, x, Dirty)
           q == [p EXCEPT !.cacheLineUpdates = Add(@),
                          !.pendingCacheLineUpdates = Add(@),
                          !.rootCauseWrites = Extend(@, x, id),
                          !.pendingRootCauseWrites = Extend(@, x, id)]
<1>1. DirtyCacheLine(p, m, W, o, x, site) = [p |-> q, m |-> n]
  BY DEF DirtyCacheLine
<1>2. loc \in Location
  BY SiteAssumption DEF Loc, Location, Reasons, Correctness
<1>3. prev \in SUBSET UsedIds(m)
  BY LineAssumption DEF GetRootCause, ObjectOK, CausesOK, WriteIds
<1> HIDE DEF loc, prev
<1>4. /\ ManagerOK(n) /\ Grows(m, n) /\ n.buggyIds = m.buggyIds
      /\ id \in UsedIds(n) /\ n.idToRoot[id] = loc
  BY <1>2, <1>3, RegisterOK
<1> HIDE DEF rc, n, id
<1>5. id \in Nat /\ Blames(n, id, o, site) /\ id \in WriteIds(n)
  <2>1. loc.reason = "PM_Unpersisted" /\ loc = Loc(o, site, "PM_Unpersisted")
    BY DEF loc, Loc
  <2>2. id \in Nat
    BY <1>4 DEF ManagerOK, ManagerType
  <2>3. Blames(n, id, o, site)
    BY <1>4, <2>1 DEF Blames
  <2>4. id \in WriteIds(n)
    BY <1>4, <2>1 DEF WriteIds, ReasonOf
  <2> QED
    BY <2>2, <2>3, <2>4
<1> DEFINE cl == p.cacheLineUpdates
           pcl == p.pendingCacheLineUpdates
           rcw == p.rootCauseWrites
           prcw == p.pendingRootCauseWrites
<1>6. /\ cl \in CacheLineList /\ pcl \in CacheLineList
      /\ rcw \in RootCauseList /\ prcw \in RootCauseList
  BY DEF ObjectOK, PersistentStateType
<1>7. q = [p EXCEPT !.cacheLineUpdates = Add(cl), !.pendingCacheLineUpdates = Add(pcl),
                    !.rootCauseWrites = Extend(rcw, x, id),
                    !.pendingRootCauseWrites = Extend(prcw, x, id)]
  BY DEF ObjectOK, PersistentStateType
<1> HIDE DEF q
<1>8. /\ Add(cl) \in CacheLineList /\ Add(pcl) \in CacheLineList
      /\ Extend(rcw, x, id) \in RootCauseList /\ Extend(prcw, x, id) \in RootCauseList
      /\ \A w \in Worlds, l \in Lines :
           /\ Extend(rcw, x, id).val[w][l] = IF l = LineOf(x, w) THEN id ELSE rcw.val[w][l]
           /\ Extend(prcw, x, id).val[w][l] = IF l = LineOf(x, w) THEN id ELSE prcw.val[w][l]
  BY <1>5, <1>6, ListTypes DEF CacheLineList, RootCauseList
<1>9. \A w \in Worlds, l \in Lines :
         /\ Add(cl).val[w][l] = IF l = LineOf(x, w) THEN Dirty ELSE cl.val[w][l]
         /\ Add(pcl).val[w][l] = IF l = LineOf(x, w) THEN Dirty ELSE pcl.val[w][l]
  <2>1. CASE known
    <3>1. pcl.head = <<x, Dirty>>
      BY <2>1 DEF IsUpdateListHeadEqualTo
    <3>2. \A w \in Worlds : pcl.val[w][LineOf(x, w)] = Dirty
      BY <3>1 DEF ObjectOK, HeadOK
    <3>3. \A w \in Worlds : cl.val[w][LineOf(x, w)] = Dirty
      BY <1>6, <3>2, LineAssumption
         DEF ObjectOK, LinesOK, CacheLineList, UpdateListOf, Persisted, Dirty
    <3> QED
      BY <2>1, <3>2, <3>3
  <2>2. CASE ~known
    BY <1>6, <2>2, ListTypes DEF CacheLineList
  <2> QED
    BY <2>1, <2>2
<1>10. /\ pcl.size \in Nat /\ cl.size \in Nat
       /\ \/ Add(pcl).size = pcl.size /\ Add(cl).size = cl.size
          \/ Add(pcl).size = pcl.size + 1 /\ Add(cl).size = cl.size + 1
       /\ Add(pcl).head = <<x, Dirty>>
  <2>1. CASE known
    BY <1>6, <2>1 DEF IsUpdateListHeadEqualTo, CacheLineList, UpdateListOf
  <2>2. CASE ~known
    BY <1>6, <2>2 DEF Extend, CacheLineList, UpdateListOf
  <2> QED
    BY <2>1, <2>2
<1> DEFINE cl2 == Add(cl)
           pcl2 == Add(pcl)
           rcw2 == Extend(rcw, x, id)
           prcw2 == Extend(prcw, x, id)
           lw2 == WrittenBy(lw, x, site)
<1> HIDE DEF known, Add, cl2, pcl2, rcw2, prcw2
<1>11. /\ q \in PersistentStateType
       /\ q.cacheLineUpdates = cl2 /\ q.pendingCacheLineUpdates = pcl2
       /\ q.rootCauseWrites = rcw2 /\ q.pendingRootCauseWrites = prcw2
       /\ q.rootCauseFlushes = p.rootCauseFlushes
       /\ q.pendingRootCauseFlushes = p.pendingRootCauseFlushes
  <2>1. q = [p EXCEPT !.cacheLineUpdates = cl2, !.pendingCacheLineUpdates = pcl2,
                      !.rootCauseWrites = rcw2, !.pendingRootCauseWrites = prcw2]
    BY <1>7, Zenon DEF cl2, pcl2, rcw2, prcw2
  <2>2. /\ cl2 \in CacheLineList /\ pcl2 \in CacheLineList
        /\ rcw2 \in RootCauseList /\ prcw2 \in RootCauseList
    BY <1>8, Zenon DEF cl2, pcl2, rcw2, prcw2
  <2> QED
    BY <2>1, <2>2, Zenon DEF ObjectOK, PersistentStateType
<1>12. \A w \in Worlds, l \in Lines :
         lw2[w][l] = IF l = LineOf(x, w) THEN site ELSE lw[w][l]
  BY DEF WrittenBy
<1> HIDE DEF lw2
<1>13. CausesOK(q, n, o, lw2)
  <2> SUFFICES ASSUME NEW w \in Worlds, NEW l \in Lines
               PROVE  /\ rcw2.val[w][l] \in WriteIds(n) \cup {Null}
                      /\ prcw2.val[w][l] \in WriteIds(n) \cup {Null}
                      /\ cl2.val[w][l] = Dirty => Blames(n, rcw2.val[w][l], o, lw2[w][l])
                      /\ pcl2.val[w][l] = Dirty => Blames(n, prcw2.val[w][l], o, lw2[w][l])
    BY <1>11 DEF CausesOK
  <2>1. CASE l = LineOf(x, w)
    <3>1. rcw2.val[w][l] = id /\ prcw2.val[w][l] = id
      BY <1>8, <2>1 DEF rcw2, prcw2
    <3>2. lw2[w][l] = site
      BY <1>12, <2>1
    <3> QED
      BY <1>4, <1>5, <3>1, <3>2
  <2>2. CASE l # LineOf(x, w)
    <3>1. /\ rcw2.val[w][l] = rcw.val[w][l] /\ prcw2.val[w][l] = prcw.val[w][l]
          /\ cl2.val[w][l] = cl.val[w][l] /\ pcl2.val[w][l] = pcl.val[w][l]
          /\ lw2[w][l] = lw[w][l]
      BY <1>8, <1>9, <1>12, <2>2 DEF rcw2, prcw2, cl2, pcl2
    <3>2. /\ rcw.val[w][l] \in WriteIds(m) \cup {Null}
          /\ prcw.val[w][l] \in WriteIds(m) \cup {Null}
          /\ cl.val[w][l] = Dirty => Blames(m, rcw.val[w][l], o, lw[w][l])
          /\ pcl.val[w][l] = Dirty => Blames(m, prcw.val[w][l], o, lw[w][l])
      BY DEF ObjectOK, CausesOK
    <3>3. /\ WriteIds(m) \subseteq WriteIds(n)
          /\ \A i : Blames(m, i, o, lw[w][l]) => Blames(n, i, o, lw[w][l])
      BY <1>4 DEF Grows, Blames, WriteIds, ReasonOf
    <3> QED
      BY <3>1, <3>2, <3>3
  <2> QED
    BY <2>1, <2>2
<1>14. LinesOK(q, lw2)
  BY <1>9, <1>11, <1>12 DEF ObjectOK, LinesOK, cl2, pcl2, Dirty, Persisted
<1>15. HeadOK(q)
  BY <1>9, <1>10, <1>11, LineAssumption DEF HeadOK, pcl2
<1>16. EpochOK(q)
  <2>1. p.pendingRootCauseFlushes.size \in Nat
    BY DEF ObjectOK, PersistentStateType, RootCauseList, UpdateListOf
  <2>2. pcl2.size = cl2.size + p.pendingRootCauseFlushes.size
    BY <1>10, <2>1 DEF ObjectOK, EpochOK, cl2, pcl2
  <2>3. ASSUME p.pendingRootCauseFlushes.size = 0, NEW w \in Worlds, NEW l \in Lines
        PROVE  pcl2.val[w][l] = cl2.val[w][l]
    BY <1>9, <2>3 DEF ObjectOK, EpochOK, cl2, pcl2
  <2> QED
    BY <1>11, <2>2, <2>3 DEF EpochOK
<1>17. QED
  BY <1>1, <1>4, <1>11, <1>13, <1>14, <1>15, <1>16 DEF ObjectOK, lw2

\* The PersistentState and the manager that an operation returns satisfy the invariant.
Tracks(d, o, lw) == ManagerOK(d.m) /\ ObjectOK(d.p, d.m, o, lw) /\ lw \in WriterMap

\* The same for what an operation before it returned.
LEMMA DirtyTracks ==
  ASSUME NEW d, NEW o \in Objects, NEW lw, Tracks(d, o, lw), NEW W \in SUBSET Worlds,
         NEW x \in Indices, NEW site \in Sites
  PROVE  Tracks(DirtyCacheLine(d.p, d.m, W, o, x, site), o, WrittenBy(lw, x, site))
<1>1. ManagerOK(d.m) /\ ObjectOK(d.p, d.m, o, lw) /\ lw \in WriterMap
  BY DEF Tracks
<1>2. WrittenBy(lw, x, site) \in WriterMap
  BY <1>1 DEF WrittenBy, WriterMap
<1> DEFINE e == DirtyCacheLine(d.p, d.m, W, o, x, site)
<1>3. ManagerOK(e.m) /\ ObjectOK(e.p, e.m, o, WrittenBy(lw, x, site))
  BY <1>1, DirtyOK
<1> HIDE DEF e
<1> QED
  BY <1>2, <1>3 DEF Tracks, e

\* persistCacheLineAtOffset keeps the invariant: no line has a new writer.
LEMMA PersistOK ==
  ASSUME NEW m, ManagerOK(m), NEW o \in Objects, NEW lw \in WriterMap,
         NEW p, ObjectOK(p, m, o, lw),
         NEW x \in Indices, NEW site \in Sites
  PROVE  LET r == PersistCacheLine(p, m, o, x, site)
         IN  /\ ManagerOK(r.m)
             /\ Grows(m, r.m)
             /\ r.m.buggyIds = m.buggyIds
             /\ ObjectOK(r.p, r.m, o, lw)
<1> DEFINE loc == Loc(o, site, "PM_UnnecessaryFlush")
           rc == GetRootCauseLocationID(m, loc, {})
           n == rc.mgr
           id == rc.id
           pcl == p.pendingCacheLineUpdates
           rcf == p.rootCauseFlushes
           prcf == p.pendingRootCauseFlushes
           prcw == p.pendingRootCauseWrites
           pcl2 == Extend(pcl, x, Persisted)
           rcf2 == Extend(rcf, x, id)
           prcf2 == Extend(prcf, x, id)
           prcw2 == Extend(prcw, x, Null)
           q == [p EXCEPT !.pendingCacheLineUpdates = pcl2, !.rootCauseFlushes = rcf2,
                          !.pendingRootCauseFlushes = prcf2,
                          !.pendingRootCauseWrites = prcw2]
<1>1. PersistCacheLine(p, m, o, x, site) = [p |-> q, m |-> n]
  BY DEF PersistCacheLine, ObjectOK, PersistentStateType
<1> HIDE DEF q, pcl2, rcf2, prcf2, prcw2
<1>2. loc \in Location /\ {} \in SUBSET UsedIds(m)
  BY SiteAssumption DEF Loc, Location, Reasons, Performance
<1> HIDE DEF loc
<1>3. /\ ManagerOK(n) /\ Grows(m, n) /\ n.buggyIds = m.buggyIds /\ id \in UsedIds(n)
  BY <1>2, RegisterOK
<1>4. id \in Nat \ {Null}
  BY <1>3 DEF ManagerOK, ManagerType
<1> HIDE DEF rc, n, id
<1>5. /\ pcl \in CacheLineList /\ rcf \in RootCauseList
      /\ prcf \in RootCauseList /\ prcw \in RootCauseList
  BY DEF ObjectOK, PersistentStateType
<1>6. /\ pcl2 \in CacheLineList /\ rcf2 \in RootCauseList
      /\ prcf2 \in RootCauseList /\ prcw2 \in RootCauseList
      /\ pcl2.head = <<x, Persisted>>
      /\ pcl2.size = pcl.size + 1 /\ prcf2.size = prcf.size + 1
      /\ \A w \in Worlds, l \in Lines :
           /\ pcl2.val[w][l] = IF l = LineOf(x, w) THEN Persisted ELSE pcl.val[w][l]
           /\ rcf2.val[w][l] = IF l = LineOf(x, w) THEN id ELSE rcf.val[w][l]
           /\ prcw2.val[w][l] = IF l = LineOf(x, w) THEN Null ELSE prcw.val[w][l]
  <2> HIDE DEF pcl, rcf, prcf, prcw
  <2>1. /\ pcl2 \in CacheLineList /\ pcl2.head = <<x, Persisted>> /\ pcl2.size = pcl.size + 1
        /\ \A w \in Worlds, l \in Lines :
             pcl2.val[w][l] = IF l = LineOf(x, w) THEN Persisted ELSE pcl.val[w][l]
    BY <1>5, ListTypes DEF CacheLineList, pcl2
  <2>2. /\ rcf2 \in RootCauseList
        /\ \A w \in Worlds, l \in Lines :
             rcf2.val[w][l] = IF l = LineOf(x, w) THEN id ELSE rcf.val[w][l]
    BY <1>4, <1>5, ListTypes DEF RootCauseList, rcf2
  <2>3. prcf2 \in RootCauseList /\ prcf2.size = prcf.size + 1
    BY <1>4, <1>5, ListTypes DEF RootCauseList, prcf2
  <2>4. /\ prcw2 \in RootCauseList
        /\ \A w \in Worlds, l \in Lines :
             prcw2.val[w][l] = IF l = LineOf(x, w) THEN Null ELSE prcw.val[w][l]
    BY <1>5, ListTypes DEF RootCauseList, Null, prcw2
  <2> QED
    BY <2>1, <2>2, <2>3, <2>4
<1>7. /\ q \in PersistentStateType
      /\ q.cacheLineUpdates = p.cacheLineUpdates /\ q.pendingCacheLineUpdates = pcl2
      /\ q.rootCauseWrites = p.rootCauseWrites /\ q.pendingRootCauseWrites = prcw2
      /\ q.rootCauseFlushes = rcf2 /\ q.pendingRootCauseFlushes = prcf2
  BY <1>6, Zenon DEF ObjectOK, PersistentStateType, q
<1>8. CausesOK(q, n, o, lw)
  <2> SUFFICES ASSUME NEW w \in Worlds, NEW l \in Lines
               PROVE  LET rcw == p.rootCauseWrites.val[w][l]
                          prcw1 == prcw2.val[w][l]
                      IN  /\ rcw \in WriteIds(n) \cup {Null}
                          /\ prcw1 \in WriteIds(n) \cup {Null}
                          /\ p.cacheLineUpdates.val[w][l] = Dirty => Blames(n, rcw, o, lw[w][l])
                          /\ pcl2.val[w][l] = Dirty => Blames(n, prcw1, o, lw[w][l])
    BY <1>7 DEF CausesOK
  <2>1. /\ p.rootCauseWrites.val[w][l] \in WriteIds(m) \cup {Null}
        /\ prcw.val[w][l] \in WriteIds(m) \cup {Null}
        /\ p.cacheLineUpdates.val[w][l] = Dirty
             => Blames(m, p.rootCauseWrites.val[w][l], o, lw[w][l])
        /\ pcl.val[w][l] = Dirty => Blames(m, prcw.val[w][l], o, lw[w][l])
    BY DEF ObjectOK, CausesOK
  <2>2. WriteIds(m) \subseteq WriteIds(n)
    BY <1>3 DEF Grows, WriteIds, ReasonOf
  <2>3. \A i : Blames(m, i, o, lw[w][l]) => Blames(n, i, o, lw[w][l])
    BY <1>3 DEF Grows, Blames
  <2>4. CASE l = LineOf(x, w)
    <3>1. prcw2.val[w][l] = Null /\ pcl2.val[w][l] = Persisted
      BY <1>6, <2>4
    <3> QED
      BY <2>1, <2>2, <2>3, <3>1 DEF Persisted, Dirty
  <2>5. CASE l # LineOf(x, w)
    <3>1. prcw2.val[w][l] = prcw.val[w][l] /\ pcl2.val[w][l] = pcl.val[w][l]
      BY <1>6, <2>5
    <3> QED
      BY <2>1, <2>2, <2>3, <3>1
  <2> QED
    BY <2>4, <2>5
<1>9. LinesOK(q, lw)
  <2>1. LinesOK(p, lw)
    BY DEF ObjectOK
  <2> QED
    BY <1>4, <1>6, <1>7, <2>1 DEF LinesOK
<1>10. HeadOK(q)
  BY <1>6, <1>7 DEF HeadOK, Persisted, Dirty
<1>11. EpochOK(q)
  <2>1. pcl.size \in Nat /\ prcf.size \in Nat /\ p.cacheLineUpdates.size \in Nat
    BY DEF ObjectOK, PersistentStateType, CacheLineList, RootCauseList, UpdateListOf
  <2> QED
    BY <1>6, <1>7, <2>1 DEF ObjectOK, EpochOK
<1>12. QED
  BY <1>1, <1>3, <1>7, <1>8, <1>9, <1>10, <1>11 DEF ObjectOK

\* commitPendingPersists keeps the invariant: the pending lists it publishes
\* blame the same writers.
LEMMA CommitOK ==
  ASSUME NEW m, NEW o, NEW lw, NEW p, ObjectOK(p, m, o, lw)
  PROVE  ObjectOK(CommitPendingPersists(p), m, o, lw)
<1> DEFINE none == EmptyList(Null)
           q == [p EXCEPT !.cacheLineUpdates = p.pendingCacheLineUpdates,
                          !.rootCauseWrites = p.pendingRootCauseWrites,
                          !.pendingRootCauseFlushes = none]
<1>1. q = CommitPendingPersists(p)
  BY DEF CommitPendingPersists
<1>2. none \in RootCauseList /\ none.size = 0
  BY ListTypes, Zenon DEF RootCauseList, Null
<1> HIDE DEF none
<1>3. /\ q \in PersistentStateType
      /\ q.cacheLineUpdates = p.pendingCacheLineUpdates
      /\ q.pendingCacheLineUpdates = p.pendingCacheLineUpdates
      /\ q.rootCauseWrites = p.pendingRootCauseWrites
      /\ q.pendingRootCauseWrites = p.pendingRootCauseWrites
      /\ q.rootCauseFlushes = p.rootCauseFlushes
      /\ q.pendingRootCauseFlushes = none
  BY <1>2, Zenon DEF ObjectOK, PersistentStateType
<1> HIDE DEF q
<1>4. CausesOK(q, m, o, lw) /\ LinesOK(q, lw) /\ HeadOK(q)
  BY <1>3 DEF ObjectOK, CausesOK, LinesOK, HeadOK
<1>5. EpochOK(q)
  BY <1>2, <1>3 DEF ObjectOK, EpochOK, PersistentStateType, CacheLineList, UpdateListOf
<1>6. QED
  BY <1>1, <1>3, <1>4, <1>5 DEF ObjectOK

-----------------------------------------------------------------------------
(* The operations of the executor.                                         *)

\* A handler may register and mark several times in a row.
LEMMA GrowsTransitive ==
  ASSUME NEW m, NEW n, NEW k, ManagerOK(m), ManagerOK(n), ManagerOK(k),
         Grows(m, n), Grows(n, k)
  PROVE  Grows(m, k)
<1>1. \A i \in UsedIds(m) :
         m.occurences[i] \in Nat /\ n.occurences[i] \in Nat /\ k.occurences[i] \in Nat
  BY DEF ManagerOK, ManagerType, Grows
<1>2. QED
  BY <1>1 DEF Grows

\* Registering a location and marking it at once.
LEMMA ReportOK ==
  ASSUME NEW m, ManagerOK(m), NEW loc \in Location, NEW a
  PROVE  LET rc == GetRootCauseLocationID(m, loc, {})
             n == MarkAsBugs(rc.mgr, {<<a, rc.id>>})
         IN  ManagerOK(n) /\ Grows(m, n)
<1> DEFINE rc == GetRootCauseLocationID(m, loc, {})
           k == rc.mgr
           reports == {<<a, rc.id>>}
           n == MarkAsBugs(k, reports)
<1>1. {} \in SUBSET UsedIds(m)
  OBVIOUS
<1>2. ManagerOK(k) /\ Grows(m, k) /\ rc.id \in UsedIds(k)
  BY <1>1, RegisterOK
<1> HIDE DEF rc, k
<1>3. IsFiniteSet(reports)
  BY FS_Singleton, Zenon
<1>4. \A r \in reports : r[2] \in UsedIds(k)
  BY <1>2
<1> HIDE DEF reports
<1>5. ManagerOK(n) /\ Grows(k, n)
  BY <1>2, <1>3, <1>4, MarkOK
<1> HIDE DEF n
<1>6. Grows(m, n)
  BY <1>2, <1>5, GrowsTransitive
<1>7. QED
  BY <1>5, <1>6 DEF n, reports, k, rc

SpanWriters(lw, span, site) ==
  [w \in Worlds |-> [l \in Lines |->
     IF \E i \in DOMAIN span : LineOf(span[i], w) = l THEN site ELSE lw[w][l]]]

\* The last writers stay a map of the lines.
LEMMA WriterMapType ==
  ASSUME NEW lw \in WriterMap, NEW x \in Indices, NEW site \in Sites
  PROVE  WrittenBy(lw, x, site) \in WriterMap
BY DEF WrittenBy, WriterMap

\* A store over one or two lines, nontemporal or not, keeps the invariant.
LEMMA StoreOK ==
  ASSUME IInv, NEW o \in Objects, NEW span \in Spans, NEW site \in Sites,
         NEW nontemporal \in BOOLEAN
  PROVE  LET r == StoreOp(o, span, site, nontemporal)
         IN  /\ ManagerOK(r.m)
             /\ Grows(mgr, r.m)
             /\ r.m.buggyIds = mgr.buggyIds
             /\ ObjectOK(r.p, r.m, o, SpanWriters(lastWriter[o], span, site))
             /\ SpanWriters(lastWriter[o], span, site) \in WriterMap
<1> DEFINE lw == lastWriter[o]
           lw1 == WrittenBy(lw, span[1], site)
           lw2 == WrittenBy(lw1, span[2], site)
           sw == SpanWriters(lw, span, site)
           d1 == DirtyCacheLine(ps[o], mgr, worlds, o, span[1], site)
           d2 == IF Len(span) = 1 THEN d1
                 ELSE DirtyCacheLine(d1.p, d1.m, worlds, o, span[2], site)
           d3 == PersistCacheLine(d2.p, d2.m, o, span[1], site)
           Good(d, w) == /\ ManagerOK(d.m)
                         /\ Grows(mgr, d.m)
                         /\ d.m.buggyIds = mgr.buggyIds
                         /\ ObjectOK(d.p, d.m, o, w)
<1>1. /\ span[1] \in Indices
      /\ \/ Len(span) = 1 /\ DOMAIN span = {1}
         \/ Len(span) # 1 /\ DOMAIN span = {1, 2} /\ span[2] \in Indices
  BY SpanAssumption
<1>2. /\ worlds \in SUBSET Worlds /\ lw \in WriterMap
      /\ ManagerOK(mgr) /\ ObjectOK(ps[o], mgr, o, lw)
  BY DEF IInv, TypeOK, WriterMap
<1>3. lw1 \in WriterMap
  BY <1>1, <1>2, WriterMapType
<1>4. Good(d1, lw1)
  BY <1>1, <1>2, DirtyOK
<1> HIDE DEF d1, d2, d3, lw, lw1, sw
<1>13. Len(span) # 1 => lw2 \in WriterMap
  BY <1>1, <1>3, WriterMapType
<1>5. Good(d2, IF Len(span) = 1 THEN lw1 ELSE lw2)
  <2>1. CASE Len(span) = 1
    BY <1>4, <2>1 DEF d2
  <2>2. CASE Len(span) # 1
    <3> DEFINE e == DirtyCacheLine(d1.p, d1.m, worlds, o, span[2], site)
    <3>1. /\ ManagerOK(e.m) /\ Grows(d1.m, e.m) /\ e.m.buggyIds = d1.m.buggyIds
          /\ ObjectOK(e.p, e.m, o, lw2)
      BY <1>1, <1>2, <1>3, <1>4, <2>2, DirtyOK, SMTT(90)
    <3> HIDE DEF e
    <3>2. Grows(mgr, e.m)
      BY <1>2, <1>4, <3>1, GrowsTransitive
    <3>3. d2 = e
      BY <2>2 DEF d2, e
    <3> HIDE DEF lw2
    <3>4. Good(e, lw2)
      BY <1>4, <3>1, <3>2
    <3> HIDE DEF Good
    <3> QED
      BY <2>2, <3>3, <3>4
  <2> QED
    BY <2>1, <2>2
<1>6. sw = IF Len(span) = 1 THEN lw1 ELSE lw2
  BY <1>1, Zenon DEF SpanWriters, WrittenBy, lw1, sw
<1> HIDE DEF lw2
<1>7. Good(d2, sw) /\ sw \in WriterMap
  BY <1>3, <1>5, <1>6, <1>13
<1>8. Good(d3, sw)
  <2>1. /\ ManagerOK(d3.m) /\ Grows(d2.m, d3.m) /\ d3.m.buggyIds = d2.m.buggyIds
        /\ ObjectOK(d3.p, d3.m, o, sw)
    BY <1>1, <1>7, PersistOK, SMTT(90) DEF d3
  <2>2. Grows(mgr, d3.m)
    BY <1>2, <1>7, <2>1, GrowsTransitive
  <2> QED
    BY <1>7, <2>1, <2>2
<1>9. StoreOp(o, span, site, nontemporal) = IF nontemporal THEN d3 ELSE d2
  BY Zenon DEF StoreOp, d3, d2, d1
<1>14. QED
  BY <1>7, <1>8, <1>9 DEF sw, lw

\* A flush keeps the invariant, the redundant one that is reported included.
LEMMA FlushOK ==
  ASSUME IInv, NEW o \in Objects, NEW x \in Indices, NEW site \in Sites
  PROVE  LET r == FlushOp(o, x, site)
         IN  /\ ManagerOK(r.m)
             /\ Grows(mgr, r.m)
             /\ ObjectOK(r.p, r.m, o, lastWriter[o])
<1>1. /\ lastWriter[o] \in WriterMap
      /\ ManagerOK(mgr) /\ ObjectOK(ps[o], mgr, o, lastWriter[o])
  BY DEF IInv, TypeOK, WriterMap
<1>2. CASE MustBePersisted(ps[o].pendingCacheLineUpdates, worlds, x)
  <2> DEFINE m == MarkFlushAsBug(ps[o], mgr, worlds, o, x, site)
  <2>1. FlushOp(o, x, site) = [p |-> ps[o], m |-> m]
    BY <1>2 DEF FlushOp
  <2>2. ManagerOK(m) /\ Grows(mgr, m)
    <3> DEFINE reason == IF GetRootCause(ps[o].rootCauseFlushes, worlds, x) = {}
                         THEN "PM_FlushOnUnmodified" ELSE "PM_UnnecessaryFlush"
               loc == Loc(o, site, reason)
    <3>1. loc \in Location
      BY SiteAssumption DEF Loc, Location, Reasons, Performance
    <3> HIDE DEF loc
    <3>2. QED
      BY <1>1, <3>1, ReportOK, Zenon DEF MarkFlushAsBug, loc
  <2> HIDE DEF m
  <2>3. ObjectOK(ps[o], m, o, lastWriter[o])
    BY <1>1, <2>2, GrowsKeepsObject
  <2> QED
    BY <2>1, <2>2, <2>3
<1>3. CASE ~MustBePersisted(ps[o].pendingCacheLineUpdates, worlds, x)
  <2>1. FlushOp(o, x, site) = PersistCacheLine(ps[o], mgr, o, x, site)
    BY <1>3 DEF FlushOp
  <2> QED
    BY <1>1, <2>1, PersistOK, SMTT(30)
<1>4. QED
  BY <1>2, <1>3

\* The report of an unnecessary fence leaves the manager consistent.
LEMMA FenceOK ==
  ASSUME NEW p, NEW m, ManagerOK(m), NEW site \in Sites
  PROVE  ManagerOK(FenceMgr(p, m, site)) /\ Grows(m, FenceMgr(p, m, site))
<1> DEFINE loc == Loc(NoAlloc, site, "PM_UnnecessaryFence")
<1>1. loc \in Location
  BY SiteAssumption DEF Loc, Location, Reasons, Performance
<1>2. Grows(m, m)
  BY DEF Grows, ManagerOK, ManagerType
<1> HIDE DEF loc
<1>3. QED
  BY <1>1, <1>2, ReportOK, Zenon DEF FenceMgr, loc

\* getRootCauses collects the cause of a line that may be unpersisted.
LEMMA CauseOfLine ==
  ASSUME NEW p, NEW W, NEW w \in W, NEW l \in Lines,
         ~IsCacheLinePersisted(p.cacheLineUpdates, w, l),
         p.rootCauseWrites.val[w][l] # Null
  PROVE  p.rootCauseWrites.val[w][l] \in GetRootCauses(p, W)
BY DEF GetRootCauses

\* getRootCauses collects nothing but causes that are stores.
LEMMA CausesAreWrites ==
  ASSUME NEW p, NEW m, NEW o, NEW lw, CausesOK(p, m, o, lw), NEW W \in SUBSET Worlds
  PROVE  GetRootCauses(p, W) \subseteq WriteIds(m)
<1> SUFFICES ASSUME NEW i \in GetRootCauses(p, W) PROVE i \in WriteIds(m)
  OBVIOUS
<1>1. PICK w \in W, l \in Lines : i = p.rootCauseWrites.val[w][l] /\ i # Null
  BY DEF GetRootCauses
<1>2. QED
  BY <1>1 DEF CausesOK

\* Every root cause that getRootCauses collects is known to the manager, and a
\* line that may be unpersisted has one.
LEMMA CausesKnown ==
  ASSUME NEW p \in PersistentStateType, NEW m, NEW o, NEW lw, CausesOK(p, m, o, lw),
         NEW W \in SUBSET Worlds
  PROVE  /\ GetRootCauses(p, W) \subseteq UsedIds(m)
         /\ \A w \in W, l \in Lines :
              ~IsCacheLinePersisted(p.cacheLineUpdates, w, l) =>
                 p.rootCauseWrites.val[w][l] \in UsedIds(m)
<1>1. GetRootCauses(p, W) \subseteq UsedIds(m)
  BY CausesAreWrites DEF WriteIds
<1>2. p.cacheLineUpdates \in CacheLineList
  BY DEF PersistentStateType
<1>3. \A w \in W, l \in Lines : p.cacheLineUpdates.val[w][l] \in {Persisted, Dirty}
  BY <1>2 DEF CacheLineList, UpdateListOf
<1>4. QED
  BY <1>1, <1>3 DEF CausesOK, Blames, IsCacheLinePersisted

\* A check of some objects keeps the manager, and the cause of every line that
\* may be unpersisted in them is a bug afterwards.
LEMMA ErrorsOK ==
  ASSUME IInv, NEW objs \in SUBSET Objects
  PROVE  LET n == MarkPersistenceErrors(mgr, objs)
         IN  /\ ManagerOK(n)
             /\ Grows(mgr, n)
             /\ \A o \in objs, w \in worlds, l \in Lines :
                  ~IsCacheLinePersisted(ps[o].cacheLineUpdates, w, l) =>
                     ps[o].rootCauseWrites.val[w][l] \in n.buggyIds
<1> DEFINE bad == {o \in objs : HasUnpersisted(ps[o], worlds)}
           reports == UNION {{o} \X GetRootCauses(ps[o], worlds) : o \in bad}
           n == MarkAsBugs(mgr, reports)
<1>1. ManagerOK(mgr) /\ worlds \in SUBSET Worlds
  BY DEF IInv, TypeOK
<1>2. \A o \in Objects :
        /\ GetRootCauses(ps[o], worlds) \subseteq UsedIds(mgr)
        /\ \A w \in worlds, l \in Lines :
             ~IsCacheLinePersisted(ps[o].cacheLineUpdates, w, l) =>
                ps[o].rootCauseWrites.val[w][l] \in UsedIds(mgr)
  <2> SUFFICES ASSUME NEW o \in Objects
               PROVE  ps[o] \in PersistentStateType /\ CausesOK(ps[o], mgr, o, lastWriter[o])
    BY <1>1, CausesKnown
  <2> QED
    BY DEF IInv, ObjectOK
<1>3. reports \subseteq Objects \X UsedIds(mgr)
  BY <1>2
<1>4. IsFiniteSet(reports)
  <2>1. IsFiniteSet(Objects \X UsedIds(mgr))
    BY <1>1, FiniteAssumption, FS_Product DEF ManagerOK, ManagerType
  <2> HIDE DEF reports
  <2> QED
    BY <1>3, <2>1, FS_Subset
<1>5. \A r \in reports : r[2] \in UsedIds(mgr)
  <2> HIDE DEF reports
  <2> QED
    BY <1>3
<1>6. /\ ManagerOK(n) /\ Grows(mgr, n)
      /\ \A r \in reports : r[2] \in n.buggyIds
  <2> HIDE DEF reports
  <2> QED
    BY <1>1, <1>4, <1>5, MarkOK
<1>7. ASSUME NEW o \in objs, NEW w \in worlds, NEW l \in Lines,
             ~IsCacheLinePersisted(ps[o].cacheLineUpdates, w, l)
      PROVE  ps[o].rootCauseWrites.val[w][l] \in n.buggyIds
  <2> DEFINE id == ps[o].rootCauseWrites.val[w][l]
  <2>2. id \in UsedIds(mgr)
    BY <1>2, <1>7
  <2>3. id # Null
    BY <1>1, <2>2 DEF ManagerOK, ManagerType
  <2>4. id \in GetRootCauses(ps[o], worlds)
    BY <1>7, <2>3, CauseOfLine
  <2>5. o \in bad
    BY <1>7 DEF HasUnpersisted
  <2>6. <<o, id>> \in reports
    BY <2>4, <2>5
  <2> HIDE DEF reports, n
  <2>7. QED
    BY <1>6, <2>6
<1>8. QED
  BY <1>6, <1>7 DEF MarkPersistenceErrors

-----------------------------------------------------------------------------
(* The invariant is inductive.                                             *)

\* The invariant holds before the first instruction.
LEMMA InitOK == Init => IInv
<1> SUFFICES ASSUME Init PROVE IInv
  OBVIOUS
<1>1. ManagerOK(mgr)
  BY NewManagerOK DEF Init
<1>2. \A o \in Objects : ObjectOK(ps[o], mgr, o, lastWriter[o])
  BY NewOK DEF Init
<1>3. TypeOK
  <2>1. ps \in [Objects -> PersistentStateType]
    BY <1>2 DEF Init, ObjectOK
  <2>2. lastWriter \in [Objects -> [Worlds -> [Lines -> Sites \cup {NoSite}]]]
    BY DEF Init, NeverWritten
  <2> QED
    BY <1>1, <2>1, <2>2 DEF TypeOK, Init, ManagerOK
<1>4. QED
  BY <1>1, <1>2, <1>3 DEF IInv, ExitReportsEveryLoss, Init

\* A step that only changes the object o, and the manager.
LEMMA StepOnObject ==
  ASSUME IInv, phase' = phase,
         worlds' \in SUBSET Worlds, persistentObjects' \in SUBSET Objects,
         NEW o \in Objects, NEW p, NEW lw \in WriterMap,
         ps' = [ps EXCEPT ![o] = p], lastWriter' = [lastWriter EXCEPT ![o] = lw],
         ManagerOK(mgr'), Grows(mgr, mgr'), ObjectOK(p, mgr', o, lw),
         running \/ (worlds' = worlds /\ persistentObjects' = persistentObjects \ {o})
  PROVE  IInv'
<1>1. /\ ps \in [Objects -> PersistentStateType]
      /\ lastWriter \in [Objects -> WriterMap]
      /\ p \in PersistentStateType
  BY DEF IInv, TypeOK, ObjectOK, WriterMap
<1>2. ASSUME NEW a \in Objects PROVE ObjectOK(ps'[a], mgr', a, lastWriter'[a])
  <2>1. CASE a = o
    BY <1>1, <2>1
  <2>2. CASE a # o
    <3>1. ps'[a] = ps[a] /\ lastWriter'[a] = lastWriter[a]
      BY <1>1, <2>2
    <3>2. ObjectOK(ps[a], mgr, a, lastWriter[a])
      BY DEF IInv
    <3> QED
      BY <3>1, <3>2, GrowsKeepsObject
  <2> QED
    BY <2>1, <2>2
<1>3. TypeOK'
  <2>1. ps' \in [Objects -> PersistentStateType] /\ lastWriter' \in [Objects -> WriterMap]
    BY <1>1
  <2> QED
    BY <2>1 DEF TypeOK, ManagerOK, WriterMap, IInv
<1>4. ExitReportsEveryLoss'
  <2>1. CASE running
    BY <2>1 DEF ExitReportsEveryLoss, running
  <2>2. CASE worlds' = worlds /\ persistentObjects' = persistentObjects \ {o}
    <3>1. \A a \in persistentObjects' : ps'[a] = ps[a]
      BY <1>1, <2>2 DEF IInv, TypeOK
    <3> QED
      BY <2>2, <3>1 DEF ExitReportsEveryLoss, IInv, Grows
  <2> QED
    BY <2>1, <2>2
<1>5. QED
  BY <1>2, <1>3, <1>4 DEF IInv

\* A step that leaves every object alone.
LEMMA StepOnManager ==
  ASSUME IInv, running, worlds' \in SUBSET Worlds,
         UNCHANGED <<persistentObjects, ps, lastWriter>>,
         ManagerOK(mgr'), Grows(mgr, mgr'), phase' \in {"running", "exited", "stopped"},
         ExitReportsEveryLoss'
  PROVE  IInv'
<1>1. \A a \in Objects : ObjectOK(ps'[a], mgr', a, lastWriter'[a])
  BY GrowsKeepsObject DEF IInv
<1>2. TypeOK'
  BY DEF IInv, TypeOK, ManagerOK
<1>3. QED
  BY <1>1, <1>2 DEF IInv

\* A fence of the objects p, of which every one satisfies the invariant.
LEMMA StepFence ==
  ASSUME IInv, running, UNCHANGED <<worlds, persistentObjects, phase, lastWriter>>,
         NEW p \in [Objects -> PersistentStateType], NEW m,
         ManagerOK(m), Grows(mgr, m),
         \A a \in Objects : ObjectOK(p[a], m, a, lastWriter[a]),
         NEW site \in Sites,
         ps' = CommitAll(p), mgr' = FenceMgr(p, m, site)
  PROVE  IInv'
<1>1. ManagerOK(mgr') /\ Grows(m, mgr')
  BY FenceOK
<1>2. ASSUME NEW a \in Objects PROVE ObjectOK(ps'[a], mgr', a, lastWriter'[a])
  <2>1. ObjectOK(p[a], m, a, lastWriter[a])
    OBVIOUS
  <2>2. ObjectOK(CommitPendingPersists(p[a]), m, a, lastWriter[a])
    BY <2>1, CommitOK
  <2>3. ObjectOK(ps'[a], m, a, lastWriter[a])
    BY <2>1, <2>2 DEF CommitAll
  <2> QED
    BY <1>1, <2>3, GrowsKeepsObject
<1>3. TypeOK'
  <2>1. ps' \in [Objects -> PersistentStateType]
    BY <1>2 DEF ObjectOK, CommitAll
  <2> QED
    BY <1>1, <2>1 DEF IInv, TypeOK, ManagerOK
<1>4. ExitReportsEveryLoss'
  BY DEF ExitReportsEveryLoss, running
<1>5. QED
  BY <1>1, <1>2, <1>3, <1>4 DEF IInv

\* Every operation keeps the invariant.
LEMMA NextOK == IInv /\ [Next]_vars => IInv'
<1> SUFFICES ASSUME IInv, [Next]_vars PROVE IInv'
  OBVIOUS
<1>1. /\ worlds \in SUBSET Worlds /\ persistentObjects \in SUBSET Objects
      /\ ps \in [Objects -> PersistentStateType]
      /\ lastWriter \in [Objects -> WriterMap] /\ phase \in {"running", "exited", "stopped"}
      /\ ManagerOK(mgr) /\ Grows(mgr, mgr)
      /\ \A o \in Objects : ObjectOK(ps[o], mgr, o, lastWriter[o])
  <2>1. ManagerType(mgr)
    BY DEF IInv, ManagerOK
  <2>2. Grows(mgr, mgr)
    BY <2>1, GrowsSelf
  <2> QED
    BY <2>2 DEF IInv, TypeOK, WriterMap
<1>2. NeverWritten \in WriterMap
  BY DEF NeverWritten, WriterMap
<1>3. ASSUME NEW o \in Objects, MarkPersistent(o) PROVE IInv'
  <2>1. ObjectOK(NewPersistentState, mgr', o, NeverWritten)
    BY NewOK
  <2>2. running /\ UNCHANGED <<worlds, mgr, phase>>
        /\ persistentObjects' = persistentObjects \cup {o}
        /\ ps' = [ps EXCEPT ![o] = NewPersistentState]
        /\ lastWriter' = [lastWriter EXCEPT ![o] = NeverWritten]
    BY <1>3 DEF MarkPersistent
  <2>3. QED
    BY <1>1, <1>2, <2>1, <2>2, StepOnObject, Zenon
<1>4. ASSUME NEW o \in Objects, NEW span \in Spans, NEW site \in Sites,
             NEW nontemporal \in StoreKinds, Store(o, span, site, nontemporal)
      PROVE  IInv'
  <2> DEFINE r == StoreOp(o, span, site, nontemporal)
             lw == SpanWriters(lastWriter[o], span, site)
  <2>1. nontemporal \in BOOLEAN
    BY SiteAssumption
  <2>2. ManagerOK(r.m) /\ Grows(mgr, r.m) /\ ObjectOK(r.p, r.m, o, lw) /\ lw \in WriterMap
    BY <2>1, StoreOK
  <2>3. /\ running /\ UNCHANGED <<worlds, persistentObjects, phase>>
        /\ ps' = [ps EXCEPT ![o] = r.p] /\ mgr' = r.m
        /\ lastWriter' = [lastWriter EXCEPT ![o] = lw]
    BY <1>1, <1>4 DEF Store, SpanWriters
  <2> HIDE DEF r, lw
  <2>4. QED
    BY <1>1, <2>2, <2>3, StepOnObject, Zenon
<1>5. ASSUME NEW o \in Objects, NEW x \in Indices, NEW site \in Sites, Flush(o, x, site)
      PROVE  IInv'
  <2> DEFINE r == FlushOp(o, x, site)
  <2>1. ManagerOK(r.m) /\ Grows(mgr, r.m) /\ ObjectOK(r.p, r.m, o, lastWriter[o])
    BY FlushOK
  <2>2. /\ running /\ UNCHANGED <<worlds, persistentObjects, phase>>
        /\ ps' = [ps EXCEPT ![o] = r.p] /\ mgr' = r.m
        /\ lastWriter' = [lastWriter EXCEPT ![o] = lastWriter[o]]
    BY <1>1, <1>5 DEF Flush
  <2>3. lastWriter[o] \in WriterMap
    BY <1>1
  <2> HIDE DEF r
  <2>4. QED
    BY <1>1, <2>1, <2>2, <2>3, StepOnObject, Zenon
<1>6. ASSUME NEW o \in Objects, NEW x \in Indices, NEW site \in Sites, Clflush(o, x, site)
      PROVE  IInv'
  <2> DEFINE r == FlushOp(o, x, site)
             p == [ps EXCEPT ![o] = r.p]
  <2>1. ManagerOK(r.m) /\ Grows(mgr, r.m) /\ ObjectOK(r.p, r.m, o, lastWriter[o])
    BY FlushOK
  <2>2. /\ running /\ UNCHANGED <<worlds, persistentObjects, phase, lastWriter>>
        /\ ps' = CommitAll(p) /\ mgr' = FenceMgr(p, r.m, site)
    BY <1>6 DEF Clflush
  <2> HIDE DEF r
  <2>3. p \in [Objects -> PersistentStateType]
    BY <1>1, <2>1 DEF ObjectOK
  <2>4. ASSUME NEW a \in Objects PROVE ObjectOK(p[a], r.m, a, lastWriter[a])
    <3>1. CASE a = o
      BY <1>1, <2>1, <3>1
    <3>2. CASE a # o
      <4>1. p[a] = ps[a] /\ ObjectOK(ps[a], mgr, a, lastWriter[a])
        BY <1>1, <3>2
      <4> QED
        BY <2>1, <4>1, GrowsKeepsObject
    <3> QED
      BY <3>1, <3>2
  <2> HIDE DEF p
  <2>5. QED
    BY <2>1, <2>2, <2>3, <2>4, StepFence
<1>7. ASSUME NEW site \in Sites, Fence(site) PROVE IInv'
  <2>1. /\ running /\ UNCHANGED <<worlds, persistentObjects, phase, lastWriter>>
        /\ ps' = CommitAll(ps) /\ mgr' = FenceMgr(ps, mgr, site)
    BY <1>7 DEF Fence
  <2>2. QED
    BY <1>1, <2>1, StepFence
<1>8. ASSUME NEW o \in Objects, CheckPersisted(o) PROVE IInv'
  <2>1. ManagerOK(mgr') /\ Grows(mgr, mgr')
    BY <1>8, ErrorsOK DEF CheckPersisted
  <2>2. QED
    BY <1>1, <1>8, <2>1, StepOnManager DEF CheckPersisted, ExitReportsEveryLoss, running
<1>9. ASSUME ThreadExitCheck PROVE IInv'
  <2>1. ManagerOK(mgr') /\ Grows(mgr, mgr')
    BY <1>1, <1>9, ErrorsOK DEF ThreadExitCheck
  <2>2. QED
    BY <1>1, <1>9, <2>1, StepOnManager DEF ThreadExitCheck, ExitReportsEveryLoss, running
<1>10. ASSUME Exit PROVE IInv'
  <2>1. /\ running /\ phase' = "exited"
        /\ UNCHANGED <<worlds, persistentObjects, ps, lastWriter>>
        /\ mgr' = MarkPersistenceErrors(mgr, persistentObjects)
    BY <1>10 DEF Exit
  <2>2. /\ ManagerOK(mgr') /\ Grows(mgr, mgr')
        /\ \A o \in persistentObjects, w \in worlds, l \in Lines :
             ~IsCacheLinePersisted(ps[o].cacheLineUpdates, w, l) =>
                ps[o].rootCauseWrites.val[w][l] \in mgr'.buggyIds
    BY <1>1, <2>1, ErrorsOK
  <2>3. ExitReportsEveryLoss'
    BY <2>1, <2>2 DEF ExitReportsEveryLoss
  <2>4. QED
    BY <1>1, <2>1, <2>2, <2>3, StepOnManager
<1>11. ASSUME NEW o \in Objects, PopFrame(o) PROVE IInv'
  <2>1. /\ UNCHANGED <<worlds, phase>>
        /\ persistentObjects' = persistentObjects \ {o}
        /\ ps' = [ps EXCEPT ![o] = NewPersistentState]
        /\ lastWriter' = [lastWriter EXCEPT ![o] = NeverWritten]
        /\ mgr' = MarkPersistenceErrors(mgr, {o})
    BY <1>11 DEF PopFrame, Forget
  <2>2. ManagerOK(mgr') /\ Grows(mgr, mgr')
    BY <2>1, ErrorsOK
  <2>3. ObjectOK(NewPersistentState, mgr', o, NeverWritten)
    BY NewOK
  <2>4. QED
    BY <1>1, <1>2, <2>1, <2>2, <2>3, StepOnObject, ZenonT(30)
<1>12. ASSUME NEW o \in Objects, UndefineFixedObject(o) PROVE IInv'
  <2>1. ObjectOK(NewPersistentState, mgr', o, NeverWritten)
    BY NewOK
  <2>2. /\ running /\ UNCHANGED <<worlds, mgr, phase>>
        /\ persistentObjects' = persistentObjects \ {o}
        /\ ps' = [ps EXCEPT ![o] = NewPersistentState]
        /\ lastWriter' = [lastWriter EXCEPT ![o] = NeverWritten]
    BY <1>12 DEF UndefineFixedObject, Forget
  <2>3. QED
    BY <1>1, <1>2, <2>1, <2>2, StepOnObject, ZenonT(30)
<1>13. ASSUME Branch PROVE IInv'
  BY <1>1, <1>13, StepOnManager DEF Branch, ExitReportsEveryLoss, running
<1>14. ASSUME UNCHANGED vars PROVE IInv'
  <2>1. TypeOK' /\ ManagerOK(mgr')
    BY <1>14 DEF vars, IInv, TypeOK
  <2>2. \A o \in Objects : ObjectOK(ps'[o], mgr', o, lastWriter'[o])
    BY <1>14 DEF vars, IInv
  <2>3. ExitReportsEveryLoss'
    BY <1>14 DEF vars, IInv, ExitReportsEveryLoss
  <2>4. QED
    BY <2>1, <2>2, <2>3 DEF IInv
<1>15. ASSUME Stop PROVE IInv'
  <2>1. PICK done \in SUBSET persistentObjects : mgr' = MarkPersistenceErrors(mgr, done)
    BY <1>15 DEF Stop
  <2>2. ManagerOK(mgr') /\ Grows(mgr, mgr')
    BY <1>1, <2>1, ErrorsOK
  <2>3. QED
    BY <1>1, <1>15, <2>2, StepOnManager DEF Stop, ExitReportsEveryLoss, running
<1>16. QED
  BY <1>15, <1>3, <1>4, <1>5, <1>6, <1>7, <1>8, <1>9, <1>10, <1>11, <1>12, <1>13, <1>14 DEF Next

-----------------------------------------------------------------------------
(* What the invariant implies.                                             *)

\* The invariant implies the safety properties that TLC checks.
LEMMA InvariantImplies ==
  ASSUME IInv
  PROVE  /\ UnpersistedHasCause /\ BlamesLastWriter /\ NeverModifiedIsHonest
         /\ CommitNecessaryIffFlushed /\ UnnecessaryFenceIsHonest
<1>1. /\ worlds \in SUBSET Worlds /\ persistentObjects \in SUBSET Objects
      /\ ManagerOK(mgr)
  BY DEF IInv, TypeOK
<1>2. ASSUME NEW o \in persistentObjects
      PROVE  ObjectOK(ps[o], mgr, o, lastWriter[o])
  BY <1>1 DEF IInv
<1>3. ASSUME NEW o \in persistentObjects, NEW w \in worlds, NEW l \in Lines,
             ~IsCacheLinePersisted(ps[o].cacheLineUpdates, w, l)
      PROVE  Blames(mgr, ps[o].rootCauseWrites.val[w][l], o, lastWriter[o][w][l])
  <2> DEFINE p == ps[o]
             lw == lastWriter[o]
  <2>1. w \in Worlds /\ p \in PersistentStateType /\ CausesOK(p, mgr, o, lw)
    BY <1>1, <1>2 DEF ObjectOK
  <2>2. p.cacheLineUpdates.val[w][l] # Persisted
    BY <1>3 DEF IsCacheLinePersisted
  <2> HIDE DEF p, lw
  <2>3. p.cacheLineUpdates \in CacheLineList
    BY <2>1 DEF PersistentStateType
  <2>4. p.cacheLineUpdates.val[w][l] \in {Persisted, Dirty}
    BY <2>1, <2>3 DEF CacheLineList, UpdateListOf
  <2>5. Blames(mgr, p.rootCauseWrites.val[w][l], o, lw[w][l])
    BY <2>1, <2>2, <2>4, SMTT(30) DEF CausesOK
  <2> QED
    BY <2>5 DEF p, lw
<1>4. BlamesLastWriter
  BY <1>3 DEF BlamesLastWriter, Blames
<1>5. UnpersistedHasCause
  <2> SUFFICES ASSUME NEW o \in persistentObjects, HasUnpersisted(ps[o], worlds)
               PROVE  GetRootCauses(ps[o], worlds) # {}
    BY DEF UnpersistedHasCause
  <2>1. PICK w \in worlds, l \in Lines : ~IsCacheLinePersisted(ps[o].cacheLineUpdates, w, l)
    BY DEF HasUnpersisted
  <2> DEFINE id == ps[o].rootCauseWrites.val[w][l]
  <2>2. id # Null
    BY <1>1, <1>3, <2>1 DEF Blames, ManagerOK, ManagerType
  <2>3. id \in GetRootCauses(ps[o], worlds)
    BY <2>1, <2>2, CauseOfLine
  <2> QED
    BY <2>3
<1>6. NeverModifiedIsHonest
  BY <1>1, <1>2 DEF NeverModifiedIsHonest, ObjectOK, LinesOK, IsCacheLinePersisted
<1>7. CommitNecessaryIffFlushed
  <2> SUFFICES ASSUME NEW o \in persistentObjects
               PROVE  CommitNecessary(ps[o]) <=> ps[o].pendingRootCauseFlushes.size > 0
    BY DEF CommitNecessaryIffFlushed
  <2>1. /\ ps[o].pendingRootCauseFlushes.size \in Nat
        /\ ps[o].cacheLineUpdates.size \in Nat
    BY <1>2 DEF ObjectOK, PersistentStateType, CacheLineList, RootCauseList, UpdateListOf
  <2>2. EpochOK(ps[o])
    BY <1>2 DEF ObjectOK
  <2> QED
    BY <2>1, <2>2 DEF EpochOK, CommitNecessary
<1>8. UnnecessaryFenceIsHonest
  <2> SUFFICES ASSUME \A o \in persistentObjects : ~CommitNecessary(ps[o]),
                      NEW o \in persistentObjects, NEW w \in worlds, NEW l \in Lines
               PROVE  ps[o].pendingCacheLineUpdates.val[w][l] =
                        ps[o].cacheLineUpdates.val[w][l]
    BY DEF UnnecessaryFenceIsHonest, LineWaits, IsCacheLinePersisted
  <2>1. ps[o].pendingRootCauseFlushes.size = 0
    <3>1. /\ ps[o].pendingRootCauseFlushes.size \in Nat
          /\ ps[o].cacheLineUpdates.size \in Nat
      BY <1>2 DEF ObjectOK, PersistentStateType, CacheLineList, RootCauseList, UpdateListOf
    <3> QED
      BY <1>2, <3>1, SMTT(90) DEF ObjectOK, EpochOK, CommitNecessary
  <2> QED
    BY <1>1, <1>2, <2>1 DEF ObjectOK, EpochOK
<1>9. QED
  BY <1>4, <1>5, <1>6, <1>7, <1>8

\* In every reachable state every line that may be unpersisted has a root cause,
\* which is the last store to the line; a path that has exited has reported them
\* all; and the fence and flush reports are honest.
THEOREM PersistenceTracking ==
  Spec => [](/\ TypeOK /\ UnpersistedHasCause /\ BlamesLastWriter
             /\ ExitReportsEveryLoss /\ NeverModifiedIsHonest
             /\ CommitNecessaryIffFlushed /\ UnnecessaryFenceIsHonest)
<1>1. Init => IInv
  BY InitOK
<1>2. IInv /\ [Next]_vars => IInv'
  BY NextOK
<1>3. IInv => /\ TypeOK /\ UnpersistedHasCause /\ BlamesLastWriter
              /\ ExitReportsEveryLoss /\ NeverModifiedIsHonest
              /\ CommitNecessaryIffFlushed /\ UnnecessaryFenceIsHonest
  BY InvariantImplies DEF IInv
<1>4. QED
  BY <1>1, <1>2, <1>3, PTL DEF Spec

-----------------------------------------------------------------------------
(* What is counted: a step raises the counts of one kind of location only. *)

\* Only stores mask, and only stores are masked.
WritesMask(m) ==
  \A i \in UsedIds(m) : \A j \in m.maskedRoots[i] : {i, j} \subseteq WriteIds(m)

Count(m, id) == IF id \in UsedIds(m) THEN m.occurences[id] ELSE 0

\* From m to n no location whose reason is in R has occurred.
Uncounted(m, n, R) ==
  \A id \in UsedIds(n) : ReasonOf(n, id) \in R => n.occurences[id] = Count(m, id)

\* What has not been counted in two steps has not been counted in the two together.
LEMMA UncountedTransitive ==
  ASSUME NEW m, NEW k, NEW n, NEW R, Grows(m, k), Grows(k, n),
         Uncounted(m, k, R), Uncounted(k, n, R)
  PROVE  Uncounted(m, n, R)
BY DEF Uncounted, Count, Grows, ReasonOf

\* Registering a location counts nothing, and only a store may mask.
LEMMA RegisterCounts ==
  ASSUME NEW m, ManagerOK(m), WritesMask(m), NEW loc \in Location,
         NEW ids \in SUBSET WriteIds(m), loc.reason = "PM_Unpersisted" \/ ids = {}
  PROVE  LET r == GetRootCauseLocationID(m, loc, ids)
         IN  WritesMask(r.mgr) /\ Uncounted(m, r.mgr, Reasons)
<1> DEFINE r == GetRootCauseLocationID(m, loc, ids)
           n == r.mgr
           id == GetNewId(m, loc)
           masked == GetAllMaskedIDs(m, ids)
           used == UsedIds(m)
<1>1. ManagerType(m) /\ ids \in SUBSET used
  BY DEF ManagerOK, WriteIds
<1>2. CASE loc \in DOMAIN m.rootToId
  <2>1. n = m
    BY <1>2 DEF GetRootCauseLocationID
  <2> QED
    BY <2>1 DEF Uncounted, Count
<1>3. CASE loc \notin DOMAIN m.rootToId
  <2>1. masked \subseteq WriteIds(m) /\ (ids = {} => masked = {})
    <3>1. WriteIds(m) \in SUBSET used /\ \A i \in WriteIds(m) : m.maskedRoots[i] \subseteq WriteIds(m)
      BY DEF WritesMask, WriteIds
    <3>2. masked \subseteq WriteIds(m)
      BY <3>1, Zenon DEF GetAllMaskedIDs
    <3>3. {} \in SUBSET used /\ \A i \in {} : m.maskedRoots[i] \subseteq {}
      OBVIOUS
    <3>4. ids = {} => masked = {}
      BY <3>3, Zenon DEF GetAllMaskedIDs
    <3> QED
      BY <3>2, <3>4
  <2>2. id \notin used
    BY <1>1, GetNewIdIsFresh
  <2> HIDE DEF id, masked
  <2>3. /\ n.idToRoot = With(m.idToRoot, id, loc)
        /\ n.maskedRoots = With(m.maskedRoots, id, masked)
        /\ n.occurences = With(m.occurences, id, 0)
    BY <1>1, <1>3, Zenon DEF GetRootCauseLocationID, ManagerType, id, masked
  <2> HIDE DEF n, r
  <2>4. /\ UsedIds(n) = used \cup {id}
        /\ n.idToRoot[id] = loc /\ n.maskedRoots[id] = masked /\ n.occurences[id] = 0
        /\ \A i \in used : /\ n.idToRoot[i] = m.idToRoot[i]
                           /\ n.maskedRoots[i] = m.maskedRoots[i]
                           /\ n.occurences[i] = m.occurences[i]
    BY <1>1, <2>2, <2>3 DEF With, UsedIds, ManagerType
  <2>5. WriteIds(m) \subseteq WriteIds(n) /\ (loc.reason = "PM_Unpersisted" => id \in WriteIds(n))
    BY <2>4 DEF WriteIds, ReasonOf
  <2>6. WritesMask(n)
    BY <2>1, <2>4, <2>5 DEF WritesMask
  <2>7. Uncounted(m, n, Reasons)
    BY <2>2, <2>4 DEF Uncounted, Count
  <2> QED
    BY <2>6, <2>7 DEF n, r
<1>4. QED
  BY <1>2, <1>3

\* markAsBug counts locations of the reason that is reported, and no others: the
\* locations that a store masks are stores.
LEMMA MarkCounts ==
  ASSUME NEW m, ManagerOK(m), WritesMask(m), NEW reports, NEW reason,
         \A r \in reports : r[2] \in UsedIds(m) /\ ReasonOf(m, r[2]) = reason
  PROVE  LET n == MarkAsBugs(m, reports)
         IN  WritesMask(n) /\ Uncounted(m, n, Reasons \ {reason})
<1> DEFINE n == MarkAsBugs(m, reports)
           Marks(i) == {r \in reports : i = r[2] \/ i \in m.maskedRoots[r[2]]}
           counts == [i \in UsedIds(m) |-> m.occurences[i] + Cardinality(Marks(i))]
<1>1. ManagerType(m)
  BY DEF ManagerOK
<1>2. /\ n.idToRoot = m.idToRoot /\ n.maskedRoots = m.maskedRoots
      /\ n.occurences = counts
  BY <1>1 DEF MarkAsBugs, ManagerType
<1>3. ASSUME NEW i \in UsedIds(m), ReasonOf(m, i) # reason PROVE Marks(i) = {}
  BY <1>3 DEF WritesMask, WriteIds
<1>4. Cardinality({}) = 0
  BY FS_EmptySet
<1>5. \A i \in UsedIds(m) : ReasonOf(m, i) # reason => counts[i] = m.occurences[i]
  <2> SUFFICES ASSUME NEW i \in UsedIds(m), ReasonOf(m, i) # reason
               PROVE  counts[i] = m.occurences[i]
    OBVIOUS
  <2>1. counts[i] = m.occurences[i] + Cardinality(Marks(i))
    OBVIOUS
  <2>2. Cardinality(Marks(i)) = 0
    BY <1>3, <1>4
  <2>3. m.occurences[i] \in Nat
    BY <1>1 DEF ManagerType
  <2> HIDE DEF counts, Marks
  <2> QED
    BY <2>1, <2>2, <2>3
<1> HIDE DEF n, counts
<1>6. WritesMask(n)
  BY <1>2 DEF WritesMask, WriteIds, UsedIds, ReasonOf
<1>7. Uncounted(m, n, Reasons \ {reason})
  BY <1>2, <1>5 DEF Uncounted, Count, UsedIds, ReasonOf
<1>8. QED
  BY <1>6, <1>7 DEF n

\* A report at once of a location that is not a store.
LEMMA ReportCounts ==
  ASSUME NEW m, ManagerOK(m), WritesMask(m), NEW loc \in Location, NEW a
  PROVE  LET rc == GetRootCauseLocationID(m, loc, {})
             n == MarkAsBugs(rc.mgr, {<<a, rc.id>>})
         IN  WritesMask(n) /\ Uncounted(m, n, Reasons \ {loc.reason})
<1> DEFINE rc == GetRootCauseLocationID(m, loc, {})
           k == rc.mgr
           reports == {<<a, rc.id>>}
           n == MarkAsBugs(k, reports)
<1>1. {} \in SUBSET UsedIds(m) /\ {} \in SUBSET WriteIds(m)
  OBVIOUS
<1>2. /\ ManagerOK(k) /\ Grows(m, k) /\ rc.id \in UsedIds(k) /\ k.idToRoot[rc.id] = loc
  BY <1>1, RegisterOK
<1>3. WritesMask(k) /\ Uncounted(m, k, Reasons)
  BY <1>1, RegisterCounts
<1> HIDE DEF rc, k
<1>4. \A r \in reports : r[2] \in UsedIds(k) /\ ReasonOf(k, r[2]) = loc.reason
  BY <1>2 DEF ReasonOf
<1>5. IsFiniteSet(reports)
  BY FS_Singleton, Zenon
<1> HIDE DEF reports
<1>6. WritesMask(n) /\ Uncounted(k, n, Reasons \ {loc.reason})
  BY <1>2, <1>3, <1>4, MarkCounts
<1>7. Grows(k, n)
  BY <1>2, <1>4, <1>5, MarkOK
<1> HIDE DEF n
<1>8. Uncounted(m, k, Reasons \ {loc.reason})
  BY <1>3 DEF Uncounted
<1>9. QED
  BY <1>2, <1>6, <1>7, <1>8, UncountedTransitive DEF n, reports, k, rc

\* dirtyCacheLineAtOffset counts nothing: what it masks are the stores on record.
LEMMA DirtyCounts ==
  ASSUME NEW m, ManagerOK(m), WritesMask(m), NEW o \in Objects, NEW lw,
         NEW p, ObjectOK(p, m, o, lw), NEW W \in SUBSET Worlds,
         NEW x \in Indices, NEW site \in Sites
  PROVE  LET r == DirtyCacheLine(p, m, W, o, x, site)
         IN  WritesMask(r.m) /\ Uncounted(m, r.m, Reasons)
<1> DEFINE prev == GetRootCause(p.pendingRootCauseWrites, W, x)
           loc == Loc(o, site, "PM_Unpersisted")
<1>1. prev \in SUBSET WriteIds(m)
  BY LineAssumption DEF GetRootCause, ObjectOK, CausesOK
<1>2. loc \in Location /\ loc.reason = "PM_Unpersisted"
  BY SiteAssumption DEF Loc, Location, Reasons, Correctness
<1>3. DirtyCacheLine(p, m, W, o, x, site).m = GetRootCauseLocationID(m, loc, prev).mgr
  BY DEF DirtyCacheLine
<1> HIDE DEF prev, loc
<1>4. QED
  BY <1>1, <1>2, <1>3, RegisterCounts

\* persistCacheLineAtOffset counts nothing.
LEMMA PersistCounts ==
  ASSUME NEW m, ManagerOK(m), WritesMask(m), NEW o \in Objects, NEW p,
         NEW x \in Indices, NEW site \in Sites
  PROVE  LET r == PersistCacheLine(p, m, o, x, site)
         IN  WritesMask(r.m) /\ Uncounted(m, r.m, Reasons)
<1> DEFINE loc == Loc(o, site, "PM_UnnecessaryFlush")
<1>1. loc \in Location
  BY SiteAssumption DEF Loc, Location, Reasons, Performance
<1>2. PersistCacheLine(p, m, o, x, site).m = GetRootCauseLocationID(m, loc, {}).mgr
  BY DEF PersistCacheLine
<1>3. {} \in SUBSET WriteIds(m)
  OBVIOUS
<1> HIDE DEF loc
<1>4. QED
  BY <1>1, <1>2, <1>3, RegisterCounts

\* A store counts nothing.
LEMMA StoreCounts ==
  ASSUME IInv, WritesMask(mgr), NEW o \in Objects, NEW span \in Spans, NEW site \in Sites,
         NEW nontemporal \in BOOLEAN
  PROVE  LET r == StoreOp(o, span, site, nontemporal)
         IN  WritesMask(r.m) /\ Uncounted(mgr, r.m, Reasons)
<1> DEFINE lw == lastWriter[o]
           lw1 == WrittenBy(lw, span[1], site)
           lw2 == WrittenBy(lw1, span[2], site)
           d1 == DirtyCacheLine(ps[o], mgr, worlds, o, span[1], site)
           e == DirtyCacheLine(d1.p, d1.m, worlds, o, span[2], site)
           d2 == IF Len(span) = 1 THEN d1 ELSE e
           d3 == PersistCacheLine(d2.p, d2.m, o, span[1], site)
           Good(d) == /\ ManagerOK(d.m) /\ Grows(mgr, d.m)
                      /\ WritesMask(d.m) /\ Uncounted(mgr, d.m, Reasons)
                      /\ \E v \in WriterMap : ObjectOK(d.p, d.m, o, v)
<1>1. span[1] \in Indices /\ (Len(span) # 1 => span[2] \in Indices)
  BY SpanAssumption
<1>2. /\ worlds \in SUBSET Worlds /\ lw \in WriterMap
      /\ ManagerOK(mgr) /\ ObjectOK(ps[o], mgr, o, lw)
  BY DEF IInv, TypeOK, WriterMap
<1>3. lw1 \in WriterMap
  BY <1>1, <1>2, WriterMapType
<1>4. Good(d1)
  <2>1. ManagerOK(d1.m) /\ Grows(mgr, d1.m) /\ ObjectOK(d1.p, d1.m, o, lw1)
    BY <1>1, <1>2, DirtyOK
  <2>2. WritesMask(d1.m) /\ Uncounted(mgr, d1.m, Reasons)
    BY <1>1, <1>2, DirtyCounts
  <2> HIDE DEF d1, lw1
  <2> QED
    BY <1>3, <2>1, <2>2
<1> HIDE DEF d1, lw, lw1
<1>5. Len(span) # 1 => Good(e)
  <2> SUFFICES ASSUME Len(span) # 1 PROVE Good(e)
    OBVIOUS
  <2>1. PICK v \in WriterMap : ObjectOK(d1.p, d1.m, o, v)
    BY <1>4
  <2>2. /\ ManagerOK(e.m) /\ Grows(d1.m, e.m)
        /\ ObjectOK(e.p, e.m, o, WrittenBy(v, span[2], site))
    BY <1>1, <1>2, <1>4, <2>1, DirtyOK
  <2>3. WrittenBy(v, span[2], site) \in WriterMap
    BY <1>1, WriterMapType
  <2>4. WritesMask(e.m) /\ Uncounted(d1.m, e.m, Reasons)
    BY <1>1, <1>2, <1>4, <2>1, DirtyCounts
  <2> HIDE DEF e
  <2>5. Grows(mgr, e.m) /\ Uncounted(mgr, e.m, Reasons)
    BY <1>2, <1>4, <2>2, <2>4, GrowsTransitive, UncountedTransitive
  <2> QED
    BY <2>2, <2>3, <2>4, <2>5
<1> HIDE DEF e
<1>6. Good(d2)
  BY <1>4, <1>5
<1> HIDE DEF d2
<1>7. WritesMask(d3.m) /\ Uncounted(mgr, d3.m, Reasons)
  <2>1. PICK v \in WriterMap : ObjectOK(d2.p, d2.m, o, v)
    BY <1>6
  <2>2. Grows(d2.m, d3.m)
    BY <1>1, <1>6, <2>1, PersistOK
  <2>3. WritesMask(d3.m) /\ Uncounted(d2.m, d3.m, Reasons)
    BY <1>1, <1>6, PersistCounts
  <2> HIDE DEF d3
  <2> QED
    BY <1>6, <2>2, <2>3, UncountedTransitive
<1>8. StoreOp(o, span, site, nontemporal) = IF nontemporal THEN d3 ELSE d2
  BY Zenon DEF StoreOp, d3, d2, d1, e
<1> HIDE DEF d3
<1>9. QED
  BY <1>6, <1>7, <1>8

\* A flush counts a flush or nothing, and leaves nothing for a fence to do only if
\* it has changed nothing.
LEMMA FlushCounts ==
  ASSUME IInv, WritesMask(mgr), NEW o \in Objects, NEW x \in Indices, NEW site \in Sites
  PROVE  LET r == FlushOp(o, x, site)
         IN  /\ WritesMask(r.m)
             /\ Uncounted(mgr, r.m, {"PM_Unpersisted", "PM_UnnecessaryFence"})
             /\ ~CommitNecessary(r.p) => r.p = ps[o]
<1>1. ManagerOK(mgr) /\ ObjectOK(ps[o], mgr, o, lastWriter[o])
  BY DEF IInv
<1>2. CASE MustBePersisted(ps[o].pendingCacheLineUpdates, worlds, x)
  <2> DEFINE reason == IF GetRootCause(ps[o].rootCauseFlushes, worlds, x) = {}
                       THEN "PM_FlushOnUnmodified" ELSE "PM_UnnecessaryFlush"
             loc == Loc(o, site, reason)
             m == MarkFlushAsBug(ps[o], mgr, worlds, o, x, site)
  <2>1. FlushOp(o, x, site) = [p |-> ps[o], m |-> m]
    BY <1>2 DEF FlushOp
  <2>2. loc \in Location /\ loc.reason \in {"PM_FlushOnUnmodified", "PM_UnnecessaryFlush"}
    BY SiteAssumption DEF Loc, Location, Reasons, Performance
  <2> HIDE DEF loc
  <2>3. WritesMask(m) /\ Uncounted(mgr, m, Reasons \ {loc.reason})
    BY <1>1, <2>2, ReportCounts, Zenon DEF MarkFlushAsBug, loc
  <2> HIDE DEF m
  <2>4. Uncounted(mgr, m, {"PM_Unpersisted", "PM_UnnecessaryFence"})
    BY <2>2, <2>3 DEF Uncounted, Reasons, Correctness, Performance
  <2> QED
    BY <2>1, <2>3, <2>4
<1>3. CASE ~MustBePersisted(ps[o].pendingCacheLineUpdates, worlds, x)
  <2> DEFINE r == PersistCacheLine(ps[o], mgr, o, x, site)
             id == GetRootCauseLocationID(mgr, Loc(o, site, "PM_UnnecessaryFlush"), {}).id
  <2>1. FlushOp(o, x, site) = r
    BY <1>3 DEF FlushOp
  <2>2. WritesMask(r.m) /\ Uncounted(mgr, r.m, Reasons)
    BY <1>1, PersistCounts
  <2>3. /\ ps[o].pendingCacheLineUpdates.size \in Nat
        /\ ps[o].cacheLineUpdates.size \in Nat /\ ps[o].pendingRootCauseFlushes.size \in Nat
        /\ ps[o] \in PersistentStateType /\ EpochOK(ps[o])
    BY <1>1 DEF ObjectOK, PersistentStateType, CacheLineList, RootCauseList, UpdateListOf
  <2>4. /\ r.p.pendingCacheLineUpdates.size = ps[o].pendingCacheLineUpdates.size + 1
        /\ r.p.cacheLineUpdates.size = ps[o].cacheLineUpdates.size
    <3>1. r.p = [ps[o] EXCEPT
                  !.pendingCacheLineUpdates = Extend(@, x, Persisted),
                  !.rootCauseFlushes = Extend(@, x, id),
                  !.pendingRootCauseFlushes = Extend(@, x, id),
                  !.pendingRootCauseWrites = Extend(@, x, Null)]
      BY DEF PersistCacheLine
    <3> HIDE DEF r, id
    <3>2. /\ r.p.pendingCacheLineUpdates = Extend(ps[o].pendingCacheLineUpdates, x, Persisted)
          /\ r.p.cacheLineUpdates = ps[o].cacheLineUpdates
      BY <2>3, <3>1 DEF PersistentStateType
    <3>3. \A ul : Extend(ul, x, Persisted).size = ul.size + 1
      BY DEF Extend
    <3> QED
      BY <3>2, <3>3
  <2> HIDE DEF r
  <2>5. CommitNecessary(r.p)
    BY <2>3, <2>4, SMTT(30) DEF CommitNecessary, EpochOK
  <2>6. Uncounted(mgr, r.m, {"PM_Unpersisted", "PM_UnnecessaryFence"})
    BY <2>2 DEF Uncounted, Reasons, Correctness, Performance
  <2> QED
    BY <2>1, <2>2, <2>5, <2>6
<1>4. QED
  BY <1>2, <1>3

\* A fence counts a fence if it is not necessary, and otherwise nothing.
LEMMA FenceCounts ==
  ASSUME NEW p, NEW m, ManagerOK(m), WritesMask(m), NEW site \in Sites
  PROVE  LET n == FenceMgr(p, m, site)
         IN  /\ WritesMask(n) /\ Uncounted(m, n, Reasons \ {"PM_UnnecessaryFence"})
             /\ (\E o \in persistentObjects : CommitNecessary(p[o])) => n = m
<1> DEFINE loc == Loc(NoAlloc, site, "PM_UnnecessaryFence")
<1>1. loc \in Location /\ loc.reason = "PM_UnnecessaryFence"
  BY SiteAssumption DEF Loc, Location, Reasons, Performance
<1>2. Uncounted(m, m, Reasons \ {"PM_UnnecessaryFence"})
  BY DEF Uncounted, Count
<1> HIDE DEF loc
<1>3. QED
  BY <1>1, <1>2, ReportCounts, Zenon DEF FenceMgr, loc

\* A check counts stores, and none if no object has an unpersisted line.
LEMMA ErrorsCount ==
  ASSUME IInv, WritesMask(mgr), NEW objs \in SUBSET Objects
  PROVE  LET n == MarkPersistenceErrors(mgr, objs)
         IN  /\ WritesMask(n) /\ Uncounted(mgr, n, Reasons \ {"PM_Unpersisted"})
             /\ (\A o \in objs : ~HasUnpersisted(ps[o], worlds)) => Uncounted(mgr, n, Reasons)
<1> DEFINE bad == {o \in objs : HasUnpersisted(ps[o], worlds)}
           reports == UNION {{o} \X GetRootCauses(ps[o], worlds) : o \in bad}
           n == MarkAsBugs(mgr, reports)
<1>1. ManagerOK(mgr) /\ worlds \in SUBSET Worlds
  BY DEF IInv, TypeOK
<1>2. \A o \in Objects : GetRootCauses(ps[o], worlds) \subseteq WriteIds(mgr)
  <2> SUFFICES ASSUME NEW o \in Objects PROVE GetRootCauses(ps[o], worlds) \subseteq WriteIds(mgr)
    OBVIOUS
  <2>1. CausesOK(ps[o], mgr, o, lastWriter[o])
    BY DEF IInv, ObjectOK
  <2> QED
    BY <1>1, <2>1, CausesAreWrites
<1>3. reports \subseteq Objects \X WriteIds(mgr)
  BY <1>2, SMTT(30)
<1>4. (\A o \in objs : ~HasUnpersisted(ps[o], worlds)) => reports = {}
  OBVIOUS
<1>5. n = MarkPersistenceErrors(mgr, objs)
  BY DEF MarkPersistenceErrors
<1> HIDE DEF reports
<1>6. \A r \in reports : r[2] \in UsedIds(mgr) /\ ReasonOf(mgr, r[2]) = "PM_Unpersisted"
  BY <1>3 DEF WriteIds
<1>7. WritesMask(n) /\ Uncounted(mgr, n, Reasons \ {"PM_Unpersisted"})
  BY <1>1, <1>6, MarkCounts
<1>8. reports = {} => Uncounted(mgr, n, Reasons)
  <2> SUFFICES ASSUME reports = {} PROVE Uncounted(mgr, n, Reasons)
    OBVIOUS
  <2>1. \A r \in reports : r[2] \in UsedIds(mgr) /\ ReasonOf(mgr, r[2]) = "none"
    OBVIOUS
  <2>2. Uncounted(mgr, n, Reasons \ {"none"})
    BY <1>1, <2>1, MarkCounts
  <2>3. Reasons \ {"none"} = Reasons
    BY DEF Reasons, Correctness, Performance
  <2> HIDE DEF n
  <2> QED
    BY <2>2, <2>3
<1> HIDE DEF n
<1>9. QED
  BY <1>4, <1>5, <1>7, <1>8

FencesUncounted == Uncounted(mgr, mgr', {"PM_UnnecessaryFence"})
StoresUncounted == Uncounted(mgr, mgr', {"PM_Unpersisted"})

\* A step counts a fence only if no line waits for one, and a store only if some
\* line is unpersisted.
LEMMA StepCounts ==
  ASSUME IInv, WritesMask(mgr), [Next]_vars
  PROVE  /\ WritesMask(mgr')
         /\ LineWaits => FencesUncounted
         /\ (\A o \in persistentObjects : ~HasUnpersisted(ps[o], worlds)) => StoresUncounted
<1> DEFINE Goal == /\ WritesMask(mgr')
                   /\ LineWaits => FencesUncounted
                   /\ (\A o \in persistentObjects : ~HasUnpersisted(ps[o], worlds))
                        => StoresUncounted
<1>1. /\ persistentObjects \in SUBSET Objects /\ ManagerOK(mgr)
      /\ ps \in [Objects -> PersistentStateType]
  BY DEF IInv, TypeOK
<1>2. /\ \A R : Uncounted(mgr, mgr', Reasons \ {R}) =>
                  /\ R # "PM_UnnecessaryFence" => FencesUncounted
                  /\ R # "PM_Unpersisted" => StoresUncounted
      /\ Uncounted(mgr, mgr', Reasons) => FencesUncounted /\ StoresUncounted
  BY DEF Uncounted, FencesUncounted, StoresUncounted, Reasons, Correctness, Performance
<1>3. mgr' = mgr => Goal
  BY DEF FencesUncounted, StoresUncounted, Uncounted, Count
<1>4. ASSUME NEW objs \in SUBSET persistentObjects, mgr' = MarkPersistenceErrors(mgr, objs)
      PROVE  Goal
  <2>1. /\ WritesMask(mgr') /\ Uncounted(mgr, mgr', Reasons \ {"PM_Unpersisted"})
        /\ (\A o \in objs : ~HasUnpersisted(ps[o], worlds)) => Uncounted(mgr, mgr', Reasons)
    BY <1>1, <1>4, ErrorsCount
  <2> QED
    BY <1>2, <2>1
<1>5. ASSUME NEW o \in Objects, NEW span \in Spans, NEW site \in Sites,
             NEW nontemporal \in StoreKinds, Store(o, span, site, nontemporal)
      PROVE  Goal
  <2>1. nontemporal \in BOOLEAN /\ mgr' = StoreOp(o, span, site, nontemporal).m
    BY <1>5, SiteAssumption DEF Store
  <2>2. WritesMask(mgr') /\ Uncounted(mgr, mgr', Reasons)
    BY <2>1, StoreCounts
  <2> QED
    BY <1>2, <2>2
<1>6. ASSUME NEW o \in Objects, NEW x \in Indices, NEW site \in Sites, Flush(o, x, site)
      PROVE  Goal
  <2>1. mgr' = FlushOp(o, x, site).m
    BY <1>6 DEF Flush
  <2>2. WritesMask(mgr') /\ Uncounted(mgr, mgr', {"PM_Unpersisted", "PM_UnnecessaryFence"})
    BY <2>1, FlushCounts
  <2> QED
    BY <2>2 DEF Uncounted, FencesUncounted, StoresUncounted
<1>7. ASSUME NEW o \in Objects, NEW x \in Indices, NEW site \in Sites, Clflush(o, x, site)
      PROVE  Goal
  <2> DEFINE r == FlushOp(o, x, site)
             p == [ps EXCEPT ![o] = r.p]
             n == FenceMgr(p, r.m, site)
             kinds == {"PM_Unpersisted", "PM_UnnecessaryFence"}
  <2>1. mgr' = n /\ o \in persistentObjects
    BY <1>7 DEF Clflush
  <2>2. ManagerOK(r.m) /\ Grows(mgr, r.m)
    BY FlushOK
  <2>3. /\ WritesMask(r.m) /\ Uncounted(mgr, r.m, kinds)
        /\ ~CommitNecessary(r.p) => r.p = ps[o]
    BY FlushCounts
  <2> HIDE DEF r
  <2>4. p[o] = r.p /\ (r.p = ps[o] => p = ps)
    BY <1>1
  <2> HIDE DEF p
  <2>5. /\ WritesMask(n) /\ Uncounted(r.m, n, Reasons \ {"PM_UnnecessaryFence"})
        /\ (\E a \in persistentObjects : CommitNecessary(p[a])) => n = r.m
        /\ Grows(r.m, n)
    BY <2>2, <2>3, FenceCounts, FenceOK, Zenon
  <2> HIDE DEF n
  <2>6. StoresUncounted
    <3>1. Uncounted(mgr, r.m, {"PM_Unpersisted"}) /\ Uncounted(r.m, n, {"PM_Unpersisted"})
      BY <2>3, <2>5 DEF Uncounted, Reasons, Correctness, Performance
    <3> QED
      BY <2>1, <2>2, <2>5, <3>1, UncountedTransitive DEF StoresUncounted
  <2>7. ASSUME LineWaits PROVE FencesUncounted
    <3>1. PICK a \in persistentObjects : CommitNecessary(ps[a])
      BY <2>7, InvariantImplies DEF UnnecessaryFenceIsHonest
    <3>2. \E b \in persistentObjects : CommitNecessary(p[b])
      BY <2>1, <2>3, <2>4, <3>1
    <3>3. mgr' = r.m
      BY <2>1, <2>5, <3>2
    <3> QED
      BY <2>3, <3>3 DEF Uncounted, FencesUncounted
  <2> QED
    BY <2>1, <2>5, <2>6, <2>7
<1>8. ASSUME NEW site \in Sites, Fence(site) PROVE Goal
  <2>1. mgr' = FenceMgr(ps, mgr, site)
    BY <1>8 DEF Fence
  <2>2. /\ WritesMask(mgr') /\ Uncounted(mgr, mgr', Reasons \ {"PM_UnnecessaryFence"})
        /\ (\E o \in persistentObjects : CommitNecessary(ps[o])) => mgr' = mgr
    BY <1>1, <2>1, FenceCounts, Zenon
  <2>3. LineWaits => mgr' = mgr
    BY <2>2, InvariantImplies DEF UnnecessaryFenceIsHonest
  <2> QED
    BY <1>2, <1>3, <2>2, <2>3
<1>9. ASSUME NEW o \in Objects, CheckPersisted(o) \/ PopFrame(o) PROVE Goal
  <2>1. {o} \in SUBSET persistentObjects /\ mgr' = MarkPersistenceErrors(mgr, {o})
    BY <1>9 DEF CheckPersisted, PopFrame
  <2> QED
    BY <1>4, <2>1
<1>10. ASSUME ThreadExitCheck \/ Exit \/ Stop PROVE Goal
  <2>1. \E objs \in SUBSET persistentObjects : mgr' = MarkPersistenceErrors(mgr, objs)
    BY <1>10 DEF ThreadExitCheck, Exit, Stop
  <2> QED
    BY <1>4, <2>1
<1>11. ASSUME \/ \E o \in Objects : MarkPersistent(o) \/ UndefineFixedObject(o)
              \/ Branch
              \/ UNCHANGED vars
       PROVE  Goal
  <2>1. mgr' = mgr
    BY <1>11 DEF MarkPersistent, UndefineFixedObject, Branch, vars
  <2> QED
    BY <1>3, <2>1
<1> HIDE DEF Goal
<1>12. Goal
  BY <1>5, <1>6, <1>7, <1>8, <1>9, <1>10, <1>11 DEF Next
<1>13. QED
  BY <1>12 DEF Goal

\* The reports are never false alarms, for any number of objects:
\* executePersistentMemoryFence counts a fence as unnecessary only when no
\* line of any object waits for one, and a store becomes a bug only in a step before
\* which a line was unpersisted.
THEOREM ReportsAreHonest == Spec => FenceReportIsHonest /\ OnlyLossesAreReported
<1> DEFINE Inv == IInv /\ WritesMask(mgr)
<1>1. Init => Inv
  <2> SUFFICES ASSUME Init PROVE WritesMask(mgr)
    BY InitOK
  <2> QED
    BY SMTT(90) DEF Init, NewManager, WritesMask, UsedIds
<1>2. Inv /\ [Next]_vars => Inv'
  BY NextOK, StepCounts
<1>3. Inv /\ [Next]_vars =>
        [(\E id \in UsedIds(mgr') :
            /\ ReasonOf(mgr', id) = "PM_UnnecessaryFence"
            /\ mgr'.occurences[id] > (IF id \in UsedIds(mgr) THEN mgr.occurences[id] ELSE 0))
         => ~LineWaits]_vars
  <2> SUFFICES ASSUME Inv, [Next]_vars, LineWaits, NEW id \in UsedIds(mgr'),
                      ReasonOf(mgr', id) = "PM_UnnecessaryFence",
                      mgr'.occurences[id] > Count(mgr, id)
               PROVE  FALSE
    BY DEF Count
  <2>1. ManagerType(mgr')
    BY NextOK DEF IInv, ManagerOK
  <2>2. mgr'.occurences[id] \in Nat
    BY <2>1 DEF ManagerType
  <2>3. mgr'.occurences[id] = Count(mgr, id)
    BY StepCounts DEF FencesUncounted, Uncounted
  <2> QED
    BY <2>2, <2>3
<1>4. Inv /\ [Next]_vars =>
        [(\E id \in mgr'.buggyIds \ mgr.buggyIds : ReasonOf(mgr', id) = "PM_Unpersisted")
         => \E o \in persistentObjects : HasUnpersisted(ps[o], worlds)]_vars
  <2> SUFFICES ASSUME Inv, [Next]_vars, NEW id \in mgr'.buggyIds, id \notin mgr.buggyIds,
                      ReasonOf(mgr', id) = "PM_Unpersisted",
                      \A o \in persistentObjects : ~HasUnpersisted(ps[o], worlds)
               PROVE  FALSE
    OBVIOUS
  <2>1. /\ ManagerType(mgr) /\ BugsOccurred(mgr)
        /\ ManagerType(mgr') /\ BugsOccurred(mgr')
    BY NextOK DEF IInv, ManagerOK
  <2>2. id \in UsedIds(mgr') /\ mgr'.occurences[id] > 0
    BY <2>1 DEF BugsOccurred
  <2>3. mgr'.occurences[id] = Count(mgr, id)
    BY <2>2, StepCounts DEF StoresUncounted, Uncounted
  <2>4. id \in UsedIds(mgr) => mgr.occurences[id] \in Nat /\ ~(mgr.occurences[id] > 0)
    BY <2>1 DEF BugsOccurred, ManagerType
  <2> QED
    BY <2>2, <2>3, <2>4 DEF Count
<1>5. QED
  BY <1>1, <1>2, <1>3, <1>4, PTL DEF Spec, FenceReportIsHonest, OnlyLossesAreReported

\* Every line that is lost when a path ends is among the bugs that
\* terminateStateEarlyPmem reports: its search over persistentObjects misses none.
THEOREM ExitFindsEveryLoss == Spec => []ExitReportsEveryLoss
  BY PersistenceTracking, PTL

\* A flush is reported as one of a line never modified only if no store to that line
\* was made on the path, in any world.
THEOREM CleanFlushesAreClean == Spec => []NeverModifiedIsHonest
  BY PersistenceTracking, PTL

\* A store becomes a bug only in a step before which some line was unpersisted:
\* getRootCause never blames a store whose lines are all durable.
THEOREM LossesAreReal == Spec => OnlyLossesAreReported
  BY ReportsAreHonest
=============================================================================

--------------------------- MODULE RootCauseLemmas ---------------------------
(***************************************************************************)
(* What the operations of the root-cause table do, for any set of          *)
(* locations and any hash, and the invariant they keep.                    *)
(***************************************************************************)
EXTENDS RootCause, FiniteSetTheorems, WellFoundedInduction, TLAPS

\* A nonempty set of naturals has a least element.
LEMMA LeastNatural ==
  ASSUME NEW S \in SUBSET Nat, S # {}
  PROVE  \E n \in S : \A k \in S : n <= k
<1> DEFINE R == {ss \in Nat \X Nat : ss[1] < ss[2]}
<1>1. IsWellFoundedOn(R, Nat)
  BY NatLessThanWellFounded, Zenon DEF OpToRel
<1> HIDE DEF R
<1>2. PICK n \in S : \A k \in S : ~ (<<k, n>> \in R)
  BY <1>1, WFMin, Zenon
<1>3. \A k \in S : ~ (k < n)
  BY <1>2, Zenon DEF R
<1>4. QED
  BY <1>3

\* getNewId returns an id that no location uses, and never the null id.
LEMMA GetNewIdIsFresh ==
  ASSUME NEW m, ManagerType(m), NEW loc \in Location
  PROVE  GetNewId(m, loc) \in Nat \ ({Null} \cup UsedIds(m))
<1> DEFINE h == Hash(loc)
           n == Cardinality(UsedIds(m))
           free == (h .. h + n) \ UsedIds(m)
<1>1. h \in Nat \ {0} /\ n \in Nat /\ IsFiniteSet(UsedIds(m))
  BY HashAssumption, FS_CardinalityType DEF ManagerType
<1>2. free # {}
  <2> SUFFICES ASSUME (h .. h + n) \subseteq UsedIds(m) PROVE FALSE
    OBVIOUS
  <2>1. Cardinality(h .. h + n) = n + 1
    BY <1>1, FS_Interval
  <2>2. Cardinality(h .. h + n) <= n
    BY <1>1, FS_Subset
  <2> QED
    BY <1>1, <2>1, <2>2
<1>3. free \in SUBSET Nat
  BY <1>1
<1>4. \E id \in free : \A other \in free : id <= other
  BY <1>2, <1>3, LeastNatural, Zenon
<1>5. GetNewId(m, loc) \in free
  BY <1>4 DEF GetNewId
<1>6. QED
  BY <1>1, <1>5 DEF Null

\* getAllMaskedIDs returns ids in use, the given ones among them, and with an
\* id all that it masks.
LEMMA GetAllMaskedIDsCloses ==
  ASSUME NEW m, ManagerType(m), NEW ids \in SUBSET UsedIds(m)
  PROVE  LET all == GetAllMaskedIDs(m, ids)
         IN  /\ all \subseteq UsedIds(m)
             /\ ids \subseteq all
             /\ \A i \in all : m.maskedRoots[i] \subseteq all
<1> DEFINE Closed(S) == \A i \in S : m.maskedRoots[i] \subseteq S
           all == GetAllMaskedIDs(m, ids)
<1>1. \A i : i \in all <=> /\ i \in UsedIds(m)
                          /\ \A S \in SUBSET UsedIds(m) :
                               (ids \subseteq S /\ Closed(S)) => i \in S
  BY DEF GetAllMaskedIDs
<1>2. \A i \in UsedIds(m) : m.maskedRoots[i] \subseteq UsedIds(m)
  BY DEF ManagerType
<1>3. ASSUME NEW i \in all PROVE m.maskedRoots[i] \subseteq all
  <2> SUFFICES ASSUME NEW j \in m.maskedRoots[i], NEW S \in SUBSET UsedIds(m),
                      ids \subseteq S, Closed(S)
               PROVE  j \in S
    BY <1>1, <1>2, Zenon
  <2>1. i \in S
    BY <1>1, Zenon
  <2> QED
    BY <2>1
<1>4. QED
  BY <1>1, <1>3, Zenon

(***************************************************************************)
(* The inductive invariant of the manager.                                 *)
(***************************************************************************)
BugsAreClosed(m) == \A i \in m.buggyIds : m.maskedRoots[i] \subseteq m.buggyIds

ManagerOK(m) ==
  /\ ManagerType(m)
  /\ UniqueIds(m)
  /\ FlatMasks(m)
  /\ AcyclicMasks(m)
  /\ SymmetricMasks(m)
  /\ BugsOccurred(m)
  /\ BugsAreClosed(m)

\* n knows every location of m under the same id, and has no other bugs.
Grows(m, n) ==
  /\ UsedIds(m) \subseteq UsedIds(n)
  /\ \A i \in UsedIds(m) : n.idToRoot[i] = m.idToRoot[i]
  /\ m.buggyIds \subseteq n.buggyIds
  /\ \A i \in UsedIds(m) : n.occurences[i] >= m.occurences[i]

\* The empty manager that the executor starts with is consistent.
LEMMA NewManagerOK == ManagerOK(NewManager)
<1> DEFINE m == NewManager
<1>1. UsedIds(m) = {} /\ DOMAIN m.rootToId = {}
  BY DEF NewManager, UsedIds
<1>2. ManagerType(m)
  BY <1>1, FS_EmptySet DEF ManagerType, NewManager
<1>3. UniqueIds(m) /\ FlatMasks(m) /\ AcyclicMasks(m) /\ SymmetricMasks(m)
  BY <1>1 DEF UniqueIds, FlatMasks, AcyclicMasks, SymmetricMasks
<1>4. BugsOccurred(m) /\ BugsAreClosed(m)
  BY <1>1 DEF BugsOccurred, BugsAreClosed, NewManager
<1>5. QED
  BY <1>2, <1>3, <1>4 DEF ManagerOK

\* Registering a location, with the writes it may mask, keeps the invariant:
\* the location is known under the id returned, and nothing else changes.
LEMMA RegisterOK ==
  ASSUME NEW m, ManagerOK(m), NEW loc \in Location, NEW ids \in SUBSET UsedIds(m)
  PROVE  LET r == GetRootCauseLocationID(m, loc, ids)
         IN  /\ ManagerOK(r.mgr)
             /\ Grows(m, r.mgr)
             /\ r.mgr.buggyIds = m.buggyIds
             /\ r.mgr.totalOccurences = m.totalOccurences
             /\ r.id \in UsedIds(r.mgr)
             /\ r.mgr.idToRoot[r.id] = loc
<1> DEFINE r == GetRootCauseLocationID(m, loc, ids)
           n == r.mgr
           id == GetNewId(m, loc)
           masked == GetAllMaskedIDs(m, ids)
           used == UsedIds(m)
<1>1. CASE loc \in DOMAIN m.rootToId
  <2>1. r = [id |-> m.rootToId[loc], mgr |-> m]
    BY <1>1 DEF GetRootCauseLocationID
  <2>2. m.rootToId[loc] \in UsedIds(m)
    BY <1>1 DEF ManagerOK, ManagerType
  <2>3. m.idToRoot[m.rootToId[loc]] = loc
    BY <1>1 DEF ManagerOK, UniqueIds
  <2>4. Grows(m, m)
    BY SMTT(30) DEF Grows, ManagerOK, ManagerType
  <2> QED
    BY <2>1, <2>2, <2>3, <2>4
<1>2. CASE loc \notin DOMAIN m.rootToId
  <2>1. id \in Nat /\ id # Null /\ id \notin used
    BY GetNewIdIsFresh DEF ManagerOK
  <2>2. /\ masked \subseteq used
        /\ \A i \in masked : m.maskedRoots[i] \subseteq masked
    BY GetAllMaskedIDsCloses DEF ManagerOK
  <2> HIDE DEF id, masked
  <2>3. /\ DOMAIN m.idToRoot = used
        /\ DOMAIN m.maskedRoots = used
        /\ DOMAIN m.maskingRoots = used
        /\ DOMAIN m.occurences = used
    BY DEF ManagerOK, ManagerType, UsedIds
  <2>4. /\ r.id = id
        /\ n = [m EXCEPT
                 !.rootToId = With(@, loc, id),
                 !.idToRoot = With(@, id, loc),
                 !.maskedRoots = With(@, id, masked),
                 !.maskingRoots =
                    With([i \in DOMAIN @ |-> IF i \in masked THEN @[i] \cup {id}
                                             ELSE @[i]], id, {}),
                 !.occurences = With(@, id, 0)]
    BY <1>2 DEF GetRootCauseLocationID, id, masked
  <2> HIDE DEF r
  <2> DEFINE marks == [i \in used |-> IF i \in masked THEN m.maskingRoots[i] \cup {id}
                                      ELSE m.maskingRoots[i]]
  <2>5. /\ n \in [rootToId : {With(m.rootToId, loc, id)},
                   idToRoot : {With(m.idToRoot, id, loc)},
                   maskedRoots : {With(m.maskedRoots, id, masked)},
                   maskingRoots : {With(marks, id, {})},
                   occurences : {With(m.occurences, id, 0)}, totalOccurences : Nat,
                   buggyIds : SUBSET used, crtOccurences : Nat,
                   perfOccurences : Nat, crtUniq : Nat, perfUniq : Nat]
        /\ n.buggyIds = m.buggyIds
        /\ n.totalOccurences = m.totalOccurences
    <3> DEFINE a == With(m.rootToId, loc, id)
               b == With(m.idToRoot, id, loc)
               c == With(m.maskedRoots, id, masked)
               d == With(marks, id, {})
               e == With(m.occurences, id, 0)
    <3>1. n = [m EXCEPT !.rootToId = a, !.idToRoot = b, !.maskedRoots = c,
                        !.maskingRoots = d, !.occurences = e]
      BY <2>3, <2>4
    <3>2. ManagerType(m)
      BY DEF ManagerOK
    <3> HIDE DEF a, b, c, d, e, n
    <3>3. /\ n \in [rootToId : {a}, idToRoot : {b}, maskedRoots : {c},
                     maskingRoots : {d}, occurences : {e}, totalOccurences : Nat,
                     buggyIds : SUBSET UsedIds(m), crtOccurences : Nat,
                     perfOccurences : Nat, crtUniq : Nat, perfUniq : Nat]
          /\ n.buggyIds = m.buggyIds
          /\ n.totalOccurences = m.totalOccurences
      BY <3>1, <3>2, Zenon DEF ManagerType
    <3>4. QED
      BY <3>3, Zenon DEF a, b, c, d, e
  <2> HIDE DEF n
  <2>6. /\ n.rootToId = With(m.rootToId, loc, id)
        /\ n.idToRoot = With(m.idToRoot, id, loc)
        /\ n.maskedRoots = With(m.maskedRoots, id, masked)
        /\ n.maskingRoots = With(marks, id, {})
        /\ n.occurences = With(m.occurences, id, 0)
        /\ UsedIds(n) = used \cup {id}
    BY <2>3, <2>5, Zenon DEF UsedIds, With
  <2>7. ManagerType(n)
    <3>1. n.rootToId \in [DOMAIN n.rootToId -> UsedIds(n)]
      BY <2>6 DEF With, ManagerOK, ManagerType
    <3>2. n.idToRoot \in [UsedIds(n) -> Location]
      BY <2>3, <2>6 DEF With, ManagerOK, ManagerType
    <3>3. n.maskedRoots \in [UsedIds(n) -> SUBSET UsedIds(n)]
      BY <2>2, <2>3, <2>6 DEF With, ManagerOK, ManagerType
    <3>4. n.maskingRoots \in [UsedIds(n) -> SUBSET UsedIds(n)]
      BY <2>3, <2>6 DEF With, ManagerOK, ManagerType
    <3>5. n.occurences \in [UsedIds(n) -> Nat]
      BY <2>3, <2>6 DEF With, ManagerOK, ManagerType
    <3>6. IsFiniteSet(UsedIds(n))
      <4>1. IsFiniteSet(used)
        BY DEF ManagerOK, ManagerType
      <4>2. UsedIds(n) = used \cup {id}
        BY <2>6
      <4> QED
        BY <4>1, <4>2, FS_AddElement
    <3>7. UsedIds(n) \subseteq Nat \ {Null}
      BY <2>1, <2>6 DEF ManagerOK, ManagerType
    <3>8. n.buggyIds \in SUBSET UsedIds(n)
      BY <2>5, <2>6
    <3> QED
      BY <2>5, <3>1, <3>2, <3>3, <3>4, <3>5, <3>6, <3>7, <3>8 DEF ManagerType
  <2>8. UniqueIds(n)
    BY <1>2, <2>1, <2>3, <2>6 DEF UniqueIds, With, ManagerOK, ManagerType
  <2>9. /\ n.maskedRoots[id] = masked
        /\ \A i \in used : n.maskedRoots[i] = m.maskedRoots[i]
        /\ \A i \in used : m.maskedRoots[i] \subseteq used
    BY <2>1, <2>3, <2>6 DEF With, ManagerOK, ManagerType
  <2>10. FlatMasks(n) /\ AcyclicMasks(n)
    BY <2>1, <2>2, <2>6, <2>9, Zenon DEF FlatMasks, AcyclicMasks, ManagerOK
  <2>11. SymmetricMasks(n)
    <3>1. /\ n.maskingRoots[id] = {}
          /\ \A i \in used : n.maskingRoots[i] =
                IF i \in masked THEN m.maskingRoots[i] \cup {id} ELSE m.maskingRoots[i]
      BY <2>1, <2>6 DEF With
    <3>2. \A i \in used : m.maskingRoots[i] \subseteq used
      BY DEF ManagerOK, ManagerType
    <3> HIDE DEF marks
    <3>3. \A i, j \in used : j \in m.maskedRoots[i] <=> i \in m.maskingRoots[j]
      BY DEF SymmetricMasks, ManagerOK
    <3> SUFFICES ASSUME NEW i \in used \cup {id}, NEW j \in used \cup {id}
                 PROVE  j \in n.maskedRoots[i] <=> i \in n.maskingRoots[j]
      BY <2>6 DEF SymmetricMasks
    <3>4. CASE i = id
      BY <2>1, <2>2, <2>9, <3>1, <3>2, <3>4, Zenon
    <3>5. CASE i \in used /\ j = id
      BY <2>1, <2>9, <3>1, <3>5
    <3>6. CASE i \in used /\ j \in used
      <4>1. i \in n.maskingRoots[j] <=> i \in m.maskingRoots[j]
        BY <2>1, <3>1, <3>6, Zenon
      <4> QED
        BY <2>9, <3>3, <3>6, <4>1
    <3> QED
      BY <3>4, <3>5, <3>6
  <2>12. /\ n.occurences[id] = 0
         /\ \A i \in used : n.occurences[i] = m.occurences[i] /\ m.occurences[i] \in Nat
    BY <2>1, <2>3, <2>6 DEF With, ManagerOK, ManagerType
  <2>13. BugsOccurred(n) /\ BugsAreClosed(n)
    BY <2>1, <2>5, <2>6, <2>9, <2>12 DEF BugsOccurred, BugsAreClosed, ManagerOK
  <2>14. Grows(m, n)
    BY <2>1, <2>3, <2>5, <2>6, <2>12 DEF Grows, With
  <2>15. n.idToRoot[id] = loc
    BY <2>6 DEF With
  <2> QED
    BY <2>4, <2>5, <2>6, <2>7, <2>8, <2>10, <2>11, <2>13, <2>14, <2>15, Zenon DEF ManagerOK, n, r
<1>3. QED
  BY <1>1, <1>2

\* markAsBug, for a finite set of reports of known ids, keeps the invariant, and
\* the reported ids and all that they mask are the new bugs.
LEMMA MarkOK ==
  ASSUME NEW m, ManagerOK(m), NEW reports, IsFiniteSet(reports),
         \A r \in reports : r[2] \in UsedIds(m)
  PROVE  LET n == MarkAsBugs(m, reports)
         IN  /\ ManagerOK(n)
             /\ Grows(m, n)
             /\ UsedIds(n) = UsedIds(m)
             /\ n.idToRoot = m.idToRoot
             /\ \A i : i \in n.buggyIds <=>
                   \/ i \in m.buggyIds
                   \/ \E r \in reports : i = r[2] \/ i \in m.maskedRoots[r[2]]
<1> DEFINE used == UsedIds(m)
           n == MarkAsBugs(m, reports)
           Marks(i) == {r \in reports : i = r[2] \/ i \in m.maskedRoots[r[2]]}
           hit == {i \in used : Marks(i) # {}}
           Of(kind) == {i \in hit : ReasonOf(m, i) \in kind}
           Marked(kind) == {p \in Of(kind) \X reports : p[2] \in Marks(p[1])}
           New(kind) == {i \in Of(kind) : m.occurences[i] = 0}
           card(i) == Cardinality(Marks(i))
           counts == [i \in used |-> m.occurences[i] + card(i)]
<1>1. ManagerType(m) /\ IsFiniteSet(used)
  BY DEF ManagerOK, ManagerType
<1>2. ASSUME NEW kind
      PROVE  Cardinality(Marked(kind)) \in Nat /\ Cardinality(New(kind)) \in Nat
  <2>1. IsFiniteSet(used \X reports)
    BY <1>1, FS_Product
  <2>2. Marked(kind) \in SUBSET (used \X reports)
    OBVIOUS
  <2>3. New(kind) \in SUBSET used
    OBVIOUS
  <2> QED
    BY <1>1, <2>1, <2>2, <2>3, FS_Subset, FS_CardinalityType
<1>3. /\ DOMAIN m.occurences = used
      /\ m.occurences \in [used -> Nat]
  BY <1>1 DEF ManagerType
<1> DEFINE t1 == m.totalOccurences + Cardinality(Marked(Reasons))
           t2 == m.crtOccurences + Cardinality(Marked(Correctness))
           t3 == m.perfOccurences + Cardinality(Marked(Performance))
           t4 == m.crtUniq + Cardinality(New(Correctness))
           t5 == m.perfUniq + Cardinality(New(Performance))
           bugs == m.buggyIds \cup hit
<1>4. n = [m EXCEPT !.occurences = counts, !.totalOccurences = t1, !.buggyIds = bugs,
                    !.crtOccurences = t2, !.perfOccurences = t3,
                    !.crtUniq = t4, !.perfUniq = t5]
  BY <1>3 DEF MarkAsBugs
<1>5. t1 \in Nat /\ t2 \in Nat /\ t3 \in Nat /\ t4 \in Nat /\ t5 \in Nat
  <2>1. /\ m.totalOccurences \in Nat /\ m.crtOccurences \in Nat
        /\ m.perfOccurences \in Nat /\ m.crtUniq \in Nat /\ m.perfUniq \in Nat
    BY <1>1 DEF ManagerType
  <2> HIDE DEF Marked, New
  <2> QED
    BY <1>2, <2>1
<1>6. /\ hit \subseteq used
      /\ \A i : i \in hit <=> \E r \in reports : i = r[2] \/ i \in m.maskedRoots[r[2]]
  BY <1>1 DEF ManagerType
<1>7. \A i \in used : card(i) \in Nat /\ (card(i) > 0 <=> i \in hit)
  <2> SUFFICES ASSUME NEW i \in used PROVE card(i) \in Nat /\ (card(i) > 0 <=> i \in hit)
    OBVIOUS
  <2>1. card(i) \in Nat /\ (card(i) = 0 <=> Marks(i) = {})
    <3>1. Marks(i) \in SUBSET reports
      OBVIOUS
    <3>2. IsFiniteSet(Marks(i))
      BY <3>1, FS_Subset
    <3> HIDE DEF Marks
    <3> QED
      BY <3>2, FS_CardinalityType, FS_EmptySet
  <2>2. i \in hit <=> Marks(i) # {}
    BY Zenon
  <2> HIDE DEF card, hit, Marks
  <2> QED
    BY <2>1, <2>2
<1> HIDE DEF n, t1, t2, t3, t4, t5, hit, card
<1>8. /\ counts \in [used -> Nat]
      /\ \A i \in used : /\ counts[i] >= m.occurences[i]
                         /\ counts[i] > 0 <=> i \in hit \/ m.occurences[i] > 0
  BY <1>3, <1>7
<1> HIDE DEF counts, bugs
<1>9. /\ n \in [rootToId : {m.rootToId}, idToRoot : {m.idToRoot},
                  maskedRoots : {m.maskedRoots}, maskingRoots : {m.maskingRoots},
                  occurences : {counts}, totalOccurences : Nat,
                  buggyIds : {bugs}, crtOccurences : Nat,
                  perfOccurences : Nat, crtUniq : Nat, perfUniq : Nat]
       /\ UsedIds(n) = used
  BY <1>1, <1>4, <1>5, Zenon DEF ManagerType, UsedIds
<1> USE DEF bugs
<1>10. ManagerType(n)
  BY <1>1, <1>6, <1>8, <1>9 DEF ManagerType
<1>11. UniqueIds(n) /\ FlatMasks(n) /\ AcyclicMasks(n) /\ SymmetricMasks(n)
  BY <1>9 DEF ManagerOK, UniqueIds, FlatMasks, AcyclicMasks, SymmetricMasks
<1>12. BugsOccurred(n)
  <2>1. m.buggyIds = {i \in used : m.occurences[i] > 0}
    BY DEF ManagerOK, BugsOccurred
  <2>2. n.buggyIds = m.buggyIds \cup hit /\ n.occurences = counts /\ UsedIds(n) = used
    BY <1>9
  <2>3. \A i : i \in n.buggyIds <=> i \in used /\ n.occurences[i] > 0
    BY <1>6, <1>8, <2>1, <2>2
  <2>4. \A i \in n.buggyIds : i \in {j \in UsedIds(n) : n.occurences[j] > 0}
    BY <2>2, <2>3
  <2>5. \A i \in {j \in UsedIds(n) : n.occurences[j] > 0} : i \in n.buggyIds
    BY <2>2, <2>3
  <2>6. QED
    BY <2>4, <2>5, Zenon DEF BugsOccurred
<1>13. BugsAreClosed(n)
  BY <1>1, <1>6, <1>9 DEF ManagerOK, BugsAreClosed, FlatMasks, ManagerType
<1>14. Grows(m, n)
  BY <1>8, <1>9 DEF Grows
<1>15. QED
  BY <1>6, <1>9, <1>10, <1>11, <1>12, <1>13, <1>14 DEF ManagerOK, n
=============================================================================

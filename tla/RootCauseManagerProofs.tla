----------------------- MODULE RootCauseManagerProofs -----------------------
(***************************************************************************)
(* The invariants of the root-cause table, proved for every sequence of    *)
(* calls.                                                                  *)
(***************************************************************************)
EXTENDS RootCauseManager, RootCauseLemmas

\* Every call keeps the invariant of the table and forgets nothing.
LEMMA NextKeepsManager ==
  ASSUME ManagerOK(mgr), [Next]_vars
  PROVE  ManagerOK(mgr') /\ (mgr' = mgr \/ Grows(mgr, mgr'))
<1>1. ASSUME NEW loc \in Locations, NEW prev \in SUBSET Writes, RegisterWrite(loc, prev)
      PROVE  ManagerOK(mgr') /\ Grows(mgr, mgr')
  <2>1. loc \in Location /\ prev \in SUBSET UsedIds(mgr)
    BY LocationsAssumption DEF Writes
  <2>2. QED
    BY <1>1, <2>1, RegisterOK DEF RegisterWrite
<1>2. ASSUME NEW loc \in Locations, RegisterOther(loc)
      PROVE  ManagerOK(mgr') /\ Grows(mgr, mgr')
  <2>1. loc \in Location /\ {} \in SUBSET UsedIds(mgr)
    BY LocationsAssumption
  <2>2. QED
    BY <1>2, <2>1, RegisterOK DEF RegisterOther
<1>3. ASSUME NEW id \in UsedIds(mgr), MarkAsBug(id)
      PROVE  ManagerOK(mgr') /\ Grows(mgr, mgr')
  <2> DEFINE reports == {<<NoAlloc, id>>}
  <2>1. IsFiniteSet(reports)
    BY FS_Singleton, Zenon
  <2>2. \A r \in reports : r[2] \in UsedIds(mgr)
    OBVIOUS
  <2>3. mgr' = MarkAsBugs(mgr, reports)
    BY <1>3 DEF MarkAsBug
  <2> HIDE DEF reports
  <2>4. QED
    BY <2>1, <2>2, <2>3, MarkOK
<1>4. QED
  BY <1>1, <1>2, <1>3 DEF Next, vars

\* The table of root causes is consistent in every reachable state, whatever
\* the hashes: ids are unique, masked sets are flat, acyclic and converse to the
\* masking sets, and the bugs are closed under masking.
THEOREM ManagerIsConsistent ==
  Spec => [](TypeOK /\ MaskingIsConsistent /\ BuggyIffOccurred)
<1>1. Init => ManagerOK(mgr)
  BY NewManagerOK DEF Init
<1>2. ManagerOK(mgr) /\ [Next]_vars => ManagerOK(mgr)'
  BY NextKeepsManager
<1>3. ManagerOK(mgr) => TypeOK /\ MaskingIsConsistent /\ BuggyIffOccurred
  BY DEF ManagerOK, TypeOK, MaskingIsConsistent, BuggyIffOccurred,
         BugsAreClosed
<1>4. QED
  BY <1>1, <1>2, <1>3, PTL DEF Spec

\* A location keeps its id, a bug stays a bug and its count never goes down.
THEOREM ManagerReportsAreStable == Spec => ReportsAreStable
<1>1. Init => ManagerOK(mgr)
  BY NewManagerOK DEF Init
<1>2. ManagerOK(mgr) /\ [Next]_vars => ManagerOK(mgr)'
  BY NextKeepsManager
<1>3. ManagerOK(mgr) /\ [Next]_vars =>
        [\A i \in UsedIds(mgr) : /\ i \in UsedIds(mgr')
                                 /\ mgr'.idToRoot[i] = mgr.idToRoot[i]
                                 /\ mgr'.occurences[i] >= mgr.occurences[i]]_vars
  <2>1. ManagerOK(mgr) => Grows(mgr, mgr)
    BY DEF Grows, ManagerOK, ManagerType
  <2>2. QED
    BY <2>1, NextKeepsManager DEF Grows
<1>4. QED
  BY <1>1, <1>2, <1>3, PTL DEF Spec, ReportsAreStable
=============================================================================

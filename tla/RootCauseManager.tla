-------------------------- MODULE RootCauseManager --------------------------
(***************************************************************************)
(* The root-cause table on its own, driven by every call the rest of the   *)
(* executor can make: a store registers its location with the writes it    *)
(* may mask, a flush, fence or custom checker registers one without, and a *)
(* registered location is marked as a bug.                                 *)
(***************************************************************************)
EXTENDS RootCause

CONSTANTS Locations,       \* the locations the program reaches
          MaxOccurences    \* bound on the bugs counted

ASSUME LocationsAssumption == Locations \subseteq Location
ASSUME OccurencesAssumption == MaxOccurences \in Nat

VARIABLE mgr     \* the manager

vars == <<mgr>>

\* The writes a store may mask: what pendingRootCauseWrites can hold.
Writes == {i \in UsedIds(mgr) : ReasonOf(mgr, i) = "PM_Unpersisted"}

Init == mgr = NewManager

RegisterWrite(loc, prev) ==
  /\ loc.reason = "PM_Unpersisted"
  /\ mgr' = GetRootCauseLocationID(mgr, loc, prev).mgr

RegisterOther(loc) ==
  /\ loc.reason # "PM_Unpersisted"
  /\ mgr' = GetRootCauseLocationID(mgr, loc, {}).mgr

\* Faults: only the id itself is counted in the total; the count starts again.
MarkAsBugCountsOnce(id) ==
  /\ mgr.totalOccurences < MaxOccurences
  /\ mgr' = [MarkAsBugs(mgr, {<<NoAlloc, id>>}) EXCEPT
               !.totalOccurences = mgr.totalOccurences + 1]

MarkAsBugForgetsOthers(id) ==
  /\ mgr.totalOccurences < MaxOccurences
  /\ mgr' = [MarkAsBugs(mgr, {<<NoAlloc, id>>}) EXCEPT
               !.occurences = [i \in DOMAIN @ |-> IF i = id THEN @[i] ELSE 0]]

MarkAsBug(id) ==
  /\ mgr.totalOccurences < MaxOccurences
  /\ mgr' = MarkAsBugs(mgr, {<<NoAlloc, id>>})

Next ==
  \/ \E loc \in Locations : \E prev \in SUBSET Writes : RegisterWrite(loc, prev)
  \/ \E loc \in Locations : RegisterOther(loc)
  \/ \E id \in UsedIds(mgr) : MarkAsBug(id)

Spec == Init /\ [][Next]_vars

-----------------------------------------------------------------------------
(* Properties.                                                             *)

\* Type correctness: the tables of the manager range over the ids in use.
TypeOK == ManagerType(mgr)

\* Two locations never share an id although their hashes may collide (getNewId), and no
\* id is orphaned ("our two maps got out of sync!"); the masked sets are flat ("each id
\* in ids should be flattened already"), so that markAsBug, which looks one level deep,
\* misses nothing; no write masks itself, directly or through others, so that
\* getAllMaskedIDs, which recurses without a visited set, terminates; and "May be
\* masking" and "May be masked by" in the report are converse.
MaskingIsConsistent ==
  UniqueIds(mgr) /\ FlatMasks(mgr) /\ AcyclicMasks(mgr) /\ SymmetricMasks(mgr)

\* The bugs of the report (buggyIds) are the locations that have occurred, and
\* with a write every write it masks is reported.
BuggyIffOccurred ==
  /\ BugsOccurred(mgr)
  /\ \A i \in mgr.buggyIds : mgr.maskedRoots[i] \subseteq mgr.buggyIds

\* A bug stays a bug with its location, and counts never go down: the manager
\* is shared by all paths and clear() keeps everything.
ReportsAreStable ==
  [][ \A i \in UsedIds(mgr) :
        /\ i \in UsedIds(mgr')
        /\ mgr'.idToRoot[i] = mgr.idToRoot[i]
        /\ mgr'.occurences[i] >= mgr.occurences[i] ]_vars
=============================================================================

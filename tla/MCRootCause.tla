----------------------------- MODULE MCRootCause -----------------------------
(***************************************************************************)
(* A small instance of RootCauseManager.  Every location has the same      *)
(* hash, so every id but the first is found by incrementing.               *)
(***************************************************************************)
EXTENDS RootCauseManager, FiniteSetsExt, TLC

CONSTANTS s1, s2, s3, f1  \* three stores and a fence

MCHash(loc) == 1

MCLocations ==
  [alloc : {NoAlloc}, inst : {s1, s2, s3}, reason : {"PM_Unpersisted"}]
  \cup [alloc : {NoAlloc}, inst : {f1}, reason : {"PM_UnnecessaryFence"}]

\* The stores are interchangeable: their hashes are equal.
StoreSymmetry == Permutations({s1, s2, s3})

\* The statistics, the manager's own total and the per-location counts are
\* updated in different statements of markAsBug and must tell the same story, and
\* with a write every write that it masks is reported.
StatsAgree ==
  LET OfKind(kind) == {i \in mgr.buggyIds : ReasonOf(mgr, i) \in kind}
      Occurences(S) == MapThenSumSet(LAMBDA i : mgr.occurences[i], S)
  IN  /\ BuggyIffOccurred
      /\ mgr.totalOccurences = Occurences(mgr.buggyIds)
      /\ mgr.crtOccurences = Occurences(OfKind(Correctness))
      /\ mgr.perfOccurences = Occurences(OfKind(Performance))
      /\ mgr.crtUniq = Cardinality(OfKind(Correctness))
      /\ mgr.perfUniq = Cardinality(OfKind(Performance))
=============================================================================

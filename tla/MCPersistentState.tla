-------------------------- MODULE MCPersistentState --------------------------
(***************************************************************************)
(* A small instance of PersistentState: two lines, two worlds, the two     *)
(* concrete index expressions and a symbolic one that is line 0 in one     *)
(* world and line 1 in the other, a store that straddles both lines, and   *)
(* two program locations, so that a store can mask another.                *)
(***************************************************************************)
EXTENDS PersistentState

MCLineOf(x, w) == IF x = "sym" THEN (IF w = "w0" THEN 0 ELSE 1)
                  ELSE IF x = "c0" THEN 0 ELSE 1

MCSpans == {<<"c0">>, <<"c0", "c1">>, <<"sym">>}

\* One hash for each location.
MCHash(loc) ==
  10 * (CHOOSE n \in 1 .. 6 : loc.reason = <<"PM_Unpersisted", "PM_UnnecessaryFlush",
          "PM_FlushOnUnmodified", "PM_UnnecessaryFence", "PM_SemanticPerformance",
          "PM_SemanticCorrectness">>[n])
  + (IF loc.inst = "s1" THEN 1 ELSE 2) + (IF loc.alloc = "o1" THEN 0 ELSE 5)
=============================================================================

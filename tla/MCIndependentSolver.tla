------------------------ MODULE MCIndependentSolver ------------------------
(* Two elements of an array A and one of B, with values 0 and 1.            *)
EXTENDS SolverAlgorithms

MCElements == {"A0", "A1", "B0"}
MCArrayOf == [x \in MCElements |-> IF x = "B0" THEN "B" ELSE "A"]
MCValues == {0, 1}

(* A0 = 1, its negation, and the negation of that rewritten; A1 = 1, B0 = 1 *)
(* and A0 = B0 with their negations.                                        *)
MCExprs == {"a", "na", "nna", "b", "nb", "d", "nd", "eq", "ne"}
MCNeg == [a |-> "na", na |-> "nna", nna |-> "na", b |-> "nb", nb |-> "b", d |-> "nd", nd |-> "d",
          eq |-> "ne", ne |-> "eq"]
MCReads == [e \in MCExprs |-> CASE e \in {"a", "na", "nna"} -> {"A0"}
                                [] e \in {"b", "nb"} -> {"A1"}
                                [] e \in {"d", "nd"} -> {"B0"}
                                [] OTHER -> {"A0", "B0"}]
MCTrue(e, v) == CASE e \in {"a", "nna"} -> v["A0"] = 1
                  [] e = "na" -> v["A0"] = 0
                  [] e = "b" -> v["A1"] = 1
                  [] e = "nb" -> v["A1"] = 0
                  [] e = "d" -> v["B0"] = 1
                  [] e = "nd" -> v["B0"] = 0
                  [] e = "eq" -> v["A0"] = v["B0"]
                  [] OTHER -> v["A0"] # v["B0"]
MCSat == [e \in MCExprs |-> {v \in [MCElements -> MCValues] : MCTrue(e, v)}]
MCSmaller == {"a", "b", "d", "ne"}

MCExprOrder == <<"d", "nd", "a", "na", "nna", "b", "nb", "eq", "ne">>

MCQuery(c, e) == [c |-> c, e |-> e]
MCQueries == {MCQuery({}, "a"), MCQuery({"eq"}, "na"), MCQuery({"b"}, "na"),
              MCQuery({"ne", "nna", "b"}, "eq")}
MCOptionSets == {{}, {"superset"}, {"superset", "try all"}, {"exp"}}
=============================================================================

------------------------- MODULE CexCachingSolver -------------------------
(* The counterexample cache in front of the core solver                     *)
(* (lib/Solver/CexCachingSolver.cpp).  It remembers for sets of expressions *)
(* an assignment that satisfies them all, or that there is none.            *)
(*                                                                         *)
(* The operators take the caches `st` and yield the set of the possible     *)
(* outcomes [ok, ..., st]: a call of the core solver may fail, and what was *)
(* cached before that stays.                                                *)
EXTENDS Solver

VARIABLE options   \* -cex-cache-superset, -cex-cache-try-all, -cex-cache-exp

(* Entries of the map with the predicate, exactly or as a super- or subset. *)
Lookup(st, key) == {r.sol : r \in {r \in st.cex : r.key = key}}
FindSuperset(st, key) == {r.sol : r \in {r \in st.cex : key \subseteq r.key /\ r.sol # {}}}
FindSubset(st, key, sols) ==
  {r.sol : r \in {r \in st.cex : r.key \subseteq key /\ (r.sol = {} \/ r.sol \subseteq sols)}}

(* What may be found for the key: the exact entry, a solution of a superset,*)
(* an unsatisfiable subset or a subset whose solution happens to satisfy    *)
(* the key, or, if all are tried, any assignment that does.                 *)
searchForAssignment(st, key) ==
  LET tryAll == "try all" \in options
      super == IF "superset" \in options THEN FindSuperset(st, key) ELSE {}
      sub == FindSubset(st, key, IF tryAll THEN {} ELSE Solutions(key))
      any == IF tryAll THEN {{a} : a \in st.table \cap Solutions(key)} ELSE {}
  IN  IF Lookup(st, key) # {} THEN Lookup(st, key)
      ELSE IF super # {} THEN super
      ELSE IF sub # {} THEN sub
      ELSE any

(* From the cache, or from the core solver and into the cache. *)
getAssignment(st, key) ==
  LET found == searchForAssignment(st, key)
      Store(sol) == [st EXCEPT !.cex = @ \cup {[key |-> key, sol |-> sol]}, !.table = @ \cup sol]
  IN  IF found # {} THEN {[ok |-> TRUE, sol |-> sol, st |-> st] : sol \in found}
      ELSE {[ok |-> FALSE, sol |-> {}, st |-> st]}
             \cup {[ok |-> TRUE, sol |-> sol, st |-> Store(sol)] : sol \in CoreSolver(key)}

Failure(st) == [ok |-> FALSE, ans |-> "none", st |-> st]
Answer(ans, st) == [ok |-> TRUE, ans |-> ans, st |-> st]

(* lookupAssignment's key of a query asks for a counterexample. *)
Key(c, e) == c \cup {Neg[e]}

(* CexCachingSolver::computeTruth: valid if there is no counterexample.     *)
(* With the experimental option a cached proof that the negation is valid   *)
(* makes the call fail.                                                     *)
CexTruth(st, c, e) ==
  IF "exp" \in options /\ {} \in searchForAssignment(st, Key(c, Neg[e]))
  THEN {Failure(st)}
  ELSE {IF ~o.ok THEN Failure(o.st) ELSE Answer(IF o.sol = {} THEN "True" ELSE "NotTrue", o.st)
          : o \in getAssignment(st, Key(c, e))}

(* CexCachingSolver::computeValidity: one assignment of the constraints     *)
(* tells which of the two answers is still possible, a second one decides.  *)
CexValidity(st, c, e) ==
  LET Second(o) ==
        LET isTrue == o.sol \subseteq Sat[e]
        IN  {IF ~p.ok THEN Failure(p.st)
             ELSE Answer(IF p.sol # {} THEN "Unknown" ELSE IF isTrue THEN "True" ELSE "False", p.st)
               : p \in getAssignment(o.st, Key(c, IF isTrue THEN e ELSE Neg[e]))}
  IN  UNION {IF ~o.ok THEN {Failure(o.st)}
             ELSE IF o.sol = {} THEN {Answer("assertion", o.st)}
             ELSE Second(o)
               : o \in getAssignment(st, c)}

(* CexCachingSolver::computeValue *)
CexValue(st, c, e) ==
  {IF ~o.ok THEN Failure(o.st)
   ELSE Answer(IF o.sol = {} THEN "assertion" ELSE IF o.sol \subseteq Sat[e] THEN "1" ELSE "0", o.st)
     : o \in getAssignment(st, c)}

===========================================================================

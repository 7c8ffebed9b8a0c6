--------------------------- MODULE CachingSolver ---------------------------
(* The branch cache (lib/Solver/CachingSolver.cpp) in front of the          *)
(* counterexample cache: what is known of the validity of a query, kept     *)
(* under the smaller of the expression and its negation.                    *)
EXTENDS CexCachingSolver

CONSTANT Smaller   \* expressions that compare less than their negations

ASSUME SmallerAssumption == Smaller \subseteq Exprs

canonicalizeQuery(e) == IF e \in Smaller THEN e ELSE Neg[e]
negationUsed(e) == e \notin Smaller

PartialValidity == {"MustBeTrue", "MustBeFalse", "MayBeTrue", "MayBeFalse", "TrueOrFalse"}

negatePartialValidity(pv) ==
  CASE pv = "MustBeTrue" -> "MustBeFalse"
    [] pv = "MustBeFalse" -> "MustBeTrue"
    [] pv = "MayBeTrue" -> "MayBeFalse"
    [] pv = "MayBeFalse" -> "MayBeTrue"
    [] OTHER -> pv

Entry(st, c, e) == {r \in st.cache : r.c = c /\ r.q = canonicalizeQuery(e)}

(* The cached validity of the query, a set of at most one. *)
cacheLookup(st, c, e) ==
  {IF negationUsed(e) THEN negatePartialValidity(r.pv) ELSE r.pv : r \in Entry(st, c, e)}

(* A plausible mistake: the validity is not turned around with the query. *)
cacheInsertAsIs(st, c, e, pv) ==
  IF Entry(st, c, e) # {} THEN st
  ELSE [st EXCEPT !.cache = @ \cup {[c |-> c, q |-> canonicalizeQuery(e), pv |-> pv]}]

(* std::map::insert: what is there already stays. *)
cacheInsert(st, c, e, pv) ==
  IF Entry(st, c, e) # {} THEN st
  ELSE [st EXCEPT !.cache = @ \cup
          {[c |-> c, q |-> canonicalizeQuery(e),
            pv |-> IF negationUsed(e) THEN negatePartialValidity(pv) ELSE pv]}]

(* The answer of the solver below, and what it adds to the cache. *)
Remember(outcomes, c, e, pv, ans) ==
  {IF o.ok THEN Answer(ans[o.ans], cacheInsert(o.st, c, e, pv[o.ans])) ELSE Failure(o.st)
     : o \in outcomes}

(* CachingSolver::computeValidity: half an answer in the cache asks for the *)
(* other half only.                                                         *)
CacheValidity(st, c, e) ==
  LET hit == cacheLookup(st, c, e)
  IN  IF "MustBeTrue" \in hit THEN {Answer("True", st)}
      ELSE IF "MustBeFalse" \in hit THEN {Answer("False", st)}
      ELSE IF "TrueOrFalse" \in hit THEN {Answer("Unknown", st)}
      ELSE IF "MayBeTrue" \in hit
      THEN Remember(CexTruth(st, c, e), c, e,
                    [True |-> "MustBeTrue", NotTrue |-> "TrueOrFalse"],
                    [True |-> "True", NotTrue |-> "Unknown"])
      ELSE IF "MayBeFalse" \in hit
      THEN Remember(CexTruth(st, c, Neg[e]), c, e,
                    [True |-> "MustBeFalse", NotTrue |-> "TrueOrFalse"],
                    [True |-> "False", NotTrue |-> "Unknown"])
      ELSE Remember(CexValidity(st, c, e), c, e,
                    [True |-> "MustBeTrue", False |-> "MustBeFalse", Unknown |-> "TrueOrFalse"],
                    [True |-> "True", False |-> "False", Unknown |-> "Unknown"])

(* CachingSolver::computeTruth: only "may be true" leaves the question open.*)
CacheTruth(st, c, e) ==
  LET hit == cacheLookup(st, c, e)
  IN  IF hit # {} /\ "MayBeTrue" \notin hit
      THEN {Answer(IF "MustBeTrue" \in hit THEN "True" ELSE "NotTrue", st)}
      ELSE Remember(CexTruth(st, c, e), c, e,
                    [True |-> "MustBeTrue",
                     NotTrue |-> IF hit # {} THEN "TrueOrFalse" ELSE "MayBeFalse"],
                    [True |-> "True", NotTrue |-> "NotTrue"])

===========================================================================

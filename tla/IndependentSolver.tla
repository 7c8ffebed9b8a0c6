------------------------- MODULE IndependentSolver -------------------------
(* The solver that KLEE's states ask (Solver.cpp, IndependentSolver.cpp     *)
(* over CachingSolver over CexCachingSolver over a core solver that may     *)
(* time out): a query is first reduced to the constraints it depends on,    *)
(* and values for a whole path condition are put together from those of     *)
(* its independent factors.                                                 *)
EXTENDS CachingSolver, Integers

CONSTANTS
  Queries,    \* what the states ask: records [c, e]
  OptionSets, \* combinations of command line options
  MaxCalls    \* calls of the solver (bound)

ASSUME QueriesAssumption == Queries \subseteq [c : PathConditions, e : Exprs]

VARIABLES
  caches,     \* [cex, table] of CexCachingSolver and [cache] of CachingSolver
  call,       \* a getInitialValues under way: factors left, and values so far
  last,       \* the last answer: [api, c, e, ok, ans, point]
  calls       \* calls made

vars == <<options, caches, call, last, calls>>

ElementsOf(es) == UNION {Reads[e] : e \in es}

(* The set has every constraint of c that shares an element with e or with  *)
(* one of the set.                                                          *)
IsClosed(r, c, e) ==
  \A k \in c : Reads[k] \cap (Reads[e] \cup ElementsOf(r)) # {} => k \in r

(* getIndependentConstraints: the constraints e depends on, directly or     *)
(* through others: the least closed set.                                    *)
Required(c, e) == {k \in c : \A r \in SUBSET c : IsClosed(r, c, e) => k \in r}

(* getAllIndependentConstraintsSets: constraints that share no elements     *)
(* end up in different factors.                                             *)
Factors(c) == {{k} \cup Required(c, k) : k \in c}

-----------------------------------------------------------------------------
NoCall == [api |-> "none", c |-> {}, left |-> {}, seen |-> {}, point |-> {}]
Idle == call.api = "none" /\ calls < MaxCalls

(* The call returns one of the outcomes. *)
Returns(api, c, e, outcomes) ==
  \E o \in outcomes :
    /\ caches' = o.st
    /\ last' = [api |-> api, c |-> c, e |-> e, ok |-> o.ok, ans |-> o.ans, point |-> {}]
    /\ calls' = calls + 1
    /\ UNCHANGED <<options, call>>

evaluate(q) ==
  Idle /\ Returns("evaluate", q.c, q.e, CacheValidity(caches, Required(q.c, q.e), q.e))

mustBeTrue(q) ==
  Idle /\ Returns("mustBeTrue", q.c, q.e, CacheTruth(caches, Required(q.c, q.e), q.e))

(* mustBeFalse, and mayBeTrue with the answer turned around *)
mustBeFalse(q) ==
  Idle /\ Returns("mustBeTrue", q.c, Neg[q.e],
                  CacheTruth(caches, Required(q.c, Neg[q.e]), Neg[q.e]))

getValue(q) ==
  Idle /\ Returns("getValue", q.c, q.e, CexValue(caches, Required(q.c, q.e), q.e))

(* getInitialValues asks for values of all arrays, factor by factor; an     *)
(* array of no factor gets zeroes.                                          *)
getInitialValues(q) ==
  /\ Idle
  /\ call' = [api |-> "getInitialValues", c |-> q.c, left |-> Factors(q.c), seen |-> {},
              point |-> {[x \in Elements |-> Zero]}]
  /\ UNCHANGED <<options, caches, last, calls>>

(* A plausible mistake: the whole array of the factor is copied each time. *)
MergeWholeArrays(a, old, f, seen) ==
  [x \in Elements |-> IF ArrayOf[x] \in {ArrayOf[y] : y \in ElementsOf(f)} THEN a[x] ELSE old[x]]

(* The values of a factor: all of an array not seen before, else just the   *)
(* elements of the factor.                                                  *)
Merge(a, old, f, seen) ==
  LET xs == ElementsOf(f)
      arrays == {ArrayOf[x] : x \in xs}
  IN  [x \in Elements |->
         IF ArrayOf[x] \in arrays /\ (ArrayOf[x] \in seen => x \in xs) THEN a[x] ELSE old[x]]

SolveFactor(f) ==
  /\ call.api # "none" /\ f \in call.left
  /\ \E o \in getAssignment(caches, f) :
       /\ caches' = o.st
       /\ IF o.sol # {}
          THEN /\ call' = [call EXCEPT !.left = @ \ {f},
                                       !.seen = @ \cup {ArrayOf[x] : x \in ElementsOf(f)},
                                       !.point = UNION {{Merge(a, b, f, call.seen) : a \in o.sol} : b \in @}]
               /\ UNCHANGED <<last, calls>>
          ELSE /\ call' = NoCall
               /\ last' = [api |-> call.api, c |-> call.c, e |-> "none", ok |-> FALSE,
                           ans |-> IF o.ok THEN "no solution" ELSE "none", point |-> {}]
               /\ calls' = calls + 1
  /\ UNCHANGED options

ReturnValues ==
  /\ call.api # "none" /\ call.left = {}
  /\ call' = NoCall
  /\ last' = [api |-> call.api, c |-> call.c, e |-> "none", ok |-> TRUE, ans |-> "values",
              point |-> call.point]
  /\ calls' = calls + 1
  /\ UNCHANGED <<options, caches>>

-----------------------------------------------------------------------------
Init ==
  /\ options \in OptionSets
  /\ caches = [cex |-> {}, table |-> {}, cache |-> {}]
  /\ call = NoCall
  /\ last = [api |-> "none", c |-> {}, e |-> "none", ok |-> FALSE, ans |-> "none", point |-> {}]
  /\ calls = 0

Next ==
  \/ \E q \in Queries : evaluate(q) \/ mustBeTrue(q) \/ mustBeFalse(q) \/ getValue(q)
                        \/ getInitialValues(q)
  \/ \E f \in call.left : SolveFactor(f)
  \/ ReturnValues

Spec == Init /\ [][Next]_vars

-----------------------------------------------------------------------------
(* Properties.                                                              *)

(* What an answer must be, by the semantics of the query alone. *)
IsRight(r) ==
  CASE r.api = "evaluate" -> r.ans = Validity(r.c, r.e)
    [] r.api = "mustBeTrue" -> r.ans = IF Validity(r.c, r.e) = "True" THEN "True" ELSE "NotTrue"
    [] r.api = "getValue" -> r.ans \in (CASE Validity(r.c, r.e) = "True" -> {"1"}
                                          [] Validity(r.c, r.e) = "False" -> {"0"}
                                          [] OTHER -> {"0", "1"})
    [] r.api = "getInitialValues" -> r.point # {} /\ r.point \subseteq Solutions(r.c)
    [] OTHER -> FALSE

(* Every answer is right: whatever was asked before, whatever the core      *)
(* solver chose or failed to answer, the reductions and both caches give    *)
(* the answer of the query itself, and no factor of a path condition is     *)
(* taken for unsatisfiable.                                                 *)
AnswersAreRight == (last.ok => IsRight(last)) /\ last.ans # "no solution"

(* What the branch cache says of a query is true of it, though perhaps not  *)
(* all that is known.                                                       *)
Holds(pv, c, e) ==
  /\ pv \in PartialValidity
  /\ pv = "MustBeTrue" => Validity(c, e) = "True"
  /\ pv = "MustBeFalse" => Validity(c, e) = "False"
  /\ pv \in {"MayBeTrue", "TrueOrFalse"} => Validity(c, e) # "False"
  /\ pv \in {"MayBeFalse", "TrueOrFalse"} => Validity(c, e) # "True"

(* Each entry of either cache is a true statement about its constraints.    *)
Sound(st) ==
  /\ \A r \in st.cex : r.sol \in CoreSolver(r.key)
  /\ \A r \in st.cache : r.c \in PathConditions /\ Holds(r.pv, r.c, r.q)

(* The caches never go stale: what they hold stays true, also after calls   *)
(* that failed half way.                                                    *)
CachesAreSound == Sound(caches)

=============================================================================

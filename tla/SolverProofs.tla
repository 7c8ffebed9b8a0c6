---------------------------- MODULE SolverProofs ----------------------------
(* The solver chain gives right answers, for every set of expressions, core *)
(* solver and choice of options.  Each layer has a lemma: from sound caches *)
(* it leaves sound caches and answers as the semantics of the query does.   *)
(* Constraints that share no element with a query cannot change its answer: *)
(* assignments can be mixed along a closed set of constraints.              *)
EXTENDS IndependentSolver, TLAPS

CachesType ==
  [cex : SUBSET [key : SUBSET Exprs, sol : SUBSET Assignments],
   table : SUBSET Assignments,
   cache : SUBSET [c : SUBSET Exprs, q : Exprs, pv : PartialValidity]]

Good(st) == st \in CachesType /\ Sound(st)

Solves(sol, key) ==
  \/ sol = {} /\ Solutions(key) = {}
  \/ \E a \in Solutions(key) : sol = {a}

-----------------------------------------------------------------------------
(* Facts of expressions.                                                    *)

(* Expr::createIsZero is the negation: of an expression, and twice. *)
LEMMA NegFacts ==
  ASSUME NEW e \in Exprs
  PROVE  /\ Neg[e] \in Exprs /\ Neg[Neg[e]] \in Exprs
         /\ Sat[e] \subseteq Assignments
         /\ Sat[Neg[e]] = Assignments \ Sat[e]
         /\ Sat[Neg[Neg[e]]] = Sat[e]
         /\ Reads[e] \subseteq Elements
<1>1. Neg[e] \in Exprs /\ Neg[Neg[e]] \in Exprs
  BY ExprAssumption
<1>2. Sat[e] \subseteq Assignments /\ Reads[e] \subseteq Elements
  BY ExprAssumption
<1>3. Sat[Neg[e]] = Assignments \ Sat[e] /\ Sat[Neg[Neg[e]]] = Assignments \ Sat[Neg[e]]
  BY <1>1, NegAssumption
<1>4. QED
  BY <1>1, <1>2, <1>3

(* The key of a query (lookupAssignment) is satisfiable by its              *)
(* counterexamples only.                                                    *)
LEMMA KeyFacts ==
  ASSUME NEW c \in SUBSET Exprs, NEW e \in Exprs
  PROVE  /\ Key(c, e) \in SUBSET Exprs
         /\ Solutions(Key(c, e)) = Solutions(c) \ Sat[e]
         /\ Solutions(Key(c, Neg[e])) = Solutions(c) \cap Sat[e]
<1>1. Key(c, e) \in SUBSET Exprs
  BY NegFacts DEF Key
<1>2. Solutions(Key(c, e)) = Solutions(c) \ Sat[e]
  BY NegFacts DEF Key, Solutions
<1>3. Solutions(Key(c, Neg[e])) = Solutions(c) \cap Sat[e]
  BY NegFacts DEF Key, Solutions
<1>4. QED
  BY <1>1, <1>2, <1>3

(* What the core solver finds is a solution, or there is none. *)
LEMMA CoreSolves ==
  ASSUME NEW key, NEW sol \in CoreSolver(key)
  PROVE  Solves(sol, key) /\ sol \in SUBSET Assignments
BY DEF CoreSolver, Solves, Solutions

(* CexCachingSolver::searchForAssignment: an entry of the cache, exact, of a *)
(* super- or a subset, or any assignment that satisfies the key, solves it. *)
LEMMA SearchOK ==
  ASSUME NEW st, Good(st), NEW key \in SUBSET Exprs, NEW sol \in searchForAssignment(st, key)
  PROVE  Solves(sol, key)
<1> USE DEF Good, Sound
<1>1. \A r \in st.cex : Solves(r.sol, r.key)
  BY CoreSolves
<1>2. \A other : key \subseteq other => Solutions(other) \subseteq Solutions(key)
  BY DEF Solutions
<1>3. \A other : other \subseteq key => Solutions(key) \subseteq Solutions(other)
  BY DEF Solutions
<1>4. CASE sol \in Lookup(st, key)
  BY <1>1, <1>4 DEF Lookup
<1>5. CASE sol \in FindSuperset(st, key)
  BY <1>1, <1>2, <1>5 DEF FindSuperset, Solves
<1>6. ASSUME NEW sols, sols \subseteq Solutions(key), sol \in FindSubset(st, key, sols)
      PROVE  Solves(sol, key)
  BY <1>1, <1>3, <1>6 DEF FindSubset, Solves
<1>7. ASSUME NEW a \in st.table \cap Solutions(key), sol = {a}
      PROVE  Solves(sol, key)
  BY <1>7 DEF Solves
<1>8. QED
  BY <1>4, <1>5, <1>6, <1>7, Zenon DEF searchForAssignment

(* CexCachingSolver::getAssignment solves the key or fails, and what it     *)
(* adds to the cache is true.                                               *)
LEMMA GetAssignmentOK ==
  ASSUME NEW st, Good(st), NEW key \in SUBSET Exprs, NEW o \in getAssignment(st, key)
  PROVE  /\ Good(o.st) /\ o.st.cache = st.cache
         /\ o.ok \in BOOLEAN
         /\ o.ok => Solves(o.sol, key)
         /\ ~o.ok => o.sol = {}
<1> DEFINE Store(sol) == [st EXCEPT !.cex = @ \cup {[key |-> key, sol |-> sol]}, !.table = @ \cup sol]
<1>1. ASSUME NEW sol \in CoreSolver(key)
      PROVE  Good(Store(sol)) /\ Store(sol).cache = st.cache
  <2>1. sol \in SUBSET Assignments
    BY CoreSolves
  <2>2. [key |-> key, sol |-> sol] \in [key : SUBSET Exprs, sol : SUBSET Assignments]
    BY <2>1
  <2>3. /\ Store(sol).cex = st.cex \cup {[key |-> key, sol |-> sol]}
        /\ Store(sol).cache = st.cache
        /\ Store(sol) \in CachesType
    BY <2>1, <2>2, Zenon DEF Good, CachesType
  <2>4. QED
    BY <2>3 DEF Good, Sound
<1>2. CASE \E sol \in searchForAssignment(st, key) : o = [ok |-> TRUE, sol |-> sol, st |-> st]
  BY <1>2, SearchOK
<1>3. CASE o = [ok |-> FALSE, sol |-> {}, st |-> st]
  BY <1>3
<1>4. CASE \E sol \in CoreSolver(key) : o = [ok |-> TRUE, sol |-> sol, st |-> Store(sol)]
  <2>1. PICK sol \in CoreSolver(key) : o = [ok |-> TRUE, sol |-> sol, st |-> Store(sol)]
    BY <1>4, Zenon
  <2>2. o.ok = TRUE /\ o.sol = sol /\ o.st = Store(sol)
    BY <2>1, SMTT(30)
  <2>3. Good(Store(sol)) /\ Store(sol).cache = st.cache /\ Solves(sol, key)
    BY <1>1, CoreSolves, Zenon
  <2> HIDE DEF Store
  <2>4. QED
    BY <2>2, <2>3, Zenon
<1>5. QED
  BY <1>2, <1>3, <1>4, Zenon DEF getAssignment

-----------------------------------------------------------------------------
(* The layers.                                                              *)

(* Validity read off the solutions of the two keys, and of the negation; a  *)
(* path condition has a solution, so True and False exclude each other.     *)
LEMMA ValidityFacts ==
  ASSUME NEW c \in PathConditions, NEW e \in Exprs
  PROVE  /\ c \in SUBSET Exprs /\ Solutions(c) # {}
         /\ Validity(c, e) \in {"True", "False", "Unknown"}
         /\ Validity(c, e) = "True" <=> Solutions(c) \ Sat[e] = {}
         /\ Validity(c, e) = "False" <=> Solutions(c) \cap Sat[e] = {}
         /\ Validity(c, Neg[e]) = "True" <=> Validity(c, e) = "False"
         /\ Validity(c, Neg[e]) = "False" <=> Validity(c, e) = "True"
<1>1. c \in SUBSET Exprs /\ Solutions(c) # {} /\ Solutions(c) \subseteq Assignments
  BY DEF PathConditions, Solutions
<1>2. /\ Validity(c, e) \in {"True", "False", "Unknown"}
      /\ Validity(c, e) = "True" <=> Solutions(c) \ Sat[e] = {}
      /\ Validity(c, e) = "False" <=> Solutions(c) \cap Sat[e] = {}
  BY <1>1 DEF Validity
<1>3. /\ Validity(c, Neg[e]) = "True" <=> Solutions(c) \cap Sat[e] = {}
      /\ Validity(c, Neg[e]) = "False" <=> Solutions(c) \ Sat[e] = {}
  BY <1>1, NegFacts DEF Validity
<1>4. QED
  BY <1>1, <1>2, <1>3

(* An outcome of computeTruth on a query. *)
RightTruth(o, c, e) ==
  /\ o.ok \in BOOLEAN
  /\ o.ok => /\ o.ans \in {"True", "NotTrue"}
             /\ o.ans = "True" <=> Validity(c, e) = "True"
  /\ ~o.ok => o.ans = "none"

(* An outcome of computeValidity. *)
RightValidity(o, c, e) ==
  o.ok \in BOOLEAN /\ (o.ok => o.ans = Validity(c, e)) /\ (~o.ok => o.ans = "none")

(* CexCachingSolver::computeTruth *)
LEMMA CexTruthOK ==
  ASSUME NEW st, Good(st), NEW c \in PathConditions, NEW e \in Exprs, NEW o \in CexTruth(st, c, e)
  PROVE  Good(o.st) /\ RightTruth(o, c, e)
<1>1. CASE o = Failure(st)
  BY <1>1 DEF Failure, RightTruth
<1>2. ASSUME NEW p \in getAssignment(st, Key(c, e)),
             o = IF ~p.ok THEN Failure(p.st)
                 ELSE Answer(IF p.sol = {} THEN "True" ELSE "NotTrue", p.st)
      PROVE  Good(o.st) /\ RightTruth(o, c, e)
  <2>1. /\ Good(p.st) /\ p.ok \in BOOLEAN /\ (p.ok => Solves(p.sol, Key(c, e)))
    BY GetAssignmentOK, KeyFacts, ValidityFacts
  <2>2. p.ok => (p.sol = {} <=> Validity(c, e) = "True")
    BY <2>1, KeyFacts, ValidityFacts, SMTT(30) DEF Solves
  <2>3. CASE ~p.ok
    BY <1>2, <2>1, <2>3 DEF Failure, RightTruth
  <2>4. CASE p.ok
    BY <1>2, <2>1, <2>2, <2>4 DEF Answer, RightTruth
  <2>5. QED
    BY <2>1, <2>3, <2>4
<1>3. QED
  BY <1>1, <1>2 DEF CexTruth

(* CexCachingSolver::computeValidity; its assertion holds. *)
LEMMA CexValidityOK ==
  ASSUME NEW st, Good(st), NEW c \in PathConditions, NEW e \in Exprs,
         NEW o \in CexValidity(st, c, e)
  PROVE  Good(o.st) /\ RightValidity(o, c, e)
<1> DEFINE Second(q) ==
             {IF ~p.ok THEN Failure(p.st)
              ELSE Answer(IF p.sol # {} THEN "Unknown"
                          ELSE IF q.sol \subseteq Sat[e] THEN "True" ELSE "False", p.st)
                : p \in getAssignment(q.st, Key(c, IF q.sol \subseteq Sat[e] THEN e ELSE Neg[e]))}
<1>1. PICK q \in getAssignment(st, c) :
        o \in IF ~q.ok THEN {Failure(q.st)}
              ELSE IF q.sol = {} THEN {Answer("assertion", q.st)} ELSE Second(q)
  BY DEF CexValidity
<1>2. Good(q.st) /\ q.ok \in BOOLEAN /\ (q.ok => \E a \in Solutions(c) : q.sol = {a})
  BY GetAssignmentOK, ValidityFacts DEF Solves
<1>3. CASE ~q.ok
  <2>1. o = Failure(q.st)
    BY <1>1, <1>3
  <2>2. QED
    BY <1>2, <2>1 DEF Failure, RightValidity
<1>4. CASE q.ok
  <2>1. PICK a \in Solutions(c) : q.sol = {a}
    BY <1>2, <1>4
  <2> DEFINE f == IF q.sol \subseteq Sat[e] THEN e ELSE Neg[e]
  <2>2. PICK p \in getAssignment(q.st, Key(c, f)) :
          o = IF ~p.ok THEN Failure(p.st)
              ELSE Answer(IF p.sol # {} THEN "Unknown"
                          ELSE IF q.sol \subseteq Sat[e] THEN "True" ELSE "False", p.st)
    BY <1>1, <1>4, <2>1
  <2>3. f \in Exprs /\ Key(c, f) \in SUBSET Exprs
    BY NegFacts, KeyFacts, ValidityFacts
  <2>4. Good(p.st) /\ p.ok \in BOOLEAN /\ (p.ok => Solves(p.sol, Key(c, f)))
    BY <1>2, <2>3, GetAssignmentOK
  <2> HIDE DEF f
  <2>5. CASE ~p.ok
    BY <2>2, <2>4, <2>5 DEF Failure, RightValidity
  <2>6. CASE p.ok /\ a \in Sat[e]
    <3>0. f = e
      BY <2>1, <2>6 DEF f
    <3>1. p.sol = {} <=> Validity(c, e) = "True"
      BY <2>4, <2>6, <3>0, KeyFacts, ValidityFacts DEF Solves
    <3>2. Validity(c, e) # "False"
      BY <2>6, ValidityFacts
    <3>3. o = Answer(IF p.sol # {} THEN "Unknown" ELSE "True", p.st)
      BY <2>1, <2>2, <2>6
    <3>4. QED
      BY <2>4, <3>1, <3>2, <3>3, ValidityFacts DEF Answer, RightValidity
  <2>7. CASE p.ok /\ a \notin Sat[e]
    <3>0. f = Neg[e]
      BY <2>1, <2>7 DEF f
    <3>a. Solutions(Key(c, Neg[e])) = Solutions(c) \cap Sat[e]
      BY KeyFacts, ValidityFacts
    <3>b. Solves(p.sol, Key(c, Neg[e]))
      BY <2>4, <2>7, <3>0
    <3>1. p.sol = {} <=> Validity(c, e) = "False"
      BY <3>a, <3>b, ValidityFacts DEF Solves
    <3>2. Validity(c, e) # "True"
      BY <2>7, ValidityFacts
    <3>3. o = Answer(IF p.sol # {} THEN "Unknown" ELSE "False", p.st)
      BY <2>1, <2>2, <2>7
    <3>4. QED
      BY <2>4, <3>1, <3>2, <3>3, ValidityFacts DEF Answer, RightValidity
  <2>8. QED
    BY <2>4, <2>5, <2>6, <2>7
<1>5. QED
  BY <1>2, <1>3, <1>4

(* CexCachingSolver::computeValue gives a value the expression may have. *)
LEMMA CexValueOK ==
  ASSUME NEW st, Good(st), NEW c \in PathConditions, NEW e \in Exprs, NEW o \in CexValue(st, c, e)
  PROVE  /\ Good(o.st) /\ o.ok \in BOOLEAN
         /\ ~o.ok => o.ans = "none"
         /\ o.ok => \/ o.ans = "1" /\ Validity(c, e) # "False"
                    \/ o.ans = "0" /\ Validity(c, e) # "True"
<1>1. PICK q \in getAssignment(st, c) :
        o = IF ~q.ok THEN Failure(q.st)
            ELSE Answer(IF q.sol = {} THEN "assertion"
                        ELSE IF q.sol \subseteq Sat[e] THEN "1" ELSE "0", q.st)
  BY DEF CexValue
<1>2. Good(q.st) /\ q.ok \in BOOLEAN /\ (q.ok => \E a \in Solutions(c) : q.sol = {a})
  BY GetAssignmentOK, ValidityFacts DEF Solves
<1>3. CASE ~q.ok
  BY <1>1, <1>2, <1>3 DEF Failure
<1>4. CASE q.ok
  <2>1. PICK a \in Solutions(c) : q.sol = {a}
    BY <1>2, <1>4
  <2>2. o = Answer(IF a \in Sat[e] THEN "1" ELSE "0", q.st)
    BY <1>1, <1>4, <2>1
  <2>3. a \in Sat[e] => Validity(c, e) # "False"
    BY ValidityFacts
  <2>4. a \notin Sat[e] => Validity(c, e) # "True"
    BY ValidityFacts
  <2>5. QED
    BY <1>2, <2>2, <2>3, <2>4 DEF Answer
<1>5. QED
  BY <1>2, <1>3, <1>4

(* IncompleteSolver::negatePartialValidity says of the negation what was    *)
(* said of the expression.                                                  *)
LEMMA NegateOK ==
  ASSUME NEW c \in PathConditions, NEW e \in Exprs, NEW pv \in PartialValidity
  PROVE  /\ negatePartialValidity(pv) \in PartialValidity
         /\ Holds(pv, c, e) => Holds(negatePartialValidity(pv), c, Neg[e])
         /\ Holds(pv, c, Neg[e]) => Holds(negatePartialValidity(pv), c, e)
BY ValidityFacts, NegFacts DEF PartialValidity, negatePartialValidity, Holds

(* CachingSolver::cacheLookup: the entry holds for the query as asked. *)
LEMMA LookupOK ==
  ASSUME NEW st, Good(st), NEW c \in PathConditions, NEW e \in Exprs,
         NEW pv \in cacheLookup(st, c, e)
  PROVE  Holds(pv, c, e)
<1>1. PICK r \in Entry(st, c, e) :
        pv = IF negationUsed(e) THEN negatePartialValidity(r.pv) ELSE r.pv
  BY DEF cacheLookup
<1>2. r.c = c /\ r.q = canonicalizeQuery(e) /\ r.pv \in PartialValidity /\ Holds(r.pv, c, r.q)
  BY DEF Entry, Good, Sound, CachesType
<1>3. CASE negationUsed(e)
  BY <1>1, <1>2, <1>3, NegateOK DEF negationUsed, canonicalizeQuery
<1>4. CASE ~negationUsed(e)
  BY <1>1, <1>2, <1>4 DEF negationUsed, canonicalizeQuery
<1>5. QED
  BY <1>3, <1>4

(* CachingSolver::cacheInsert of a true statement. *)
LEMMA InsertOK ==
  ASSUME NEW st, Good(st), NEW c \in PathConditions, NEW e \in Exprs, NEW pv, Holds(pv, c, e)
  PROVE  Good(cacheInsert(st, c, e, pv))
<1> DEFINE val == IF negationUsed(e) THEN negatePartialValidity(pv) ELSE pv
           new == [c |-> c, q |-> canonicalizeQuery(e), pv |-> val]
           nst == [st EXCEPT !.cache = @ \cup {new}]
<1>1. pv \in PartialValidity
  BY DEF Holds
<1>2. val \in PartialValidity /\ canonicalizeQuery(e) \in Exprs /\ c \in SUBSET Exprs
  BY <1>1, NegateOK, NegFacts, ValidityFacts DEF canonicalizeQuery
<1>3. Holds(val, c, canonicalizeQuery(e))
  BY <1>1, NegateOK DEF canonicalizeQuery, negationUsed
<1> HIDE DEF val
<1>4. new \in [c : SUBSET Exprs, q : Exprs, pv : PartialValidity]
  BY <1>2
<1>5. new.c = c /\ new.q = canonicalizeQuery(e) /\ new.pv = val
  OBVIOUS
<1> HIDE DEF new
<1>6. nst \in CachesType /\ nst.cex = st.cex /\ nst.cache = st.cache \cup {new}
  BY <1>4 DEF Good, CachesType
<1>7. Good(nst)
  BY <1>3, <1>5, <1>6 DEF Good, Sound
<1>8. cacheInsert(st, c, e, pv) = st \/ cacheInsert(st, c, e, pv) = nst
  BY DEF cacheInsert, new, val
<1>9. QED
  BY <1>7, <1>8

(* CachingSolver remembers an answer that the translation by pv is true of, *)
(* and passes on ans.                                                       *)
LEMMA RememberOK ==
  ASSUME NEW outcomes, NEW c \in PathConditions, NEW e \in Exprs, NEW pv, NEW ans,
         \A p \in outcomes : Good(p.st) /\ p.ok \in BOOLEAN
                               /\ (p.ok => Holds(pv[p.ans], c, e)),
         NEW o \in Remember(outcomes, c, e, pv, ans)
  PROVE  /\ Good(o.st) /\ o.ok \in BOOLEAN
         /\ ~o.ok => o.ans = "none"
         /\ o.ok => \E p \in outcomes : p.ok /\ o.ans = ans[p.ans]
<1>1. PICK p \in outcomes :
        o = IF p.ok THEN Answer(ans[p.ans], cacheInsert(p.st, c, e, pv[p.ans])) ELSE Failure(p.st)
  BY DEF Remember
<1>2. CASE p.ok
  <2>1. Good(cacheInsert(p.st, c, e, pv[p.ans]))
    BY <1>2, InsertOK
  <2>2. o.ok = TRUE /\ o.ans = ans[p.ans] /\ o.st = cacheInsert(p.st, c, e, pv[p.ans])
    BY <1>1, <1>2 DEF Answer
  <2>3. QED
    BY <1>2, <2>1, <2>2, Zenon
<1>3. CASE ~p.ok
  BY <1>1, <1>3 DEF Failure
<1>4. QED
  BY <1>2, <1>3

(* CachingSolver::computeValidity *)
LEMMA CacheValidityOK ==
  ASSUME NEW st, Good(st), NEW c \in PathConditions, NEW e \in Exprs,
         NEW o \in CacheValidity(st, c, e)
  PROVE  Good(o.st) /\ RightValidity(o, c, e)
<1> DEFINE hit == cacheLookup(st, c, e)
<1>1. \A pv \in hit : Holds(pv, c, e)
  BY LookupOK
<1> HIDE DEF hit
<1>2. CASE "MustBeTrue" \in hit /\ o = Answer("True", st)
  BY <1>1, <1>2 DEF Holds, Answer, RightValidity
<1>3. CASE "MustBeFalse" \in hit /\ o = Answer("False", st)
  BY <1>1, <1>3 DEF Holds, Answer, RightValidity
<1>4. CASE "TrueOrFalse" \in hit /\ o = Answer("Unknown", st)
  BY <1>1, <1>4, ValidityFacts DEF Holds, Answer, RightValidity
<1>5. CASE /\ "MayBeTrue" \in hit
           /\ o \in Remember(CexTruth(st, c, e), c, e,
                             [True |-> "MustBeTrue", NotTrue |-> "TrueOrFalse"],
                             [True |-> "True", NotTrue |-> "Unknown"])
  <2> DEFINE pv == [True |-> "MustBeTrue", NotTrue |-> "TrueOrFalse"]
             ans == [True |-> "True", NotTrue |-> "Unknown"]
  <2>1. Validity(c, e) # "False"
    BY <1>1, <1>5 DEF Holds
  <2>2. \A p \in CexTruth(st, c, e) : Good(p.st) /\ RightTruth(p, c, e)
    BY CexTruthOK
  <2>3. /\ pv["True"] = "MustBeTrue" /\ pv["NotTrue"] = "TrueOrFalse"
        /\ ans["True"] = "True" /\ ans["NotTrue"] = "Unknown"
    OBVIOUS
  <2> HIDE DEF pv, ans
  <2>4. \A p \in CexTruth(st, c, e) : p.ok => Holds(pv[p.ans], c, e) /\ ans[p.ans] = Validity(c, e)
    BY <2>1, <2>2, <2>3, ValidityFacts DEF RightTruth, Holds, PartialValidity
  <2>5. \A p \in CexTruth(st, c, e) :
          Good(p.st) /\ p.ok \in BOOLEAN /\ (p.ok => Holds(pv[p.ans], c, e))
    BY <2>2, <2>4 DEF RightTruth
  <2>6. o \in Remember(CexTruth(st, c, e), c, e, pv, ans)
    BY <1>5 DEF pv, ans
  <2>7. /\ Good(o.st) /\ o.ok \in BOOLEAN /\ (~o.ok => o.ans = "none")
        /\ o.ok => \E p \in CexTruth(st, c, e) : p.ok /\ o.ans = ans[p.ans]
    BY <2>5, <2>6, RememberOK
  <2>8. QED
    BY <2>4, <2>7 DEF RightValidity
<1>6. CASE /\ "MayBeFalse" \in hit
           /\ o \in Remember(CexTruth(st, c, Neg[e]), c, e,
                             [True |-> "MustBeFalse", NotTrue |-> "TrueOrFalse"],
                             [True |-> "False", NotTrue |-> "Unknown"])
  <2> DEFINE pv == [True |-> "MustBeFalse", NotTrue |-> "TrueOrFalse"]
             ans == [True |-> "False", NotTrue |-> "Unknown"]
  <2>1. Validity(c, e) # "True"
    BY <1>1, <1>6 DEF Holds
  <2>2. \A p \in CexTruth(st, c, Neg[e]) : Good(p.st) /\ RightTruth(p, c, Neg[e])
    BY CexTruthOK, NegFacts
  <2>3. /\ pv["True"] = "MustBeFalse" /\ pv["NotTrue"] = "TrueOrFalse"
        /\ ans["True"] = "False" /\ ans["NotTrue"] = "Unknown"
    OBVIOUS
  <2> HIDE DEF pv, ans
  <2>4. \A p \in CexTruth(st, c, Neg[e]) :
          p.ok => Holds(pv[p.ans], c, e) /\ ans[p.ans] = Validity(c, e)
    BY <2>1, <2>2, <2>3, ValidityFacts DEF RightTruth, Holds, PartialValidity
  <2>5. \A p \in CexTruth(st, c, Neg[e]) :
          Good(p.st) /\ p.ok \in BOOLEAN /\ (p.ok => Holds(pv[p.ans], c, e))
    BY <2>2, <2>4 DEF RightTruth
  <2>6. o \in Remember(CexTruth(st, c, Neg[e]), c, e, pv, ans)
    BY <1>6 DEF pv, ans
  <2>7. /\ Good(o.st) /\ o.ok \in BOOLEAN /\ (~o.ok => o.ans = "none")
        /\ o.ok => \E p \in CexTruth(st, c, Neg[e]) : p.ok /\ o.ans = ans[p.ans]
    BY <2>5, <2>6, RememberOK
  <2>8. QED
    BY <2>4, <2>7 DEF RightValidity
<1>7. CASE o \in Remember(CexValidity(st, c, e), c, e,
                    [True |-> "MustBeTrue", False |-> "MustBeFalse", Unknown |-> "TrueOrFalse"],
                    [True |-> "True", False |-> "False", Unknown |-> "Unknown"])
  <2> DEFINE pv == [True |-> "MustBeTrue", False |-> "MustBeFalse", Unknown |-> "TrueOrFalse"]
             ans == [True |-> "True", False |-> "False", Unknown |-> "Unknown"]
  <2>2. \A p \in CexValidity(st, c, e) : Good(p.st) /\ RightValidity(p, c, e)
    BY CexValidityOK
  <2>3. /\ pv["True"] = "MustBeTrue" /\ pv["False"] = "MustBeFalse" /\ pv["Unknown"] = "TrueOrFalse"
        /\ ans["True"] = "True" /\ ans["False"] = "False" /\ ans["Unknown"] = "Unknown"
    OBVIOUS
  <2> HIDE DEF pv, ans
  <2>4. \A p \in CexValidity(st, c, e) :
          p.ok => Holds(pv[p.ans], c, e) /\ ans[p.ans] = Validity(c, e)
    BY <2>2, <2>3, ValidityFacts DEF RightValidity, Holds, PartialValidity
  <2>5. \A p \in CexValidity(st, c, e) :
          Good(p.st) /\ p.ok \in BOOLEAN /\ (p.ok => Holds(pv[p.ans], c, e))
    BY <2>2, <2>4 DEF RightValidity
  <2>6. o \in Remember(CexValidity(st, c, e), c, e, pv, ans)
    BY <1>7 DEF pv, ans
  <2>7. /\ Good(o.st) /\ o.ok \in BOOLEAN /\ (~o.ok => o.ans = "none")
        /\ o.ok => \E p \in CexValidity(st, c, e) : p.ok /\ o.ans = ans[p.ans]
    BY <2>5, <2>6, RememberOK
  <2>8. QED
    BY <2>4, <2>7 DEF RightValidity
<1>8. QED
  BY <1>2, <1>3, <1>4, <1>5, <1>6, <1>7 DEF CacheValidity, hit

(* CachingSolver::computeTruth *)
LEMMA CacheTruthOK ==
  ASSUME NEW st, Good(st), NEW c \in PathConditions, NEW e \in Exprs,
         NEW o \in CacheTruth(st, c, e)
  PROVE  Good(o.st) /\ RightTruth(o, c, e)
<1> DEFINE hit == cacheLookup(st, c, e)
<1>1. \A pv \in hit : Holds(pv, c, e)
  BY LookupOK
<1> HIDE DEF hit
<1>2. CASE /\ hit # {} /\ "MayBeTrue" \notin hit
           /\ o = Answer(IF "MustBeTrue" \in hit THEN "True" ELSE "NotTrue", st)
  <2>1. "MustBeTrue" \in hit <=> Validity(c, e) = "True"
    BY <1>1, <1>2 DEF Holds, PartialValidity
  <2>2. QED
    BY <1>2, <2>1 DEF Answer, RightTruth
<1>3. CASE /\ ~(hit # {} /\ "MayBeTrue" \notin hit)
           /\ o \in Remember(CexTruth(st, c, e), c, e,
                             [True |-> "MustBeTrue",
                              NotTrue |-> IF hit # {} THEN "TrueOrFalse" ELSE "MayBeFalse"],
                             [True |-> "True", NotTrue |-> "NotTrue"])
  <2> DEFINE pv == [True |-> "MustBeTrue",
                    NotTrue |-> IF hit # {} THEN "TrueOrFalse" ELSE "MayBeFalse"]
             ans == [True |-> "True", NotTrue |-> "NotTrue"]
  <2>1. hit # {} => Validity(c, e) # "False"
    BY <1>1, <1>3 DEF Holds
  <2>2. \A p \in CexTruth(st, c, e) : Good(p.st) /\ RightTruth(p, c, e)
    BY CexTruthOK
  <2>3. /\ pv["True"] = "MustBeTrue"
        /\ pv["NotTrue"] = IF hit # {} THEN "TrueOrFalse" ELSE "MayBeFalse"
        /\ ans["True"] = "True" /\ ans["NotTrue"] = "NotTrue"
    OBVIOUS
  <2> HIDE DEF pv, ans
  <2>4. \A p \in CexTruth(st, c, e) : p.ok => Holds(pv[p.ans], c, e) /\ ans[p.ans] = p.ans
    BY <2>1, <2>2, <2>3, ValidityFacts DEF RightTruth, Holds, PartialValidity
  <2>5. \A p \in CexTruth(st, c, e) :
          Good(p.st) /\ p.ok \in BOOLEAN /\ (p.ok => Holds(pv[p.ans], c, e))
    BY <2>2, <2>4 DEF RightTruth
  <2>6. o \in Remember(CexTruth(st, c, e), c, e, pv, ans)
    BY <1>3 DEF pv, ans
  <2>7. /\ Good(o.st) /\ o.ok \in BOOLEAN /\ (~o.ok => o.ans = "none")
        /\ o.ok => \E p \in CexTruth(st, c, e) : p.ok /\ o.ans = ans[p.ans]
    BY <2>5, <2>6, RememberOK
  <2>8. QED
    BY <2>2, <2>4, <2>7 DEF RightTruth
<1>4. QED
  BY <1>2, <1>3 DEF CacheTruth, hit

-----------------------------------------------------------------------------
(* Independence.                                                            *)

(* getIndependentConstraints finds the least closed set. *)
LEMMA RequiredFacts ==
  ASSUME NEW c \in SUBSET Exprs, NEW e \in Exprs
  PROVE  /\ Required(c, e) \subseteq c
         /\ IsClosed(Required(c, e), c, e)
         /\ \A r \in SUBSET c : IsClosed(r, c, e) => Required(c, e) \subseteq r
<1>1. Required(c, e) \subseteq c
  BY DEF Required
<1>2. \A r \in SUBSET c : IsClosed(r, c, e) => Required(c, e) \subseteq r
  BY DEF Required
<1>3. ASSUME NEW k \in c, Reads[k] \cap (Reads[e] \cup ElementsOf(Required(c, e))) # {}
      PROVE  k \in Required(c, e)
  <2>1. SUFFICES ASSUME NEW r \in SUBSET c, IsClosed(r, c, e)
                 PROVE  k \in r
    BY DEF Required
  <2>2. ElementsOf(Required(c, e)) \subseteq ElementsOf(r)
    BY <1>2, <2>1 DEF ElementsOf
  <2>3. Reads[k] \cap (Reads[e] \cup ElementsOf(r)) # {}
    BY <1>3, <2>2
  <2>4. QED
    BY <2>1, <2>3 DEF IsClosed
<1>4. QED
  BY <1>1, <1>2, <1>3 DEF IsClosed

(* An assignment decides an expression by the elements it reads. *)
LEMMA SameOn ==
  ASSUME NEW e \in Exprs, NEW a \in Assignments, NEW b \in Assignments,
         \A x \in Reads[e] : a[x] = b[x]
  PROVE  a \in Sat[e] <=> b \in Sat[e]
BY ReadsAssumption DEF Agree

(* A solution of the required constraints can be mixed with one of the path *)
(* condition, and the query does not see the difference.                    *)
LEMMA Mixes ==
  ASSUME NEW c \in PathConditions, NEW e \in Exprs, NEW a \in Solutions(Required(c, e))
  PROVE  \E m \in Solutions(c) : m \in Sat[e] <=> a \in Sat[e]
<1> DEFINE R == Required(c, e)
           near == Reads[e] \cup ElementsOf(R)
<1>1. PICK b \in Solutions(c) : TRUE
  BY DEF PathConditions
<1> DEFINE m == [x \in Elements |-> IF x \in near THEN a[x] ELSE b[x]]
<1>2. /\ c \in SUBSET Exprs /\ R \subseteq c
      /\ \A k \in c : Reads[k] \cap near # {} => k \in R
  BY RequiredFacts, Zenon DEF PathConditions, IsClosed
<1>3. /\ a \in Assignments /\ b \in Assignments /\ \A k \in R : a \in Sat[k]
      /\ \A k \in c : b \in Sat[k]
  BY DEF Solutions
<1>4. \A k \in Exprs : Reads[k] \subseteq Elements
  BY NegFacts
<1>5. m \in Assignments /\ \A x \in Elements : m[x] = IF x \in near THEN a[x] ELSE b[x]
  BY <1>3 DEF Assignments
<1>6. \A k \in R : Reads[k] \subseteq near
  BY DEF ElementsOf
<1>7. Reads[e] \subseteq near
  OBVIOUS
<1> HIDE DEF m, near, R
<1>8. ASSUME NEW k \in R PROVE m \in Sat[k]
  <2>1. k \in Exprs /\ \A x \in Reads[k] : m[x] = a[x]
    BY <1>2, <1>4, <1>5, <1>6
  <2>2. QED
    BY <1>3, <1>5, <2>1, SameOn
<1>9. ASSUME NEW k \in c, k \notin R PROVE m \in Sat[k]
  <2>1. k \in Exprs /\ \A x \in Reads[k] : m[x] = b[x]
    BY <1>2, <1>4, <1>5, <1>9
  <2>2. QED
    BY <1>3, <1>5, <2>1, SameOn
<1>10. m \in Solutions(c)
  BY <1>5, <1>8, <1>9 DEF Solutions
<1>11. \A x \in Reads[e] : m[x] = a[x]
  BY <1>4, <1>5, <1>7, Zenon
<1>12. m \in Sat[e] <=> a \in Sat[e]
  BY <1>3, <1>5, <1>11, SameOn
<1>13. QED
  BY <1>10, <1>12

(* IndependentSolver asks the solver below the same question: the required  *)
(* constraints are a path condition and give the query its validity.        *)
LEMMA Independence ==
  ASSUME NEW c \in PathConditions, NEW e \in Exprs
  PROVE  /\ Required(c, e) \in PathConditions
         /\ Validity(Required(c, e), e) = Validity(c, e)
<1>1. c \in SUBSET Exprs /\ Required(c, e) \subseteq c
  BY RequiredFacts, Zenon DEF PathConditions
<1>2. Solutions(c) \subseteq Solutions(Required(c, e))
  BY <1>1 DEF Solutions
<1>3. Required(c, e) \in PathConditions
  BY <1>1, <1>2 DEF PathConditions
<1>4. Solutions(c) \subseteq Sat[e] <=> Solutions(Required(c, e)) \subseteq Sat[e]
  BY <1>2, Mixes
<1>5. Solutions(c) \cap Sat[e] = {} <=> Solutions(Required(c, e)) \cap Sat[e] = {}
  BY <1>2, Mixes
<1>6. QED
  BY <1>3, <1>4, <1>5 DEF Validity

(* A factor is the required set of each of its members. *)
LEMMA FactorFacts ==
  ASSUME NEW c \in SUBSET Exprs, NEW k \in c
  PROVE  /\ k \in Required(c, k)
         /\ \A j \in Required(c, k) : Required(c, j) = Required(c, k)
<1>0. \A i \in c : i \in Exprs /\ Reads[i] # {}
  BY ReadsAssumption
<1>1. ASSUME NEW i \in c PROVE i \in Required(c, i)
  <2>1. IsClosed(Required(c, i), c, i)
    BY <1>0, RequiredFacts
  <2>2. QED
    BY <1>0, <2>1 DEF IsClosed
<1>2. ASSUME NEW i \in c, NEW j \in Required(c, i)
      PROVE  Required(c, j) \subseteq Required(c, i)
  <2>1. j \in c /\ Required(c, i) \in SUBSET c /\ IsClosed(Required(c, i), c, i)
    BY <1>0, RequiredFacts, SMTT(30)
  <2>2. Reads[j] \subseteq ElementsOf(Required(c, i))
    BY DEF ElementsOf
  <2>3. IsClosed(Required(c, i), c, j)
    BY <2>1, <2>2 DEF IsClosed
  <2>4. QED
    BY <1>0, <2>1, <2>3, RequiredFacts
<1>3. ASSUME NEW j \in Required(c, k), k \notin Required(c, j)
      PROVE  FALSE
  <2> DEFINE r == Required(c, k) \ Required(c, j)
  <2>1. /\ j \in c /\ Required(c, k) \in SUBSET c /\ Required(c, j) \in SUBSET c
        /\ IsClosed(Required(c, k), c, k) /\ IsClosed(Required(c, j), c, j)
    BY <1>0, RequiredFacts, Zenon
  <2>2. ASSUME NEW i \in c, Reads[i] \cap (Reads[k] \cup ElementsOf(r)) # {}
        PROVE  i \in r
    <3>1. i \in Required(c, k)
      BY <2>1, <2>2 DEF IsClosed, ElementsOf
    <3>2. ASSUME i \in Required(c, j) PROVE FALSE
      <4>1. PICK y \in r \cup {k} : Reads[i] \cap Reads[y] # {}
        BY <2>2 DEF ElementsOf
      <4>2. y \in c /\ y \notin Required(c, j)
        BY <1>3, <2>1, <4>1
      <4>3. Reads[y] \cap ElementsOf(Required(c, j)) # {}
        BY <3>2, <4>1 DEF ElementsOf
      <4>4. QED
        BY <2>1, <4>2, <4>3 DEF IsClosed
    <3>3. QED
      BY <3>1, <3>2
  <2>3. IsClosed(r, c, k)
    BY <2>2 DEF IsClosed
  <2>4. Required(c, k) \subseteq r
    BY <1>0, <2>1, <2>3, RequiredFacts
  <2>5. j \in Required(c, j)
    BY <1>1, <2>1
  <2>6. QED
    BY <1>3, <2>4, <2>5
<1>4. ASSUME NEW j \in Required(c, k) PROVE Required(c, j) = Required(c, k)
  <2>1. j \in c /\ k \in Required(c, j)
    BY <1>0, <1>3, RequiredFacts
  <2>2. QED
    BY <1>2, <2>1
<1>5. QED
  BY <1>1, <1>4

(* getAllIndependentConstraintsSets: the factors cover the constraints, and *)
(* different factors share no element.                                      *)
LEMMA FactorsAreDisjoint ==
  ASSUME NEW c \in SUBSET Exprs
  PROVE  /\ \A f \in Factors(c) : f \in SUBSET c
         /\ UNION Factors(c) = c
         /\ \A f, g \in Factors(c) : ElementsOf(f) \cap ElementsOf(g) # {} => f = g
<1>1. \A f \in Factors(c) : \E k \in c : f = Required(c, k)
  BY FactorFacts DEF Factors
<1>2. \A k \in c : k \in Exprs /\ Required(c, k) \in Factors(c) /\ k \in Required(c, k)
  BY FactorFacts DEF Factors
<1>3. \A f \in Factors(c) : f \in SUBSET c
  BY <1>1, <1>2, RequiredFacts
<1>4. ASSUME NEW f \in Factors(c), NEW g \in Factors(c), ElementsOf(f) \cap ElementsOf(g) # {}
      PROVE  f = g
  <2>1. PICK i \in f, j \in g : Reads[i] \cap Reads[j] # {}
    BY <1>4 DEF ElementsOf
  <2>2. PICK k \in c : f = Required(c, k)
    BY <1>1
  <2>3. PICK l \in c : g = Required(c, l)
    BY <1>1
  <2>4. j \in c /\ Reads[j] \cap ElementsOf(f) # {}
    BY <1>3, <2>1 DEF ElementsOf
  <2>5. j \in f
    BY <1>2, <2>2, <2>4, RequiredFacts DEF IsClosed
  <2>6. QED
    BY <2>1, <2>2, <2>3, <2>5, FactorFacts
<1>5. UNION Factors(c) = c
  BY <1>2, <1>3
<1>6. QED
  BY <1>3, <1>4, <1>5

-----------------------------------------------------------------------------
(* The chain.                                                               *)

CallType ==
  [api : {"none", "getInitialValues"}, c : SUBSET Exprs, left : SUBSET SUBSET Exprs,
   seen : SUBSET {ArrayOf[x] : x \in Elements}, point : SUBSET Assignments]

(* A getInitialValues under way: the values so far solve every factor that  *)
(* is done, and the arrays of those have been seen.                         *)
CallOK ==
  /\ call \in CallType
  /\ call.api # "none" =>
       /\ call.c \in PathConditions
       /\ call.left \subseteq Factors(call.c)
       /\ \E b \in Assignments : call.point = {b} /\ \A f \in Factors(call.c) \ call.left : b \in Solutions(f)
       /\ \A f \in Factors(call.c) \ call.left : \A x \in ElementsOf(f) : ArrayOf[x] \in call.seen

IInv == Good(caches) /\ CallOK /\ AnswersAreRight

(* At the start the caches are empty. *)
LEMMA InitOK == Init => IInv
<1> SUFFICES ASSUME Init PROVE IInv
  OBVIOUS
<1>1. Good(caches)
  BY DEF Init, Good, CachesType, Sound
<1>2. call = NoCall /\ NoCall \in CallType /\ NoCall.api = "none"
  BY DEF Init, NoCall, CallType
<1>3. AnswersAreRight
  BY DEF Init, AnswersAreRight
<1>4. QED
  BY <1>1, <1>2, <1>3 DEF IInv, CallOK

RightOutcome(o, api, c, e) ==
  /\ Good(o.st)
  /\ o.ok => o.ans # "no solution"
  /\ ~o.ok => o.ans = "none"
  /\ o.ok => IsRight([api |-> api, c |-> c, e |-> e, ok |-> o.ok, ans |-> o.ans, point |-> {}])

(* A call that returns a right outcome. *)
LEMMA ReturnsOK ==
  ASSUME IInv, NEW api, NEW c, NEW e, NEW outcomes, Returns(api, c, e, outcomes),
         \A o \in outcomes : RightOutcome(o, api, c, e)
  PROVE  IInv'
<1> USE DEF RightOutcome
<1>1. PICK o \in outcomes :
        /\ caches' = o.st
        /\ last' = [api |-> api, c |-> c, e |-> e, ok |-> o.ok, ans |-> o.ans, point |-> {}]
        /\ UNCHANGED <<options, call>>
  BY Zenon DEF Returns
<1>2. Good(caches)'
  BY <1>1, Zenon DEF Good, Sound
<1>3. CallOK'
  BY <1>1, Zenon DEF IInv, CallOK
<1>4. last'.ok = o.ok /\ last'.ans = o.ans
  BY <1>1, Zenon
<1>5. o.ok => IsRight(last')
  BY <1>1, Zenon
<1>6. AnswersAreRight'
  BY <1>4, <1>5, Zenon DEF AnswersAreRight
<1>7. QED
  BY <1>2, <1>3, <1>6, Zenon DEF IInv

(* What a state asks of is a path condition, and the reduced query has the  *)
(* same answer.                                                             *)
LEMMA QueryFacts ==
  ASSUME NEW q \in Queries
  PROVE  q.c \in PathConditions /\ q.e \in Exprs /\ Neg[q.e] \in Exprs
BY QueriesAssumption, NegFacts

(* Solver::evaluate *)
LEMMA EvaluateOK ==
  ASSUME IInv, NEW q \in Queries, evaluate(q)
  PROVE  IInv'
<1> DEFINE R == Required(q.c, q.e)
<1>1. q.c \in PathConditions /\ q.e \in Exprs /\ R \in PathConditions
      /\ Validity(R, q.e) = Validity(q.c, q.e)
  BY QueryFacts, Independence
<1> HIDE DEF R
<1>2. ASSUME NEW o \in CacheValidity(caches, R, q.e)
      PROVE  RightOutcome(o, "evaluate", q.c, q.e)
  <2>1. Good(o.st) /\ RightValidity(o, R, q.e)
    BY <1>1, CacheValidityOK DEF IInv
  <2>2. o.ok => o.ans = Validity(q.c, q.e) /\ o.ans # "no solution"
    BY <1>1, <2>1, ValidityFacts, Zenon DEF RightValidity
  <2>3. QED
    BY <2>1, <2>2, Zenon DEF RightOutcome, RightValidity, IsRight
<1>3. Returns("evaluate", q.c, q.e, CacheValidity(caches, R, q.e))
  BY DEF evaluate, R
<1>4. QED
  BY <1>2, <1>3, ReturnsOK

(* Solver::mustBeTrue of an expression, and so mayBeFalse, mustBeFalse and  *)
(* mayBeTrue.                                                               *)
LEMMA TruthOK ==
  ASSUME IInv, NEW c \in PathConditions, NEW e \in Exprs,
         Returns("mustBeTrue", c, e, CacheTruth(caches, Required(c, e), e))
  PROVE  IInv'
<1> DEFINE R == Required(c, e)
<1>1. R \in PathConditions /\ Validity(R, e) = Validity(c, e)
  BY Independence
<1> HIDE DEF R
<1>2. ASSUME NEW o \in CacheTruth(caches, R, e)
      PROVE  RightOutcome(o, "mustBeTrue", c, e)
  <2>1. Good(o.st) /\ RightTruth(o, R, e)
    BY <1>1, CacheTruthOK DEF IInv
  <2>2. o.ok => o.ans = (IF Validity(c, e) = "True" THEN "True" ELSE "NotTrue")
    BY <1>1, <2>1 DEF RightTruth
  <2>3. QED
    BY <2>1, <2>2, Zenon DEF RightOutcome, RightTruth, IsRight
<1>3. Returns("mustBeTrue", c, e, CacheTruth(caches, R, e))
  BY DEF R
<1>4. QED
  BY <1>2, <1>3, ReturnsOK

(* Solver::getValue *)
LEMMA GetValueOK ==
  ASSUME IInv, NEW q \in Queries, getValue(q)
  PROVE  IInv'
<1> DEFINE R == Required(q.c, q.e)
<1>1. q.c \in PathConditions /\ q.e \in Exprs /\ R \in PathConditions
      /\ Validity(R, q.e) = Validity(q.c, q.e)
  BY QueryFacts, Independence
<1> HIDE DEF R
<1>2. ASSUME NEW o \in CexValue(caches, R, q.e)
      PROVE  RightOutcome(o, "getValue", q.c, q.e)
  <2>1. /\ Good(o.st)
        /\ ~o.ok => o.ans = "none"
        /\ o.ok => \/ o.ans = "1" /\ Validity(q.c, q.e) # "False"
                   \/ o.ans = "0" /\ Validity(q.c, q.e) # "True"
    BY <1>1, CexValueOK DEF IInv
  <2>2. Validity(q.c, q.e) \in {"True", "False", "Unknown"}
    BY <1>1, ValidityFacts
  <2>3. QED
    BY <2>1, <2>2, Zenon DEF RightOutcome, IsRight
<1>3. Returns("getValue", q.c, q.e, CexValue(caches, R, q.e))
  BY DEF getValue, R
<1>4. QED
  BY <1>2, <1>3, ReturnsOK

(* IndependentSolver::computeInitialValues begins with no factor done. *)
LEMMA InitialValuesOK ==
  ASSUME IInv, NEW q \in Queries, getInitialValues(q)
  PROVE  IInv'
<1> DEFINE zeroes == [x \in Elements |-> Zero]
<1>1. q.c \in PathConditions /\ q.c \in SUBSET Exprs
  BY QueryFacts DEF PathConditions
<1>2. zeroes \in Assignments
  BY ExprAssumption DEF Assignments
<1> HIDE DEF zeroes
<1>3. Factors(q.c) \in SUBSET SUBSET Exprs
  BY <1>1, FactorsAreDisjoint
<1>4. call' = [api |-> "getInitialValues", c |-> q.c, left |-> Factors(q.c), seen |-> {},
               point |-> {zeroes}]
  BY DEF getInitialValues, zeroes
<1>5. call' \in CallType
  BY <1>1, <1>2, <1>3, <1>4 DEF CallType
<1>6. call'.c = q.c /\ call'.left = Factors(q.c) /\ call'.point = {zeroes}
  BY <1>4
<1>7. CallOK'
  BY <1>1, <1>2, <1>5, <1>6 DEF CallOK
<1>8. Good(caches)' /\ AnswersAreRight'
  BY Zenon DEF getInitialValues, IInv, Good, Sound, AnswersAreRight
<1>9. QED
  BY <1>7, <1>8 DEF IInv

(* The values of one more factor leave those of the factors done alone:     *)
(* they share arrays, but no elements.                                      *)
LEMMA MergeOK ==
  ASSUME NEW a \in Assignments, NEW b \in Assignments, NEW f, NEW seen
  PROVE  /\ Merge(a, b, f, seen) \in Assignments
         /\ \A x \in Elements : x \in ElementsOf(f) => Merge(a, b, f, seen)[x] = a[x]
         /\ \A x \in Elements : x \notin ElementsOf(f) /\ ArrayOf[x] \in seen
                                  => Merge(a, b, f, seen)[x] = b[x]
BY DEF Merge, Assignments

LEMMA SolveFactorOK ==
  ASSUME IInv, NEW f, SolveFactor(f)
  PROVE  IInv'
<1>1. PICK o \in getAssignment(caches, f) :
        /\ caches' = o.st
        /\ IF o.sol # {}
           THEN /\ call' = [call EXCEPT !.left = @ \ {f},
                                        !.seen = @ \cup {ArrayOf[x] : x \in ElementsOf(f)},
                                        !.point = UNION {{Merge(a, b, f, call.seen) : a \in o.sol} : b \in @}]
                /\ UNCHANGED <<last, calls>>
           ELSE /\ call' = NoCall
                /\ last' = [api |-> call.api, c |-> call.c, e |-> "none", ok |-> FALSE,
                            ans |-> IF o.ok THEN "no solution" ELSE "none", point |-> {}]
  BY Zenon DEF SolveFactor
<1>2. /\ call \in CallType /\ call.c \in PathConditions /\ call.c \in SUBSET Exprs
      /\ f \in call.left /\ f \in Factors(call.c) /\ call.left \subseteq Factors(call.c)
  BY Zenon DEF SolveFactor, IInv, CallOK, PathConditions
<1>3. /\ f \in SUBSET call.c /\ f \in SUBSET Exprs
      /\ \A g \in Factors(call.c) : ElementsOf(f) \cap ElementsOf(g) # {} => f = g
  BY <1>2, FactorsAreDisjoint
<1>4. Solutions(f) # {} /\ Solutions(f) \subseteq Assignments
  BY <1>2, <1>3 DEF PathConditions, Solutions
<1>5. /\ Good(o.st) /\ o.ok \in BOOLEAN /\ (o.ok => Solves(o.sol, f)) /\ (~o.ok => o.sol = {})
  BY <1>3, GetAssignmentOK DEF IInv
<1>6. Good(caches)'
  BY <1>1, <1>5, Zenon DEF Good, Sound
<1>7. CASE o.sol = {}
  <2>1. ~o.ok
    BY <1>4, <1>5, <1>7 DEF Solves
  <2>2. last'.ok = FALSE /\ last'.ans = "none" /\ call' = NoCall
    BY <1>1, <1>7, <2>1
  <2>3. NoCall \in CallType /\ NoCall.api = "none"
    BY DEF NoCall, CallType
  <2>4. CallOK' /\ AnswersAreRight'
    BY <2>2, <2>3 DEF CallOK, AnswersAreRight
  <2>5. QED
    BY <1>6, <2>4 DEF IInv
<1>8. CASE o.sol # {}
  <2>1. PICK a \in Solutions(f) : o.sol = {a}
    BY <1>5, <1>8 DEF Solves
  <2>2. PICK b \in Assignments :
          call.point = {b} /\ \A g \in Factors(call.c) \ call.left : b \in Solutions(g)
    BY Zenon DEF SolveFactor, IInv, CallOK
  <2> DEFINE m == Merge(a, b, f, call.seen)
             arrays == {ArrayOf[x] : x \in ElementsOf(f)}
  <2>3. a \in Assignments /\ ElementsOf(f) \subseteq Elements
    BY <1>3, <1>4, NegFacts DEF ElementsOf
  <2>4. /\ m \in Assignments
        /\ \A x \in ElementsOf(f) : m[x] = a[x]
        /\ \A x \in Elements : x \notin ElementsOf(f) /\ ArrayOf[x] \in call.seen => m[x] = b[x]
    BY <2>3, MergeOK, SMTT(30)
  <2>5. arrays \in SUBSET {ArrayOf[x] : x \in Elements}
    BY <2>3
  <2>6. call' = [call EXCEPT !.left = @ \ {f}, !.seen = @ \cup arrays, !.point = {m}]
    <3> DEFINE merged == UNION {{Merge(x, y, f, call.seen) : x \in o.sol} : y \in call.point}
    <3>1. merged = {m}
      BY <2>1, <2>2
    <3>2. call' = [call EXCEPT !.left = @ \ {f}, !.seen = @ \cup arrays, !.point = merged]
      BY <1>1, <1>8, SMTT(30)
    <3> HIDE DEF merged, m, arrays
    <3>3. QED
      BY <3>1, <3>2
  <2> HIDE DEF m
  <2>7. /\ call' \in CallType
        /\ call'.api = call.api /\ call'.c = call.c /\ call'.left = call.left \ {f}
        /\ call'.seen = call.seen \cup arrays /\ call'.point = {m}
    BY <1>2, <2>4, <2>5, <2>6, Zenon DEF CallType
  <2>8. m \in Solutions(f)
    <3>1. \A k \in f : k \in Exprs /\ Reads[k] \subseteq ElementsOf(f) /\ a \in Sat[k]
      BY <1>3 DEF ElementsOf, Solutions
    <3>2. \A k \in f : m \in Sat[k]
      BY <2>3, <2>4, <3>1, SameOn
    <3>3. QED
      BY <2>4, <3>2 DEF Solutions
  <2>9. ASSUME NEW g \in Factors(call.c) \ call.left
        PROVE  m \in Solutions(g) /\ \A x \in ElementsOf(g) : ArrayOf[x] \in call.seen
    <3>1. \A x \in ElementsOf(g) : ArrayOf[x] \in call.seen
      BY Zenon DEF SolveFactor, IInv, CallOK
    <3>2. g # f /\ ElementsOf(f) \cap ElementsOf(g) = {} /\ g \in SUBSET Exprs
      BY <1>2, <1>3, FactorsAreDisjoint
    <3>3. \A k \in g : k \in Exprs /\ Reads[k] \subseteq ElementsOf(g) /\ Reads[k] \subseteq Elements
      BY <3>2, NegFacts DEF ElementsOf
    <3>4. \A k \in g : b \in Sat[k]
      BY <2>2 DEF Solutions
    <3>5. \A k \in g : \A x \in Reads[k] : m[x] = b[x]
      BY <2>4, <3>1, <3>2, <3>3, Zenon
    <3>6. \A k \in g : m \in Sat[k]
      BY <2>4, <3>3, <3>4, <3>5, SameOn
    <3>7. QED
      BY <2>4, <3>1, <3>6 DEF Solutions
  <2>10. \A g \in Factors(call'.c) \ call'.left :
            m \in Solutions(g) /\ \A x \in ElementsOf(g) : ArrayOf[x] \in call'.seen
    BY <2>7, <2>8, <2>9
  <2>11. CallOK'
    BY <1>2, <2>4, <2>7, <2>10 DEF CallOK
  <2>12. AnswersAreRight'
    BY <1>1, <1>8, Zenon DEF IInv, AnswersAreRight
  <2>13. QED
    BY <1>6, <2>11, <2>12 DEF IInv
<1>9. QED
  BY <1>7, <1>8

(* When every factor is done the values solve the path condition: "should   *)
(* satisfy the equation" (IndependentSolver.cpp).                           *)
LEMMA ReturnValuesOK ==
  ASSUME IInv, ReturnValues
  PROVE  IInv'
<1>1. /\ call.api = "getInitialValues" /\ call.left = {} /\ call.c \in PathConditions
      /\ call.c \in SUBSET Exprs
  BY DEF ReturnValues, IInv, CallOK, CallType, PathConditions
<1>2. PICK b \in Assignments : call.point = {b} /\ \A f \in Factors(call.c) : b \in Solutions(f)
  BY <1>1 DEF IInv, CallOK
<1>3. b \in Solutions(call.c)
  BY <1>1, <1>2, FactorsAreDisjoint DEF Solutions
<1>4. last' = [api |-> "getInitialValues", c |-> call.c, e |-> "none", ok |-> TRUE,
               ans |-> "values", point |-> {b}]
  BY <1>1, <1>2 DEF ReturnValues
<1>5. AnswersAreRight'
  BY <1>3, <1>4 DEF AnswersAreRight, IsRight
<1>6. call' = NoCall /\ NoCall \in CallType /\ NoCall.api = "none"
  BY DEF ReturnValues, NoCall, CallType
<1>7. Good(caches)'
  BY DEF ReturnValues, IInv, Good, Sound
<1>8. QED
  BY <1>5, <1>6, <1>7 DEF IInv, CallOK

(* Every step keeps the invariant. *)
LEMMA NextOK == IInv /\ [Next]_vars => IInv'
<1> SUFFICES ASSUME IInv, [Next]_vars PROVE IInv'
  OBVIOUS
<1>1. CASE UNCHANGED vars
  BY <1>1, Zenon DEF vars, IInv, Good, Sound, CallOK, AnswersAreRight
<1>2. ASSUME NEW q \in Queries, mustBeTrue(q) PROVE IInv'
  BY <1>2, QueryFacts, TruthOK DEF mustBeTrue
<1>3. ASSUME NEW q \in Queries, mustBeFalse(q) PROVE IInv'
  BY <1>3, QueryFacts, TruthOK DEF mustBeFalse
<1>4. QED
  BY <1>1, <1>2, <1>3, EvaluateOK, GetValueOK, InitialValuesOK, SolveFactorOK, ReturnValuesOK
     DEF Next

(* Every answer of the solver chain is right, and its caches hold only true *)
(* statements, whatever the core solver finds or fails to find.             *)
THEOREM ChainIsRight == Spec => [](AnswersAreRight /\ CachesAreSound)
<1>1. IInv => AnswersAreRight /\ CachesAreSound
  BY DEF IInv, Good, CachesAreSound
<1>2. QED
  BY <1>1, InitOK, NextOK, PTL DEF Spec

(* What the two caches hold is true of the constraints and the expression that  *)
(* it is filed under, whatever was asked before and wherever a query failed.    *)
THEOREM CachesStayTrue == Spec => []CachesAreSound
  BY ChainIsRight, PTL
=============================================================================

------------------------- MODULE SolverAlgorithms -------------------------
(* The algorithms behind the solver chain, as the code computes them: the   *)
(* searches of the counterexample cache's trie (MapOfSets.h), the work      *)
(* lists of IndependentSolver.cpp and the binary searches of                *)
(* Solver::getRange.  The other modules use what they are meant to find.    *)
EXTENDS IndependentSolver, SequencesExt

CONSTANTS
  ExprOrder,   \* the expressions in the order std::set and std::map keep them
  RangeWidth   \* bits of an expression whose range is asked for (bound)

ASSUME OrderAssumption == ToSet(ExprOrder) = Exprs

Position == [e \in Exprs |-> CHOOSE i \in DOMAIN ExprOrder : ExprOrder[i] = e]
Before(e, f) == Position[e] < Position[f]
InOrder(es) == SelectSeq(ExprOrder, LAMBDA e : e \in es)

-----------------------------------------------------------------------------
(* The trie as the paths to its ends of sets, with their values.  A node is *)
(* a prefix of one of them.                                                 *)
Trie(st) == {[path |-> InOrder(r.key), sol |-> r.sol] : r \in st.cex}
Children(trie, n) ==
  InOrder({r.path[Len(n) + 1] : r \in {r \in trie : IsStrictPrefix(n, r.path)}})
ValueAt(trie, n, good) == {r.sol : r \in {r \in trie : r.path = n}} \cap good

(* MapOfSets::findSubset below node n among the elements of rest; kids are  *)
(* the children not yet passed.                                             *)
RECURSIVE findSubset(_, _, _, _), SubsetLoop(_, _, _, _, _)
findSubset(trie, n, rest, good) ==
  IF ValueAt(trie, n, good) # {} THEN ValueAt(trie, n, good)
  ELSE IF rest = << >> THEN {}
  ELSE SubsetLoop(trie, n, SelectSeq(Children(trie, n), LAMBDA k : ~Before(k, rest[1])), rest, good)
SubsetLoop(trie, n, kids, rest, good) ==
  IF kids = << >> \/ rest = << >> THEN {}
  ELSE IF Before(rest[1], kids[1]) THEN SubsetLoop(trie, n, kids, Tail(rest), good)
  ELSE IF Before(kids[1], rest[1]) THEN SubsetLoop(trie, n, Tail(kids), rest, good)
  ELSE LET found == findSubset(trie, Append(n, kids[1]), Tail(rest), good)
       IN  IF found # {} THEN found ELSE SubsetLoop(trie, n, kids, Tail(rest), good)

(* MapOfSets::findSuperset: every child may be part of a superset, and only *)
(* the child that is the next element takes it off the list.                *)
RECURSIVE findSuperset(_, _, _, _)
findSuperset(trie, n, rest, good) ==
  LET kids == Children(trie, n)
      Below(e, left) == findSuperset(trie, Append(n, e), left, good)
      skips == SelectSeq(kids, LAMBDA e : Below(e, rest) # {})
  IN  IF rest = << >> /\ ValueAt(trie, n, good) # {} THEN ValueAt(trie, n, good)
      ELSE IF skips # << >> THEN Below(skips[1], rest)
      ELSE IF rest # << >> /\ Contains(kids, rest[1]) THEN Below(rest[1], Tail(rest))
      ELSE {}

-----------------------------------------------------------------------------
(* getIndependentConstraints: passes over a work list, until one adds no    *)
(* element to the closure.                                                  *)
RECURSIVE Passes(_, _, _)
Passes(worklist, closure, result) ==
  LET pass == FoldLeft(LAMBDA acc, k :
                         IF Reads[k] \cap acc.elts # {}
                         THEN [elts |-> acc.elts \cup Reads[k], res |-> acc.res \cup {k}, left |-> acc.left]
                         ELSE [acc EXCEPT !.left = Append(@, k)],
                       [elts |-> closure, res |-> result, left |-> << >>], worklist)
  IN  IF pass.elts = closure THEN pass.res ELSE Passes(pass.left, pass.elts, pass.res)
getIndependentConstraints(cs, e) == Passes(cs, Reads[e], {})

(* A plausible mistake: one sweep is thought to be enough. *)
SwallowOnce(factors) ==
  FoldLeft(LAMBDA acc, f :
             IF ElementsOf(f) \cap ElementsOf(acc.cur) # {} THEN [acc EXCEPT !.cur = @ \cup f]
             ELSE [acc EXCEPT !.keep = Append(@, f)],
           [cur |-> factors[1], keep |-> << >>, more |-> FALSE], Tail(factors))

(* getAllIndependentConstraintsSets: the first factor swallows the later    *)
(* ones it meets; all over again while that has added an element to one.    *)
Swallow(factors) ==
  FoldLeft(LAMBDA acc, f :
             IF ElementsOf(f) \cap ElementsOf(acc.cur) # {}
             THEN [acc EXCEPT !.cur = @ \cup f,
                              !.more = @ \/ ~(ElementsOf(f) \subseteq ElementsOf(acc.cur))]
             ELSE [acc EXCEPT !.keep = Append(@, f)],
           [cur |-> factors[1], keep |-> << >>, more |-> FALSE], Tail(factors))

RECURSIVE Sweep(_, _, _), AllSweeps(_)
Sweep(factors, done, more) ==
  IF factors = << >> THEN [factors |-> done, more |-> more]
  ELSE LET s == Swallow(factors) IN Sweep(s.keep, Append(done, s.cur), more \/ s.more)
AllSweeps(factors) ==
  LET s == Sweep(factors, << >>, FALSE) IN IF s.more THEN AllSweeps(s.factors) ELSE s.factors
getAllIndependentConstraintsSets(cs) == AllSweeps([i \in DOMAIN cs |-> {cs[i]}])

-----------------------------------------------------------------------------
(* Solver::getRange of an expression with the possible values vs: three     *)
(* binary searches, each for the least number a query is true of.           *)
RECURSIVE Bisect(_, _, _)
Bisect(lo, hi, yes) ==
  IF lo >= hi THEN lo
  ELSE LET mid == lo + (hi - lo) \div 2
       IN  IF mid \in yes THEN Bisect(lo, mid, yes) ELSE Bisect(mid + 1, hi, yes)
getRange(vs) ==
  LET top == 0 .. 2 ^ RangeWidth - 1
      bits == Bisect(0, RangeWidth, {m \in 0 .. RangeWidth : \A v \in vs : v \div 2 ^ m = 0})
      min == IF 0 \in vs THEN 0
             ELSE Bisect(0, 2 ^ bits - 1, {m \in top : \E v \in vs : v <= m})
      max == Bisect(min, 2 ^ bits - 1, {m \in top : \A v \in vs : v <= m})
  IN  <<min, max>>

-----------------------------------------------------------------------------
(* Properties.                                                              *)

(* A search of the trie finds an entry if and only if one qualifies, for    *)
(* every kind of entry asked for.                                           *)
TrieFinds(key) ==
  LET trie == Trie(caches)
      sols == {r.sol : r \in caches.cex}
      Exact(found, entries) == found \subseteq entries /\ (found = {} <=> entries = {})
  IN  /\ Exact(findSuperset(trie, << >>, InOrder(key), sols \ {{}}), FindSuperset(caches, key))
      /\ \A good \in {{}, Solutions(key)} :
           Exact(findSubset(trie, << >>, InOrder(key), {s \in sols : s \subseteq good}),
                 FindSubset(caches, key, good))

(* The algorithms find what the other modules say: the trie on every cache  *)
(* that calls can build, for the key of the last call; before the first     *)
(* call, the work lists for every path condition and the range for every    *)
(* set of possible values.                                                  *)
AlgorithmsAreExact ==
  /\ call = NoCall => TrieFinds(IF last.e \in Exprs THEN Key(last.c, last.e) ELSE last.c)
  /\ calls = 0 =>
       /\ \A c \in PathConditions :
            /\ \A e \in Exprs : getIndependentConstraints(InOrder(c), e) = Required(c, e)
            /\ ToSet(getAllIndependentConstraintsSets(InOrder(c))) = Factors(c)
       /\ \A vs \in SUBSET (0 .. 2 ^ RangeWidth - 1) \ {{}} : getRange(vs) = <<Min(vs), Max(vs)>>

=============================================================================

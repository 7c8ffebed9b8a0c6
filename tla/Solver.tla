------------------------------ MODULE Solver ------------------------------
(* What KLEE's solver interface promises (include/klee/Solver/Solver.h):    *)
(* a query is a set of constraints and a Boolean expression over the        *)
(* elements of symbolic arrays.  An expression is known by the assignments  *)
(* that make it true and by the array elements it reads; that two           *)
(* expressions are equal means that they are written alike, so distinct     *)
(* expressions may have the same assignments.                               *)

CONSTANTS
  Elements,   \* elements of the symbolic arrays
  ArrayOf,    \* the array of an element
  Values,     \* values of an element
  Zero,       \* the value of an element no assignment binds
  Exprs,      \* Boolean expressions that are not constants
  Sat,        \* assignments that make an expression true
  Reads,      \* elements an expression reads; all of an array if by a
              \* symbolic index
  Neg         \* Expr::createIsZero; it may rewrite, so Neg[Neg[e]] need not be e

Assignments == [Elements -> Values]

Agree(a, b, xs) == \A x \in xs : a[x] = b[x]

ASSUME ExprAssumption ==
  /\ Sat \in [Exprs -> SUBSET Assignments]
  /\ Reads \in [Exprs -> SUBSET Elements]
  /\ Neg \in [Exprs -> Exprs]
  /\ Zero \in Values

ASSUME NegAssumption ==
  \A e \in Exprs : Sat[Neg[e]] = Assignments \ Sat[e] /\ Reads[Neg[e]] = Reads[e]

ASSUME ReadsAssumption ==
  \A e \in Exprs :
    /\ Reads[e] # {}
    /\ \A a, b \in Assignments : Agree(a, b, Reads[e]) => (a \in Sat[e] <=> b \in Sat[e])

(* Assignments under which every expression of the set holds. *)
Solutions(key) == {a \in Assignments : \A k \in key : a \in Sat[k]}

(* A path condition: a state lives as long as its constraints can hold. *)
PathConditions == {c \in SUBSET Exprs : Solutions(c) # {}}

(* Solver::Validity of an expression under constraints. *)
Validity(c, e) ==
  IF Solutions(c) \subseteq Sat[e] THEN "True"
  ELSE IF Solutions(c) \cap Sat[e] = {} THEN "False"
  ELSE "Unknown"

(* The arrays of a set of expressions: an assignment binds whole arrays.    *)
ArraysOf(key) == {ArrayOf[x] : x \in UNION {Reads[k] : k \in key}}

(* The core solver finds an assignment of the arrays of the key or shows    *)
(* that there is none.  A solution is a set of at most one assignment.      *)
CoreSolver(key) ==
  IF Solutions(key) = {} THEN {{}}
  ELSE {{a} : a \in {a \in Solutions(key) :
                       \A x \in Elements : ArrayOf[x] \notin ArraysOf(key) => a[x] = Zero}}

===========================================================================

---------------------------- MODULE CustomCheckers ----------------------------
(***************************************************************************)
(* The semantic checkers of lib/Core/CustomCheckerHandler.cpp, which see   *)
(* every instruction that any state executes: PmemObjTxAddChecker looks    *)
(* for ranges that are added twice to a libpmemobj transaction,            *)
(* TxOnlyChecker for stores to some structures that no transaction covers. *)
(* The Executor has one of each, for all its states.                       *)
(*                                                                         *)
(* An address or a size may be symbolic: a range is a function from the    *)
(* worlds (the values of the program's input) to intervals, and a state's  *)
(* path is the set of worlds that its constraints allow.                   *)
(***************************************************************************)
EXTENDS Naturals

CONSTANTS
  States,      \* ids of execution states
  Worlds,      \* values of the symbolic input
  Ranges,      \* ranges of a pool that the program names, as offsets in the pool
  Base,        \* address of the pool: the program stores at Base + offset
  MaxDepth     \* bound on the nesting of transactions

\* A range has a byte in every world: those of stores and structures do, and a
\* program adds no empty range to a transaction.
ASSUME CheckersAssumption ==
  /\ Worlds # {}
  /\ \A r \in Ranges : r \in [Worlds -> Nat \X Nat] /\ \A w \in Worlds : r[w][1] < r[w][2]
  /\ Base \in Nat /\ MaxDepth \in Nat

VARIABLES
  path,     \* path[s] : the worlds of s, {} if there is no such state
  txAdd,    \* the PmemObjTxAddChecker
  txOnly,   \* the TxOnlyChecker
  depth,    \* history: depth[s], the transactions that s is in
  added,    \* history: added[s], the ranges that s added since the outermost began
  plain,    \* history: no state has forked, no transaction has been nested
  step      \* history: the last instruction, and what was reported for it

vars == <<path, txAdd, txOnly, depth, added, plain, step>>

\* The address range of a range of the pool
Address(r) == [w \in Worlds |-> <<Base + r[w][1], Base + r[w][2]>>]

NewChecker == [in_tx |-> FALSE, added_ranges |-> {}]

Init ==
  /\ path \in {[s \in States |-> IF s = s0 THEN Worlds ELSE {}] : s0 \in States}
  /\ txAdd = NewChecker
  /\ txOnly = [in_tx |-> FALSE, added_ranges |-> {}, needed |-> {}]
  /\ depth = [s \in States |-> 0]
  /\ added = [s \in States |-> {}]
  /\ plain = TRUE
  /\ step = [kind |-> "other", reports |-> {}, dup |-> FALSE, bare |-> FALSE]

MeetClosed(q, r, w) == q[w][1] <= r[w][2] /\ r[w][1] <= q[w][2]

\* Two ranges overlap in world w.
Meet(q, r, w) == q[w][1] < r[w][2] /\ r[w][1] < q[w][2]

\* It may be true that r overlaps one of the ranges.
Overlaps(s, ranges, r) == \E q \in ranges : \E w \in path[s] : Meet(q, r, w)

IsCall(i) == i.kind \in {"call", "begin", "end", "add"}

CheckTxBegin(c, i) == IF i.kind = "begin" THEN [c EXCEPT !.in_tx = TRUE] ELSE c

NocheckTxAdd(c, i) ==
  IF i.kind = "add" THEN [c EXCEPT !.added_ranges = @ \cup {i.range}] ELSE c

CheckTxEndNever(c, i) == c
CheckTxEnd(c, i) == IF i.kind = "end" THEN [c EXCEPT !.in_tx = FALSE] ELSE c

\* Outside of a transaction no range counts.
ForgetRanges(c) == IF c.in_tx THEN c ELSE [c EXCEPT !.added_ranges = {}]

\* What each checker knows of transactions after the instruction: only calls matter.
TxAddAfter(c, i) ==
  IF IsCall(i) THEN ForgetRanges(CheckTxEnd(NocheckTxAdd(CheckTxBegin(c, i), i), i)) ELSE c

TxOnlyAfterEndFirst(c, i) ==
  IF IsCall(i) THEN NocheckTxAdd(CheckTxBegin(ForgetRanges(CheckTxEnd(c, i)), i), i) ELSE c

TxOnlyAfter(c, i) ==
  IF IsCall(i) THEN ForgetRanges(CheckTxEnd(NocheckTxAdd(CheckTxBegin(c, i), i), i)) ELSE c

\* PmemObjTxAddChecker: the range is compared before it is added.
TxAddReports(s, i) ==
  IF i.kind = "add" /\ Overlaps(s, txAdd.added_ranges, i.range)
  THEN {"PM_SemanticPerformance"} ELSE {}

\* TxOnlyChecker: a store to a structure that needs a transaction must be in one, and
\* its range added.
InTransaction(s, c, r) == c.in_tx /\ Overlaps(s, c.added_ranges, r)

TxOnlyReports(s, i) ==
  IF /\ i.kind = "store"
     /\ Overlaps(s, txOnly.needed, Address(i.range))
     /\ ~InTransaction(s, txOnly, Address(i.range))
  THEN {"PM_SemanticCorrectness"} ELSE {}

\* Operands of the instruction that point to the structures under test, in persistent
\* memory, are noted after the instruction itself has been checked.
Noted(c, operands) == [c EXCEPT !.needed = @ \cup {Address(r) : r \in operands}]

\* The bytes of a range in world w, and whether two ranges may share one: what the
\* history variables count as overlapping
Bytes(r, w) == r[w][1] .. (r[w][2] - 1)
MayShare(s, q, r) == \E w \in path[s] : Bytes(q, w) \cap Bytes(r, w) # {}

\* State s executes i, and CustomCheckerHandler::handle runs the checkers on it.
Handle(s, i, operands) ==
  /\ path[s] # {}
  /\ txAdd' = TxAddAfter(txAdd, i)
  /\ txOnly' = Noted(TxOnlyAfter(txOnly, i), operands)
  /\ step' = [kind |-> i.kind,
              reports |-> TxAddReports(s, i) \cup TxOnlyReports(s, i),
              dup |-> i.kind = "add" /\ \E q \in added[s] : MayShare(s, q, i.range),
              bare |-> /\ i.kind = "store" /\ depth[s] = 0
                       /\ \E q \in txOnly.needed : MayShare(s, q, Address(i.range))]
  /\ UNCHANGED path

\* What the program does: transactions nest, and ranges are added inside them.
Begin(s) ==
  /\ depth[s] < MaxDepth
  /\ Handle(s, [kind |-> "begin"], {})
  /\ depth' = [depth EXCEPT ![s] = @ + 1]
  /\ plain' = (plain /\ depth[s] = 0)
  /\ UNCHANGED added

End(s) ==
  /\ depth[s] > 0
  /\ Handle(s, [kind |-> "end"], {})
  /\ depth' = [depth EXCEPT ![s] = @ - 1]
  /\ added' = IF depth[s] = 1 THEN [added EXCEPT ![s] = {}] ELSE added
  /\ UNCHANGED plain

Add(s, r) ==
  /\ depth[s] > 0
  /\ Handle(s, [kind |-> "add", range |-> r], {})
  /\ added' = [added EXCEPT ![s] = @ \cup {r}]
  /\ UNCHANGED <<depth, plain>>

Store(s, r, operands) ==
  /\ Handle(s, [kind |-> "store", range |-> r], operands)
  /\ UNCHANGED <<depth, added, plain>>

Other(s, kind, operands) ==
  /\ Handle(s, [kind |-> kind], operands)
  /\ UNCHANGED <<depth, added, plain>>

\* The checkers are not copied.
Fork(s, t, worlds) ==
  /\ path[s] # {} /\ path[t] = {}
  /\ worlds # {} /\ worlds \subseteq path[s] /\ worlds # path[s]
  /\ path' = [path EXCEPT ![s] = worlds, ![t] = path[s] \ worlds]
  /\ depth' = [depth EXCEPT ![t] = depth[s]]
  /\ added' = [added EXCEPT ![t] = added[s]]
  /\ plain' = FALSE
  /\ UNCHANGED <<txAdd, txOnly, step>>

\* A state may end anywhere, in the middle of a transaction too.
Terminate(s) ==
  /\ path[s] # {}
  /\ path' = [path EXCEPT ![s] = {}]
  /\ depth' = [depth EXCEPT ![s] = 0]
  /\ added' = [added EXCEPT ![s] = {}]
  /\ UNCHANGED <<txAdd, txOnly, plain, step>>

Next ==
  \E s \in States :
    \/ Begin(s) \/ End(s) \/ Terminate(s)
    \/ \E r \in Ranges : Add(s, r)
    \/ \E operands \in {{}} \cup {{r} : r \in Ranges} :
         \/ \E r \in Ranges : Store(s, r, operands)
         \/ \E kind \in {"call", "other"} : Other(s, kind, operands)
    \/ \E t \in States \ {s}, worlds \in SUBSET Worlds : Fork(s, t, worlds)

Spec == Init /\ [][Next]_vars

(***************************************************************************)
(* Properties                                                              *)
(***************************************************************************)
\* As long as one state runs and its transactions do not nest, a range is reported as
\* added twice exactly if some input of the path makes it overlap a range that the same
\* transaction has added before (PmemObjTxAddChecker::checkTxAdd and the clearing of
\* added_ranges).
TxAddIsExact ==
  plain /\ step.kind = "add" => ("PM_SemanticPerformance" \in step.reports <=> step.dup)

\* As long as one state runs and its transactions do not nest, a store outside of every
\* transaction that may hit a structure under test is reported (TxOnlyChecker),
\* whatever transactions came before it.
BareStoreIsReported ==
  plain /\ step.bare => "PM_SemanticCorrectness" \in step.reports

\* However the calls of several states interleave, the two checkers have the same view
\* of the transaction, and outside of one neither remembers a range: the next one to
\* begin, of whatever state, starts with none.
CheckersAgree ==
  /\ txOnly.in_tx = txAdd.in_tx /\ txOnly.added_ranges = txAdd.added_ranges
  /\ ~txAdd.in_tx => txAdd.added_ranges = {}
=============================================================================

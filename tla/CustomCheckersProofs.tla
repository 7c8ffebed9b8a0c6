------------------------ MODULE CustomCheckersProofs ------------------------
(***************************************************************************)
(* The semantic checkers report what they should as long as one state runs *)
(* and its transactions do not nest, and never drift apart, for any number *)
(* of states, inputs and ranges.                                           *)
(***************************************************************************)
EXTENDS CustomCheckers, TLAPS

\* The structures under test are at addresses of ranges of the pool.
Addresses == {Address(r) : r \in Ranges}

TypeInv ==
  /\ path \in [States -> SUBSET Worlds]
  /\ depth \in [States -> Nat]
  /\ added \in [States -> SUBSET Ranges]
  /\ plain \in BOOLEAN
  /\ txAdd \in [in_tx : BOOLEAN, added_ranges : SUBSET Ranges]
  /\ txOnly \in [in_tx : BOOLEAN, added_ranges : SUBSET Ranges, needed : SUBSET Addresses]

\* While no state has forked and no transaction is nested, the checkers know exactly
\* the transaction of the one state.
OneStateKnown ==
  plain =>
    \A s \in States : path[s] # {} =>
      /\ \A t \in States \ {s} : path[t] = {}
      /\ depth[s] \in {0, 1}
      /\ txAdd.in_tx <=> depth[s] = 1
      /\ txAdd.added_ranges = added[s]

IInv == TypeInv /\ OneStateKnown /\ CheckersAgree /\ TxAddIsExact /\ BareStoreIsReported

-----------------------------------------------------------------------------
(* The operators                                                           *)

\* The address of a range has the shape of the range.
LEMMA AddressType ==
  ASSUME NEW r \in Ranges
  PROVE  /\ Address(r) \in [Worlds -> Nat \X Nat]
         /\ \A w \in Worlds : Address(r)[w][1] < Address(r)[w][2]
<1>1. \A w \in Worlds : r[w][1] \in Nat /\ r[w][2] \in Nat /\ r[w][1] < r[w][2]
  BY CheckersAssumption
<1>2. \A w \in Worlds : Address(r)[w] = <<Base + r[w][1], Base + r[w][2]>>
  BY DEF Address
<1>3. Address(r) \in [Worlds -> Nat \X Nat]
  BY <1>1, CheckersAssumption DEF Address
<1>4. ASSUME NEW w \in Worlds PROVE Address(r)[w][1] < Address(r)[w][2]
  BY <1>1, <1>2, CheckersAssumption
<1> QED
  BY <1>3, <1>4

\* The test of the checkers, which compares ends, finds a common byte if there is one.
LEMMA MeetIsSharing ==
  ASSUME NEW q \in [Worlds -> Nat \X Nat], NEW r \in [Worlds -> Nat \X Nat],
         NEW w \in Worlds, q[w][1] < q[w][2], r[w][1] < r[w][2]
  PROVE  Meet(q, r, w) <=> Bytes(q, w) \cap Bytes(r, w) # {}
<1>1. q[w][1] \in Nat /\ q[w][2] \in Nat /\ r[w][1] \in Nat /\ r[w][2] \in Nat
  OBVIOUS
<1>2. ASSUME Meet(q, r, w) PROVE Bytes(q, w) \cap Bytes(r, w) # {}
  <2>1. CASE q[w][1] <= r[w][1]
    <3>1. r[w][1] \in Bytes(q, w) /\ r[w][1] \in Bytes(r, w)
      BY <1>1, <1>2, <2>1 DEF Meet, Bytes
    <3> QED
      BY <3>1
  <2>2. CASE r[w][1] < q[w][1]
    <3>1. q[w][1] \in Bytes(q, w) /\ q[w][1] \in Bytes(r, w)
      BY <1>1, <1>2, <2>2 DEF Meet, Bytes
    <3> QED
      BY <3>1
  <2> QED
    BY <1>1, <2>1, <2>2
<1>3. ASSUME NEW b \in Bytes(q, w) \cap Bytes(r, w) PROVE Meet(q, r, w)
  BY <1>1, <1>3 DEF Meet, Bytes
<1> QED
  BY <1>2, <1>3

\* For a state of any path: the query of the checkers is the question whether some
\* range may share a byte.
LEMMA OverlapsIsSharing ==
  ASSUME TypeInv, NEW s \in States, NEW R, NEW r,
         \/ R \subseteq Ranges /\ r \in Ranges
         \/ R \subseteq Addresses /\ r \in Addresses
  PROVE  Overlaps(s, R, r) <=> \E q \in R : MayShare(s, q, r)
<1>1. \A x \in Ranges \cup Addresses :
         x \in [Worlds -> Nat \X Nat] /\ \A w \in Worlds : x[w][1] < x[w][2]
  BY AddressType, CheckersAssumption DEF Addresses
<1>2. path[s] \subseteq Worlds
  BY DEF TypeInv
<1>3. ASSUME NEW q \in R, NEW w \in path[s]
      PROVE  Meet(q, r, w) <=> Bytes(q, w) \cap Bytes(r, w) # {}
  BY <1>1, <1>2, MeetIsSharing
<1> QED
  BY <1>3 DEF Overlaps, MayShare

\* The fields of either checker, which outside of a transaction knows no range.
IsChecker(c) ==
  /\ c.in_tx \in BOOLEAN
  /\ \/ c = [in_tx |-> c.in_tx, added_ranges |-> c.added_ranges]
     \/ c = [in_tx |-> c.in_tx, added_ranges |-> c.added_ranges, needed |-> c.needed]
  /\ ~c.in_tx => c.added_ranges = {}

\* What a checker knows after each kind of instruction.
LEMMA CheckerEffects ==
  ASSUME NEW c, NEW i, IsChecker(c)
  PROVE  /\ TxAddAfter(c, i) = TxOnlyAfter(c, i)
         /\ i.kind \in {"call", "store", "other"} => TxAddAfter(c, i) = c
         /\ i.kind = "begin" => TxAddAfter(c, i) = [c EXCEPT !.in_tx = TRUE]
         /\ i.kind = "end" => TxAddAfter(c, i) = [c EXCEPT !.in_tx = FALSE, !.added_ranges = {}]
         /\ i.kind = "add" /\ c.in_tx =>
              TxAddAfter(c, i) = [c EXCEPT !.added_ranges = @ \cup {i.range}]
         /\ i.kind = "add" /\ ~c.in_tx => TxAddAfter(c, i) = c
<1> USE DEF TxAddAfter, ForgetRanges, CheckTxBegin, CheckTxEnd, NocheckTxAdd, IsCall, IsChecker
<1>1. TxAddAfter(c, i) = TxOnlyAfter(c, i)
  BY DEF TxOnlyAfter
<1>2. i.kind \in {"other", "store"} => TxAddAfter(c, i) = c
  OBVIOUS
<1>3. i.kind = "call" => TxAddAfter(c, i) = c
  OBVIOUS
<1>4. i.kind = "begin" => TxAddAfter(c, i) = [c EXCEPT !.in_tx = TRUE]
  OBVIOUS
<1>5. i.kind = "end" => TxAddAfter(c, i) = [c EXCEPT !.in_tx = FALSE, !.added_ranges = {}]
  OBVIOUS
<1>6. i.kind = "add" /\ c.in_tx => TxAddAfter(c, i) = [c EXCEPT !.added_ranges = @ \cup {i.range}]
  OBVIOUS
<1>7. i.kind = "add" /\ ~c.in_tx => TxAddAfter(c, i) = c
  BY Zenon
<1> QED
  BY <1>1, <1>2, <1>3, <1>4, <1>5, <1>6, <1>7, Zenon

\* The same of both checkers, whose views of the transaction are equal.
LEMMA HandleEffects ==
  ASSUME TypeInv, CheckersAgree, NEW s \in States, NEW i, NEW operands \in SUBSET Ranges,
         i.kind = "add" => i.range \in Ranges,
         i.kind \in {"call", "store", "other", "begin", "end", "add"},
         Handle(s, i, operands)
  PROVE  /\ txAdd' \in [in_tx : BOOLEAN, added_ranges : SUBSET Ranges]
         /\ txOnly' \in [in_tx : BOOLEAN, added_ranges : SUBSET Ranges, needed : SUBSET Addresses]
         /\ CheckersAgree'
         /\ i.kind \in {"call", "store", "other"} => txAdd' = txAdd
         /\ i.kind = "begin" => txAdd'.in_tx /\ txAdd'.added_ranges = txAdd.added_ranges
         /\ i.kind = "end" => ~txAdd'.in_tx /\ txAdd'.added_ranges = {}
         /\ i.kind = "add" /\ txAdd.in_tx =>
              txAdd'.in_tx /\ txAdd'.added_ranges = txAdd.added_ranges \cup {i.range}
<1> DEFINE A == TxAddAfter(txAdd, i)
           O == TxOnlyAfter(txOnly, i)
<1>1. txAdd' = A /\ txOnly' = Noted(O, operands)
  BY DEF Handle
<1>2. IsChecker(txAdd) /\ IsChecker(txOnly)
  BY DEF TypeInv, CheckersAgree, IsChecker
<1>3. O = TxAddAfter(txOnly, i)
  BY <1>2, CheckerEffects, Zenon
<1>4. /\ i.kind \in {"call", "store", "other"} => A = txAdd
      /\ i.kind = "begin" => A = [txAdd EXCEPT !.in_tx = TRUE]
      /\ i.kind = "end" => A = [txAdd EXCEPT !.in_tx = FALSE, !.added_ranges = {}]
      /\ i.kind = "add" /\ txAdd.in_tx => A = [txAdd EXCEPT !.added_ranges = @ \cup {i.range}]
      /\ i.kind = "add" /\ ~txAdd.in_tx => A = txAdd
  BY <1>2, CheckerEffects, ZenonT(30)
<1>5. /\ i.kind \in {"call", "store", "other"} => O = txOnly
      /\ i.kind = "begin" => O = [txOnly EXCEPT !.in_tx = TRUE]
      /\ i.kind = "end" => O = [txOnly EXCEPT !.in_tx = FALSE, !.added_ranges = {}]
      /\ i.kind = "add" /\ txOnly.in_tx => O = [txOnly EXCEPT !.added_ranges = @ \cup {i.range}]
      /\ i.kind = "add" /\ ~txOnly.in_tx => O = txOnly
  <2> HIDE DEF O
  <2> QED
    BY <1>2, <1>3, CheckerEffects, Zenon
<1> HIDE DEF A, O
<1>6. /\ A \in [in_tx : BOOLEAN, added_ranges : SUBSET Ranges]
      /\ O \in [in_tx : BOOLEAN, added_ranges : SUBSET Ranges, needed : SUBSET Addresses]
      /\ O.in_tx = A.in_tx /\ O.added_ranges = A.added_ranges
      /\ ~A.in_tx => A.added_ranges = {}
  <2> USE DEF TypeInv, CheckersAgree
  <2>1. CASE i.kind \in {"call", "store", "other"}
    BY <1>4, <1>5, <2>1
  <2>2. CASE i.kind = "begin"
    BY <1>4, <1>5, <2>2, Zenon
  <2>3. CASE i.kind = "end"
    BY <1>4, <1>5, <2>3, Zenon
  <2>4. CASE i.kind = "add" /\ txAdd.in_tx
    <3>1. txOnly.in_tx /\ i.range \in Ranges
      BY <2>4
    <3>2. /\ A = [txAdd EXCEPT !.added_ranges = @ \cup {i.range}]
          /\ O = [txOnly EXCEPT !.added_ranges = @ \cup {i.range}]
      BY <1>4, <1>5, <2>4, <3>1
    <3> QED
      BY <2>4, <3>1, <3>2
  <2>5. CASE i.kind = "add" /\ ~txAdd.in_tx
    BY <1>4, <1>5, <2>5
  <2> QED
    BY <2>1, <2>2, <2>3, <2>4, <2>5
<1>7. {Address(r) : r \in operands} \subseteq Addresses
  BY DEF Addresses
<1>8. /\ Noted(O, operands) \in
           [in_tx : BOOLEAN, added_ranges : SUBSET Ranges, needed : SUBSET Addresses]
      /\ Noted(O, operands).in_tx = O.in_tx
      /\ Noted(O, operands).added_ranges = O.added_ranges
  BY <1>6, <1>7 DEF Noted
<1>9. CheckersAgree'
  BY <1>1, <1>6, <1>8 DEF CheckersAgree
<1> QED
  BY <1>1, <1>4, <1>6, <1>8, <1>9, ZenonT(30) DEF TypeInv

\* What is reported for an instruction of the one state is what should be.
LEMMA HandleReports ==
  ASSUME IInv, NEW s \in States, NEW i, NEW operands \in SUBSET Ranges,
         i.kind \in {"add", "store"} => i.range \in Ranges,
         Handle(s, i, operands), plain' => plain
  PROVE  TxAddIsExact' /\ BareStoreIsReported'
<1>1. path[s] # {}
  BY DEF Handle
<1>2. /\ step'.kind = i.kind
      /\ step'.reports = TxAddReports(s, i) \cup TxOnlyReports(s, i)
      /\ step'.dup = (i.kind = "add" /\ \E q \in added[s] : MayShare(s, q, i.range))
      /\ step'.bare = (/\ i.kind = "store" /\ depth[s] = 0
                       /\ \E q \in txOnly.needed : MayShare(s, q, Address(i.range)))
  BY DEF Handle
<1>3. ASSUME plain, i.kind = "add"
      PROVE  "PM_SemanticPerformance" \in step'.reports <=> step'.dup
  <2>1. txAdd.added_ranges = added[s] /\ added[s] \subseteq Ranges
    BY <1>1, <1>3 DEF IInv, OneStateKnown, TypeInv
  <2>2. Overlaps(s, txAdd.added_ranges, i.range) <=> \E q \in added[s] : MayShare(s, q, i.range)
    BY <1>3, <2>1, OverlapsIsSharing DEF IInv
  <2>3. "PM_SemanticPerformance" \in step'.reports <=> Overlaps(s, txAdd.added_ranges, i.range)
    BY <1>2, <1>3 DEF TxAddReports, TxOnlyReports
  <2> QED
    BY <1>2, <1>3, <2>2, <2>3, Zenon
<1>4. ASSUME plain, step'.bare PROVE "PM_SemanticCorrectness" \in step'.reports
  <2>1. /\ i.kind = "store" /\ depth[s] = 0
        /\ \E q \in txOnly.needed : MayShare(s, q, Address(i.range))
    BY <1>2, <1>4, Zenon
  <2>2. ~txOnly.in_tx
    BY <1>1, <1>4, <2>1 DEF IInv, OneStateKnown, CheckersAgree
  <2>3. txOnly.needed \subseteq Addresses /\ Address(i.range) \in Addresses
    BY <2>1 DEF IInv, TypeInv, Addresses
  <2>4. Overlaps(s, txOnly.needed, Address(i.range))
    BY <2>1, <2>3, OverlapsIsSharing DEF IInv
  <2>5. TxOnlyReports(s, i) = {"PM_SemanticCorrectness"}
    BY <2>1, <2>2, <2>4 DEF TxOnlyReports, InTransaction
  <2> QED
    BY <1>2, <2>5
<1> QED
  BY <1>2, <1>3, <1>4 DEF TxAddIsExact, BareStoreIsReported

-----------------------------------------------------------------------------
(* The invariant is inductive.                                             *)

\* The invariant holds before the first instruction.
LEMMA InitOK == Init => IInv
<1> SUFFICES ASSUME Init PROVE IInv
  OBVIOUS
<1>1. PICK s0 \in States : path = [s \in States |-> IF s = s0 THEN Worlds ELSE {}]
  BY DEF Init
<1>2. TypeInv
  BY <1>1 DEF Init, TypeInv, NewChecker
<1>3. OneStateKnown
  BY <1>1 DEF Init, OneStateKnown, NewChecker
<1>4. CheckersAgree /\ TxAddIsExact /\ BareStoreIsReported
  BY DEF Init, CheckersAgree, TxAddIsExact, BareStoreIsReported, NewChecker
<1> QED
  BY <1>2, <1>3, <1>4 DEF IInv

\* Every step keeps the invariant.
LEMMA NextOK == IInv /\ [Next]_vars => IInv'
<1> SUFFICES ASSUME IInv, [Next]_vars PROVE IInv'
  OBVIOUS
<1> USE DEF IInv
<1>1. ASSUME NEW s \in States, Begin(s) PROVE IInv'
  <2> DEFINE i == [kind |-> "begin"]
  <2>1. Handle(s, i, {}) /\ i.kind = "begin" /\ path' = path /\ path[s] # {}
    BY <1>1 DEF Begin, Handle
  <2>2. /\ depth' = [depth EXCEPT ![s] = @ + 1] /\ added' = added
        /\ plain' = (plain /\ depth[s] = 0)
    BY <1>1 DEF Begin
  <2> HIDE DEF i
  <2>3. TypeInv' /\ CheckersAgree'
    BY <2>1, <2>2, HandleEffects DEF TypeInv
  <2>4. OneStateKnown'
    <3>1. txAdd'.in_tx /\ txAdd'.added_ranges = txAdd.added_ranges
      BY <2>1, HandleEffects
    <3> SUFFICES ASSUME plain', NEW u \in States, path[u] # {}
                 PROVE  /\ \A t \in States \ {u} : path[t] = {}
                        /\ depth'[u] \in {0, 1}
                        /\ txAdd'.in_tx <=> depth'[u] = 1
                        /\ txAdd'.added_ranges = added'[u]
      BY <2>1 DEF OneStateKnown
    <3>2. u = s /\ plain /\ depth[s] = 0
      BY <2>1, <2>2, Zenon DEF OneStateKnown
    <3>3. /\ \A t \in States \ {u} : path[t] = {}
          /\ depth[s] \in {0, 1}
          /\ txAdd.in_tx <=> depth[s] = 1
          /\ txAdd.added_ranges = added[s]
      BY <3>2, <2>1 DEF OneStateKnown
    <3>4. depth'[u] = 1 /\ added'[u] = added[s]
      BY <2>2, <3>2, <3>3 DEF TypeInv
    <3> QED
      BY <3>1, <3>3, <3>4
  <2> QED
    BY <2>1, <2>2, <2>3, <2>4, HandleReports, Zenon
<1>2. ASSUME NEW s \in States, End(s) PROVE IInv'
  <2> DEFINE i == [kind |-> "end"]
  <2>1. Handle(s, i, {}) /\ i.kind = "end" /\ path' = path /\ path[s] # {}
    BY <1>2 DEF End, Handle
  <2>2. /\ depth[s] > 0 /\ depth' = [depth EXCEPT ![s] = @ - 1]
        /\ added' = (IF depth[s] = 1 THEN [added EXCEPT ![s] = {}] ELSE added)
        /\ plain' = plain
    BY <1>2 DEF End
  <2> HIDE DEF i
  <2>3. TypeInv' /\ CheckersAgree'
    BY <2>1, <2>2, HandleEffects DEF TypeInv
  <2>4. OneStateKnown'
    <3>1. ~txAdd'.in_tx /\ txAdd'.added_ranges = {}
      BY <2>1, HandleEffects
    <3> SUFFICES ASSUME plain', NEW u \in States, path[u] # {}
                 PROVE  /\ \A t \in States \ {u} : path[t] = {}
                        /\ depth'[u] \in {0, 1}
                        /\ txAdd'.in_tx <=> depth'[u] = 1
                        /\ txAdd'.added_ranges = added'[u]
      BY <2>1 DEF OneStateKnown
    <3>2. u = s /\ plain
      BY <2>1, <2>2 DEF OneStateKnown
    <3>3. /\ \A t \in States \ {u} : path[t] = {}
          /\ depth[s] \in {0, 1}
          /\ txAdd.in_tx <=> depth[s] = 1
          /\ txAdd.added_ranges = added[s]
      BY <3>2, <2>1 DEF OneStateKnown
    <3> QED
      BY <2>2, <3>1, <3>2, <3>3 DEF TypeInv
  <2> QED
    BY <2>1, <2>2, <2>3, <2>4, HandleReports
<1>3. ASSUME NEW s \in States, NEW r \in Ranges, Add(s, r) PROVE IInv'
  <2> DEFINE i == [kind |-> "add", range |-> r]
  <2>1. Handle(s, i, {}) /\ i.kind = "add" /\ i.range = r /\ path' = path /\ path[s] # {}
    BY <1>3 DEF Add, Handle
  <2>2. /\ depth[s] > 0 /\ added' = [added EXCEPT ![s] = @ \cup {r}]
        /\ depth' = depth /\ plain' = plain
    BY <1>3 DEF Add
  <2> HIDE DEF i
  <2>3. TypeInv' /\ CheckersAgree'
    BY <2>1, <2>2, HandleEffects DEF TypeInv
  <2>4. OneStateKnown'
    <3>1. txAdd.in_tx => txAdd'.in_tx /\ txAdd'.added_ranges = txAdd.added_ranges \cup {r}
      BY <2>1, HandleEffects
    <3> SUFFICES ASSUME plain', NEW u \in States, path[u] # {}
                 PROVE  /\ \A t \in States \ {u} : path[t] = {}
                        /\ depth'[u] \in {0, 1}
                        /\ txAdd'.in_tx <=> depth'[u] = 1
                        /\ txAdd'.added_ranges = added'[u]
      BY <2>1 DEF OneStateKnown
    <3>2. u = s /\ plain
      BY <2>1, <2>2 DEF OneStateKnown
    <3>3. /\ \A t \in States \ {u} : path[t] = {}
          /\ depth[s] \in {0, 1}
          /\ txAdd.in_tx <=> depth[s] = 1
          /\ txAdd.added_ranges = added[s]
      BY <3>2, <2>1 DEF OneStateKnown
    <3> QED
      BY <2>2, <3>1, <3>2, <3>3 DEF TypeInv
  <2> QED
    BY <2>1, <2>2, <2>3, <2>4, HandleReports
<1>4. ASSUME NEW s \in States, NEW i, NEW operands \in SUBSET Ranges, Handle(s, i, operands),
             i.kind \in {"call", "other", "store"}, i.kind = "store" => i.range \in Ranges,
             UNCHANGED <<depth, added, plain>>
      PROVE  IInv'
  <2>1. path' = path
    BY <1>4 DEF Handle
  <2>2. TypeInv' /\ CheckersAgree'
    BY <1>4, <2>1, HandleEffects DEF TypeInv
  <2>3. OneStateKnown'
    BY <1>4, <2>1, HandleEffects DEF TypeInv, OneStateKnown
  <2> QED
    BY <1>4, <2>2, <2>3, HandleReports
<1>5. ASSUME NEW s \in States, NEW r \in Ranges, NEW operands \in SUBSET Ranges,
             Store(s, r, operands)
      PROVE  IInv'
  <2>1. Handle(s, [kind |-> "store", range |-> r], operands) /\ UNCHANGED <<depth, added, plain>>
    BY <1>5 DEF Store
  <2>2. [kind |-> "store", range |-> r].kind = "store" /\ [kind |-> "store", range |-> r].range = r
    OBVIOUS
  <2> QED
    BY <1>4, <2>1, <2>2
<1>6. ASSUME NEW s \in States, NEW kind \in {"call", "other"}, NEW operands \in SUBSET Ranges,
             Other(s, kind, operands)
      PROVE  IInv'
  <2>1. Handle(s, [kind |-> kind], operands) /\ UNCHANGED <<depth, added, plain>>
    BY <1>6 DEF Other
  <2>2. [kind |-> kind].kind \in {"call", "other"}
    OBVIOUS
  <2> QED
    BY <1>4, <2>1, <2>2
<1>7. ASSUME NEW s \in States, NEW t \in States \ {s}, NEW worlds \in SUBSET Worlds,
             Fork(s, t, worlds)
      PROVE  IInv'
  <2>1. TypeInv'
    BY <1>7, Zenon DEF Fork, TypeInv
  <2>2. OneStateKnown' /\ CheckersAgree' /\ TxAddIsExact' /\ BareStoreIsReported'
    BY <1>7 DEF Fork, OneStateKnown, CheckersAgree, TxAddIsExact, BareStoreIsReported
  <2> QED
    BY <2>1, <2>2
<1>8. ASSUME NEW s \in States, Terminate(s) PROVE IInv'
  <2>1. TypeInv'
    BY <1>8 DEF Terminate, TypeInv
  <2>2. OneStateKnown'
    BY <1>8 DEF Terminate, OneStateKnown, TypeInv
  <2>3. CheckersAgree' /\ TxAddIsExact' /\ BareStoreIsReported'
    BY <1>8 DEF Terminate, CheckersAgree, TxAddIsExact, BareStoreIsReported
  <2> QED
    BY <2>1, <2>2, <2>3
<1>9. CASE UNCHANGED vars
  BY <1>9 DEF vars, TypeInv, OneStateKnown, CheckersAgree, TxAddIsExact, BareStoreIsReported
<1> QED
  BY <1>1, <1>2, <1>3, <1>5, <1>6, <1>7, <1>8, <1>9 DEF Next

\* What every reachable state satisfies.
LEMMA Invariant == Spec => []IInv
  BY InitOK, NextOK, PTL DEF Spec

\* Both checkers of CustomCheckerHandler::handle have the same view of the transaction,
\* whatever the states do, and outside of one they remember no range.
THEOREM CheckersNeverDrift == Spec => []CheckersAgree
<1>1. IInv => CheckersAgree
  BY DEF IInv
<1> QED
  BY <1>1, Invariant, PTL

\* With one state and no nesting, PmemObjTxAddChecker reports a range exactly if it may
\* share a byte with one that the transaction has added before.
THEOREM AddedTwiceIsExact == Spec => []TxAddIsExact
<1>1. IInv => TxAddIsExact
  BY DEF IInv
<1> QED
  BY <1>1, Invariant, PTL

\* With one state and no nesting, TxOnlyChecker reports every store outside of all
\* transactions that may hit a structure under test.
THEOREM BareStoresAreFound == Spec => []BareStoreIsReported
<1>1. IInv => BareStoreIsReported
  BY DEF IInv
<1> QED
  BY <1>1, Invariant, PTL
=============================================================================

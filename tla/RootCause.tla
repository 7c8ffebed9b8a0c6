----------------------------- MODULE RootCause -----------------------------
(***************************************************************************)
(* RootCauseManager (lib/Core/RootCause.{h,cpp}): the table of program     *)
(* locations that may turn out to be the cause of a persistent-memory bug, *)
(* and the occurrence counts of those that did.  One manager is shared by  *)
(* every execution state, so it is a value that the other modules thread   *)
(* through their actions; its operations are operators from a manager to   *)
(* a manager.                                                              *)
(*                                                                         *)
(* A location is an allocation site, an instruction with its call stack    *)
(* (one element of Insts stands for both) and a reason.  Two locations are *)
(* the same exactly when these three agree (operator== at RootCause.cpp).  *)
(* The hash of the stack string is the operator Hash; it is never 0 here,  *)
(* 0 being the id that the update lists read as "no root cause".           *)
(***************************************************************************)
EXTENDS Integers, FiniteSets

CONSTANTS AllocSites,   \* allocation sites of persistent objects
          Insts,        \* instructions together with their call stack
          NoAlloc,      \* the null allocation site (fences, custom checkers)
          Hash(_)       \* hash of a location's stack string

Correctness == {"PM_Unpersisted", "PM_SemanticCorrectness"}
Performance == {"PM_UnnecessaryFlush", "PM_FlushOnUnmodified",
                "PM_UnnecessaryFence", "PM_SemanticPerformance"}
Reasons == Correctness \cup Performance

Location == [alloc : AllocSites \cup {NoAlloc}, inst : Insts, reason : Reasons]

ASSUME HashAssumption == \A loc \in Location : Hash(loc) \in Nat \ {0}

Null == 0     \* getNullptr(): the id that means "no root cause"

(***************************************************************************)
(* The manager.  idToRoot maps an id to its location; maskedRoots and      *)
(* maskingRoots are fields of that location, occurences of its info.       *)
(***************************************************************************)
NewManager ==
  [rootToId |-> << >>, idToRoot |-> << >>,
   maskedRoots |-> << >>, maskingRoots |-> << >>, occurences |-> << >>,
   totalOccurences |-> 0, buggyIds |-> {},
   crtOccurences |-> 0, perfOccurences |-> 0, crtUniq |-> 0, perfUniq |-> 0]

UsedIds(m) == DOMAIN m.idToRoot

With(f, k, v) == [x \in DOMAIN f \cup {k} |-> IF x = k THEN v ELSE f[x]]

\* The hash, incremented until it is an id nobody uses.
GetNewId(m, loc) ==
  LET free == (Hash(loc) .. Hash(loc) + Cardinality(UsedIds(m))) \ UsedIds(m)
  IN  CHOOSE id \in free : \A other \in free : id <= other

\* Fault: one level only.
GetAllMaskedIDsShallow(m, ids) == ids

\* ids and everything they mask, directly or through one another.
GetAllMaskedIDs(m, ids) ==
  LET Closed(S) == \A i \in S : m.maskedRoots[i] \subseteq S
  IN  {i \in UsedIds(m) : \A S \in SUBSET UsedIds(m) :
                            (ids \subseteq S /\ Closed(S)) => i \in S}

\* A location that is already in the table keeps its id and its masked set,
\* whatever the ids it masks this time.
GetRootCauseLocationID(m, loc, ids) ==
  IF loc \in DOMAIN m.rootToId
  THEN [id |-> m.rootToId[loc], mgr |-> m]
  ELSE LET id == GetNewId(m, loc)
           masked == GetAllMaskedIDs(m, ids)
       IN  [id  |-> id,
            mgr |-> [m EXCEPT
              !.rootToId = With(@, loc, id),
              !.idToRoot = With(@, id, loc),
              !.maskedRoots = With(@, id, masked),
              !.maskingRoots =
                 With([i \in DOMAIN @ |-> IF i \in masked THEN @[i] \cup {id}
                                          ELSE @[i]], id, {}),
              !.occurences = With(@, id, 0)]]

ReasonOf(m, id) == m.idToRoot[id].reason

\* markAsBug for each report: a report is <<object, id>>, and an id counts once
\* for every report of it and once for every report of an id that masks it.
MarkAsBugs(m, reports) ==
  LET Marks(i) == {r \in reports : i = r[2] \/ i \in m.maskedRoots[r[2]]}
      hit == {i \in UsedIds(m) : Marks(i) # {}}
      Of(kind) == {i \in hit : ReasonOf(m, i) \in kind}
      Marked(kind) == {p \in Of(kind) \X reports : p[2] \in Marks(p[1])}
      New(kind) == {i \in Of(kind) : m.occurences[i] = 0}
  IN  [m EXCEPT
        !.occurences = [i \in DOMAIN @ |-> @[i] + Cardinality(Marks(i))],
        !.totalOccurences = @ + Cardinality(Marked(Reasons)),
        !.buggyIds = @ \cup hit,
        !.crtOccurences = @ + Cardinality(Marked(Correctness)),
        !.perfOccurences = @ + Cardinality(Marked(Performance)),
        !.crtUniq = @ + Cardinality(New(Correctness)),
        !.perfUniq = @ + Cardinality(New(Performance))]

-----------------------------------------------------------------------------
(* What every manager the program can build satisfies.                     *)

ManagerType(m) ==
  LET ids == UsedIds(m)
  IN  /\ m \in [rootToId : [DOMAIN m.rootToId -> ids], idToRoot : [ids -> Location],
                 maskedRoots : [ids -> SUBSET ids], maskingRoots : [ids -> SUBSET ids],
                 occurences : [ids -> Nat], totalOccurences : Nat,
                 buggyIds : SUBSET ids, crtOccurences : Nat, perfOccurences : Nat,
                 crtUniq : Nat, perfUniq : Nat]
      /\ ids \subseteq Nat \ {Null}
      /\ IsFiniteSet(ids)

\* rootToId and idToRoot are inverse to each other.
UniqueIds(m) ==
  /\ \A loc \in DOMAIN m.rootToId : m.idToRoot[m.rootToId[loc]] = loc
  /\ \A id \in UsedIds(m) :
        m.idToRoot[id] \in DOMAIN m.rootToId /\ m.rootToId[m.idToRoot[id]] = id

FlatMasks(m) ==
  \A i \in UsedIds(m) : \A j \in m.maskedRoots[i] : m.maskedRoots[j] \subseteq m.maskedRoots[i]

AcyclicMasks(m) == \A i \in UsedIds(m) : i \notin m.maskedRoots[i]

SymmetricMasks(m) ==
  \A i, j \in UsedIds(m) : j \in m.maskedRoots[i] <=> i \in m.maskingRoots[j]

BugsOccurred(m) == m.buggyIds = {i \in UsedIds(m) : m.occurences[i] > 0}
=============================================================================

------------------------------ MODULE PmemModel ------------------------------
(***************************************************************************)
(* What the persistence tracking promises, one concrete execution (world)  *)
(* at a time: the x86 persistency model as klee.h and Memory.h describe it.*)
(* A line is dirty after a store, flushed once it has been written back    *)
(* since its last store, and clean (guaranteed to be on the medium) once a *)
(* fence has followed the write-back.  A line of a world that the path     *)
(* constraints have excluded has no status.                                *)
(***************************************************************************)
CONSTANTS Objects, Lines, Worlds

VARIABLES feasible,  \* the worlds that are still possible
          tracked,   \* the objects that are persistent memory
          status     \* status[w][o][l]

pmVars == <<feasible, tracked, status>>

Status == {"clean", "dirty", "flushed", "infeasible"}

AllClean == [l \in Lines |-> "clean"]

Init ==
  /\ feasible = Worlds
  /\ tracked = {}
  /\ status = [w \in Worlds |-> [o \in Objects |-> AllClean]]

\* In each feasible world the lines of object o change by a step of that world: the
\* same store or flush may hit other lines in other worlds.
OnObject(o, Step(_, _, _)) ==
  /\ status' \in [Worlds -> [Objects -> [Lines -> Status]]]
  /\ \A w \in Worlds :
       IF w \in feasible
       THEN /\ Step(w, status[w][o], status'[w][o])
            /\ \A other \in Objects \ {o} : status'[w][other] = status[w][other]
       ELSE status'[w] = status[w]

Stored(s, first, last, nontemporal) ==
  [l \in Lines |-> IF nontemporal /\ l = first THEN "flushed"
                   ELSE IF l \in {first, last} THEN "dirty" ELSE s[l]]
Flushed(s, line) == [l \in Lines |-> IF l = line /\ s[l] = "dirty" THEN "flushed" ELSE s[l]]
Fenced(s) == [l \in Lines |-> IF s[l] = "flushed" THEN "clean" ELSE s[l]]

Store(o, nontemporal) ==
  LET Step(w, s, t) == \E first, last \in Lines : t = Stored(s, first, last, nontemporal)
  IN  /\ o \in tracked
      /\ OnObject(o, Step)
      /\ UNCHANGED <<feasible, tracked>>

Flush(o) ==
  LET Step(w, s, t) == \E line \in Lines : t = Flushed(s, line)
  IN  /\ o \in tracked
      /\ OnObject(o, Step)
      /\ UNCHANGED <<feasible, tracked>>

Fence ==
  /\ status' = [w \in Worlds |-> [o \in Objects |->
                  IF o \in tracked THEN Fenced(status[w][o]) ELSE status[w][o]]]
  /\ UNCHANGED <<feasible, tracked>>

FlushAndFence(o, line) ==
  /\ o \in tracked
  /\ status' = [w \in Worlds |-> [p \in Objects |->
                  IF p \notin tracked THEN status[w][p]
                  ELSE Fenced(IF p = o THEN Flushed(status[w][p], line[w]) ELSE status[w][p])]]
  /\ UNCHANGED <<feasible, tracked>>

\* An object enters or leaves persistent memory; nothing of it is pending.
Track(o, objs) ==
  LET Step(w, s, t) == t = AllClean
  IN  /\ tracked' = objs
      /\ OnObject(o, Step)
      /\ UNCHANGED feasible

Restrict ==
  /\ feasible' \subseteq feasible
  /\ status' = [w \in Worlds |-> [o \in Objects |-> [l \in Lines |->
                  IF w \in feasible' THEN status[w][o][l] ELSE "infeasible"]]]
  /\ UNCHANGED tracked

Next ==
  \/ \E o \in Objects : Flush(o) \/ \E nontemporal \in BOOLEAN : Store(o, nontemporal)
  \/ Fence
  \/ \E o \in Objects : Track(o, tracked \cup {o}) \/ Track(o, tracked \ {o})
  \/ Restrict
  \/ \E o \in Objects, line \in [Worlds -> Lines] : FlushAndFence(o, line)

Spec == Init /\ [][Next]_pmVars
=============================================================================

----------------------------- MODULE ObjectState -----------------------------
(***************************************************************************)
(* The contents of a memory object (class ObjectState and its subclass     *)
(* PersistentState) as the address spaces see it: the bytes, and for every *)
(* cache line whether it is dirty, waits for a fence, or is persisted.     *)
(***************************************************************************)
EXTENDS Integers, FiniteSets

CONSTANTS
  Lines,   \* the cache lines of an object
  Bytes    \* what the bytes of an object can hold

LineStates == {"clean", "dirty", "pending"}

ObjectStates ==
  [persistent : BOOLEAN, bytes : Bytes, line : [Lines -> LineStates]]

\* A new ObjectState, or a new PersistentState
NewObjectState(persistent, b) ==
  [persistent |-> persistent, bytes |-> b, line |-> [l \in Lines |-> "clean"]]

\* write: only a PersistentState tracks its lines.
Written(os, l, b) ==
  [os EXCEPT !.bytes = b, !.line[l] = IF os.persistent THEN "dirty" ELSE @]

\* persistCacheLineAtOffset; a flush of a line that is persisted, or waits for a
\* fence, is only reported.
Flushed(os, l) == [os EXCEPT !.line[l] = IF @ = "dirty" THEN "pending" ELSE @]

\* commitPendingPersists
Committed(os) ==
  [os EXCEPT !.line =
     [l \in Lines |-> IF os.line[l] = "pending" THEN "clean" ELSE os.line[l]]]

\* initializeToZero and memcpy into the concrete store: no line becomes dirty.
Overwritten(os, b) == [os EXCEPT !.bytes = b]
=============================================================================

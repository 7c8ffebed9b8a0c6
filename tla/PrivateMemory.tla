---------------------------- MODULE PrivateMemory ----------------------------
(***************************************************************************)
(* What the address spaces of the execution states promise: every state    *)
(* has a memory of its own.  A fork copies the memory, and from then on    *)
(* nothing that one state does is seen by another one.                     *)
(***************************************************************************)
EXTENDS ObjectState

CONSTANTS
  States,      \* names of execution states
  FirstState,  \* the state that the executor starts with
  Objects,     \* MemoryObjects
  NoObject     \* in place of the ObjectState of an object that is not bound

VARIABLES
  live,        \* the execution states there are
  memory       \* the ObjectState of each object in each state

pvars == <<live, memory>>

NoMemory == [o \in Objects |-> NoObject]

Bound(s) == {o \in Objects : memory[s][o] # NoObject}

\* Only the memory of s changes, and each object there as allowed.
Private(s) ==
  /\ live' = live
  /\ memory' = [memory EXCEPT ![s] = memory'[s]]

Changes(s, allowed(_, _)) ==
  /\ Private(s)
  /\ memory'[s] \in [Objects -> ObjectStates \cup {NoObject}]
  /\ \A o \in Objects : memory'[s][o] = memory[s][o] \/ allowed(o, memory'[s][o])

Init ==
  /\ live = {FirstState}
  /\ memory = [s \in States |-> NoMemory]

Fork(s, t) ==
  /\ t \in States \ live
  /\ live' = live \cup {t}
  /\ memory' = [memory EXCEPT ![t] = memory[s]]

Terminate(s) ==
  /\ live' = live \ {s}
  /\ memory' = [memory EXCEPT ![s] = NoMemory]

\* An allocation, or a new ObjectState or PersistentState for a bound object
Bind(s, o) ==
  /\ Private(s)
  /\ \E p \in BOOLEAN, b \in Bytes :
       memory'[s] = [memory[s] EXCEPT ![o] = NewObjectState(p, b)]

Unbind(s) ==
  LET allowed(o, os) == os = NoObject
  IN  Changes(s, allowed)

Write(s, o, l) ==
  /\ o \in Bound(s)
  /\ Private(s)
  /\ \E b \in Bytes : memory'[s] = [memory[s] EXCEPT ![o] = Written(@, l, b)]

\* Bytes that change without a store
Overwrite(s) ==
  LET allowed(o, os) ==
        o \in Bound(s) /\ \E b \in Bytes : os = Overwritten(memory[s][o], b)
  IN  Changes(s, allowed)

\* A fence commits every persistent object of the state.
Fence(s) ==
  /\ Private(s)
  /\ memory'[s] =
       [o \in Objects |-> IF o \in Bound(s) /\ memory[s][o].persistent
                          THEN Committed(memory[s][o]) ELSE memory[s][o]]

\* A flush at a symbolic address forks; every one of the states flushes a line
\* of o, in its own memory.
Flush(s, o) ==
  LET forks == {s} \cup (live' \ live)
  IN  /\ o \in Bound(s)
      /\ live \subseteq live' /\ live' \subseteq States
      /\ memory' = [t \in States |-> IF t \in forks THEN memory'[t] ELSE memory[t]]
      /\ \A t \in forks : \E l \in Lines :
           memory'[t] = [memory[s] EXCEPT ![o] = Flushed(@, l)]

Next ==
  \E s \in live :
    \/ \E t \in States : Fork(s, t)
    \/ Terminate(s)
    \/ Unbind(s)
    \/ Overwrite(s)
    \/ Fence(s)
    \/ \E o \in Objects :
         \/ Bind(s, o)
         \/ \E l \in Lines : Write(s, o, l)
         \/ Flush(s, o)

Spec == Init /\ [][Next]_pvars
=============================================================================

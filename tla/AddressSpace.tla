---------------------------- MODULE AddressSpace ----------------------------
(***************************************************************************)
(* The address spaces of the execution states (class AddressSpace) and the *)
(* operations of the executor that bind, copy, write and unbind objects.   *)
(*                                                                         *)
(* States share ObjectStates until one of them writes: an address space    *)
(* owns the ObjectStates whose copyOnWriteOwner is its cowKey, and copies  *)
(* any other one before it writes.  heap holds the ObjectStates that some  *)
(* address space refers to (ObjectHolder counts the references).           *)
(***************************************************************************)
EXTENDS ObjectState

CONSTANTS
  States,        \* names of execution states
  FirstState,    \* the state that the executor starts with
  Objects,       \* MemoryObjects
  Locals,        \* the objects that are allocas of a stack frame
  Fixed,         \* the objects at an address that the program chose
  NoObject,      \* in place of the ObjectState of an object that is not bound
  Ids,           \* pointers to ObjectStates
  FirstLine,     \* the first and the last line of an object
  LastLine,
  MaxCowKey,     \* bound on the epochs of an address space (2^32 - 1 in the code)
  SymbolicFlush  \* may the address of a flush be symbolic?

ASSUME StatesAssumption == FirstState \in States
ASSUME ObjectsAssumption == Locals \subseteq Objects /\ Fixed \subseteq Objects \ Locals
ASSUME LineAssumption == {FirstLine, LastLine} \subseteq Lines
ASSUME HeapAssumption == NoObject \notin Ids /\ NoObject \notin ObjectStates
ASSUME KeyAssumption == MaxCowKey \in Nat \ {0} /\ SymbolicFlush \in BOOLEAN

VARIABLES
  live,               \* the execution states there are
  cowKey,             \* of the address space of each state
  objects,            \* the MemoryMap of each address space
  heap,               \* the ObjectStates, with their copyOnWriteOwner
  persistentObjects,  \* of each state
  aborted             \* an assertion of the executor has failed

vars == <<live, cowKey, objects, heap, persistentObjects, aborted>>

Freed == [owner |-> 0, os |-> NoObject]

InUse(objs) == {objs[s][o] : s \in States, o \in Objects}

\* The address spaces become objs over the heap h; what none refers to is freed.
Become(objs, h) ==
  /\ objects' = objs
  /\ heap' = [i \in Ids |-> IF i \in InUse(objs) THEN h[i] ELSE Freed]

FindObject(s, o) == heap[objects[s][o]].os

Bound(s) == {o \in Objects : objects[s][o] # NoObject}

BoundPersistent(s) == {o \in Bound(s) : FindObject(s, o).persistent}

NewIds == Ids \ InUse(objects)

\* The state s binds each object o of a set to the pointer at[o], which it owns,
\* with the contents to[o].
Put(s, at, to) ==
  Become([objects EXCEPT ![s] = [o \in Objects |-> IF o \in DOMAIN at THEN at[o]
                                                   ELSE objects[s][o]]],
         [i \in Ids |->
            IF \E o \in DOMAIN at : at[o] = i
            THEN [owner |-> cowKey[s], os |-> to[CHOOSE o \in DOMAIN at : at[o] = i]]
            ELSE heap[i]])

\* bindObject of a new ObjectState
BindObject(s, o, os) ==
  \E i \in NewIds : Put(s, [x \in {o} |-> i], [x \in {o} |-> os])

\* Fault: the ObjectState is never copied.
GetWriteableInPlace(s, O) == {[o \in O |-> objects[s][o]]}

\* getWriteable for the bound objects O: where their contents may be written
GetWriteable(s, O) ==
  {at \in [O -> Ids] :
     /\ \A o \in O : IF heap[objects[s][o]].owner = cowKey[s]
                     THEN at[o] = objects[s][o]
                     ELSE at[o] \in NewIds
     /\ \A o, p \in O : at[o] = at[p] => o = p}

WriteObjects(s, O, to) == \E at \in GetWriteable(s, O) : Put(s, at, to)

UnbindObjects(s, O) ==
  Become([objects EXCEPT ![s] = [o \in Objects |-> IF o \in O THEN NoObject
                                                   ELSE objects[s][o]]], heap)

-----------------------------------------------------------------------------
Init ==
  /\ live = {FirstState}
  /\ cowKey = [s \in States |-> 1]
  /\ objects = [s \in States |-> [o \in Objects |-> NoObject]]
  /\ heap = [i \in Ids |-> Freed]
  /\ persistentObjects = [s \in States |-> {}]
  /\ aborted = FALSE

\* The executor runs the live states, one instruction at a time.
Runs(s) == s \in live /\ ~aborted

\* Faults: the copy alone gets a new epoch, or the original alone.
CopyAddressSpaceCopyOnly(key, s, t) == [key EXCEPT ![t] = key[s] + 1]

CopyAddressSpacePostIncrement(key, s, t) == [key EXCEPT ![s] = @ + 1, ![t] = key[s]]

\* The copy of an address space, whose constructor also starts a new epoch of
\* the one that it copies.
CopyAddressSpace(key, s, t) == [key EXCEPT ![s] = @ + 1, ![t] = key[s] + 1]

\* fork and branch: s goes on and t is the new state.
Fork(s, t) ==
  /\ Runs(s)
  /\ t \in States \ live
  /\ cowKey[s] < MaxCowKey
  /\ live' = live \cup {t}
  /\ cowKey' = CopyAddressSpace(cowKey, s, t)
  /\ objects' = [objects EXCEPT ![t] = objects[s]]
  /\ persistentObjects' = [persistentObjects EXCEPT ![t] = persistentObjects[s]]
  /\ UNCHANGED <<heap, aborted>>

\* The end of a state: its address space goes away.
Terminate(s) ==
  /\ Runs(s)
  /\ live' = live \ {s}
  /\ cowKey' = [cowKey EXCEPT ![s] = 1]
  /\ UnbindObjects(s, Objects)
  /\ persistentObjects' = [persistentObjects EXCEPT ![s] = {}]
  /\ UNCHANGED aborted

\* executeAlloc, an alloca, klee_define_fixed_object (also from existing bytes)
Alloc(s, o, b) ==
  /\ Runs(s)
  /\ o \notin Bound(s)
  /\ BindObject(s, o, NewObjectState(FALSE, b))
  /\ UNCHANGED <<live, cowKey, persistentObjects, aborted>>

\* executeMakeSymbolic binds a new ObjectState, whatever the old one was.
ExecuteMakeSymbolic(s, o, b) ==
  /\ Runs(s)
  /\ o \in Bound(s)
  /\ BindObject(s, o, NewObjectState(FALSE, b))
  /\ UNCHANGED <<live, cowKey, persistentObjects, aborted>>

\* executeMarkPersistent binds a new PersistentState with the same bytes.
ExecuteMarkPersistent(s, o) ==
  /\ Runs(s)
  /\ o \in Bound(s)
  /\ persistentObjects' = [persistentObjects EXCEPT ![s] = @ \cup {o}]
  /\ BindObject(s, o, NewObjectState(TRUE, FindObject(s, o).bytes))
  /\ UNCHANGED <<live, cowKey, aborted>>

\* executeFree of an object that is not an alloca
ExecuteFree(s, o) ==
  /\ Runs(s)
  /\ o \in Bound(s) \ Locals
  /\ UnbindObjects(s, {o})
  /\ UNCHANGED <<live, cowKey, persistentObjects, aborted>>

\* Fault: all objects that are persistent are erased, allocas or not.
PopFrameErasesAll(s) ==
  /\ Runs(s)
  /\ Locals \cap Bound(s) # {}
  /\ persistentObjects' = [persistentObjects EXCEPT ![s] = {}]
  /\ UnbindObjects(s, Locals)
  /\ UNCHANGED <<live, cowKey, aborted>>

\* popFrame unbinds the allocas, and the PersistentStates among them are
\* persistent objects no more.
PopFrame(s) ==
  /\ Runs(s)
  /\ Locals \cap Bound(s) # {}
  /\ persistentObjects' =
       [persistentObjects EXCEPT ![s] = @ \ (Locals \cap BoundPersistent(s))]
  /\ UnbindObjects(s, Locals)
  /\ UNCHANGED <<live, cowKey, aborted>>

\* handleUndefineFixedObject
HandleUndefineFixedObject(s, o) ==
  /\ Runs(s)
  /\ o \in Fixed \cap Bound(s)
  /\ persistentObjects' = [persistentObjects EXCEPT ![s] = @ \ {o}]
  /\ UnbindObjects(s, {o})
  /\ UNCHANGED <<live, cowKey, aborted>>

\* The write of executeMemoryOperation
ExecuteMemoryOperation(s, o, l, b) ==
  /\ Runs(s)
  /\ o \in Bound(s)
  /\ WriteObjects(s, {o}, [x \in {o} |-> Written(FindObject(s, o), l, b)])
  /\ UNCHANGED <<live, cowKey, persistentObjects, aborted>>

\* copyInConcretes after an external call that gave the objects the bytes to:
\* the ones that differ are written, but not objects at fixed addresses.
CopyInConcretes(s, to) ==
  LET O == {o \in Bound(s) \ Fixed : to[o] # FindObject(s, o).bytes}
  IN  /\ Runs(s)
      /\ O # {}
      /\ WriteObjects(s, O, [o \in O |-> Overwritten(FindObject(s, o), to[o])])
      /\ UNCHANGED <<live, cowKey, persistentObjects, aborted>>

\* handleInitConcreteZero, over the persistent objects O of a range
HandleInitConcreteZero(s, O, zero) ==
  /\ Runs(s)
  /\ O # {} /\ O \subseteq BoundPersistent(s)
  /\ WriteObjects(s, O, [o \in O |-> Overwritten(FindObject(s, o), zero)])
  /\ UNCHANGED <<live, cowKey, persistentObjects, aborted>>

\* executePersistentMemoryFence goes through persistentObjects; it fails an
\* assertion, or follows a null pointer, if one is not a PersistentState.
ExecutePersistentMemoryFence(s) ==
  LET O == persistentObjects[s]
  IN  /\ Runs(s)
      /\ IF O \subseteq BoundPersistent(s)
         THEN /\ WriteObjects(s, O, [o \in O |-> Committed(FindObject(s, o))])
              /\ UNCHANGED <<live, cowKey, persistentObjects, aborted>>
         ELSE /\ aborted' = TRUE
              /\ UNCHANGED <<live, cowKey, objects, heap, persistentObjects>>

\* executePersistentMemoryFlush of the address of a line of o.  isPersistentMemory
\* fails its assertion if o is bound to something else.
ExecutePersistentMemoryFlush(s, o, l) ==
  /\ Runs(s)
  /\ o \in persistentObjects[s] \cap Bound(s)
  /\ IF FindObject(s, o).persistent
     THEN /\ WriteObjects(s, {o}, [x \in {o} |-> Flushed(FindObject(s, o), l)])
          /\ UNCHANGED <<live, cowKey, persistentObjects, aborted>>
     ELSE /\ aborted' = TRUE
          /\ UNCHANGED <<live, cowKey, objects, heap, persistentObjects>>

\* The same with a symbolic address, which may lie before, in or behind the
\* object.  The object is made writeable once, in s; then each fork takes one of
\* the cases, and flushes its line in that same PersistentState.
\* ss is s and one or two new states; ls the lines that they flush.
ExecuteSymbolicFlush(ss, o, ls) ==
  LET s == ss[1]
      after == {ss[i] : i \in DOMAIN ss}
      forks == IF 3 \in DOMAIN ss THEN 2 ELSE 1
      Forked(key, i) == CopyAddressSpace(key, ss[i], ss[i + 1])
      key1 == Forked(cowKey, 1)
      Flush2 == Flushed(Flushed(FindObject(s, o), ls[1]), ls[2])
  IN  /\ Runs(s)
      /\ SymbolicFlush
      /\ o \in persistentObjects[s] \cap BoundPersistent(s)
      /\ \A i \in DOMAIN ss \ {1} : ss[i] \in States \ live
      /\ \A i, j \in DOMAIN ss : ss[i] = ss[j] => i = j
      /\ cowKey[s] + forks <= MaxCowKey
      /\ live' = live \cup after
      /\ cowKey' = IF forks = 1 THEN key1 ELSE Forked(key1, 2)
      /\ \E at \in GetWriteable(s, {o}) :
           Become([t \in States |-> IF t \in after
                                    THEN [objects[s] EXCEPT ![o] = at[o]]
                                    ELSE objects[t]],
                  [heap EXCEPT ![at[o]] =
                     [owner |-> cowKey[s],
                      os |-> IF forks = 1 THEN Flush2 ELSE Flushed(Flush2, ls[3])]])
      /\ persistentObjects' =
           [t \in States |-> IF t \in after THEN persistentObjects[s]
                             ELSE persistentObjects[t]]
      /\ UNCHANGED aborted

\* The lines that a symbolic flush goes to: the first one if the address lies
\* before the object, the last one if behind it, and the one it lies in.
FlushCases ==
  {<<FirstLine, l>> : l \in Lines} \cup {<<LastLine, l>> : l \in Lines}
    \cup {<<FirstLine, LastLine>>} \cup {<<FirstLine, LastLine, l>> : l \in Lines}

Next ==
  \E s \in States :
    \/ \E t \in States : Fork(s, t)
    \/ Terminate(s)
    \/ \E o \in Objects, b \in Bytes : Alloc(s, o, b)
    \/ \E o \in Objects, b \in Bytes : ExecuteMakeSymbolic(s, o, b)
    \/ \E o \in Objects : ExecuteMarkPersistent(s, o)
    \/ \E o \in Objects : ExecuteFree(s, o)
    \/ PopFrame(s)
    \/ \E o \in Objects : HandleUndefineFixedObject(s, o)
    \/ \E o \in Objects, l \in Lines, b \in Bytes : ExecuteMemoryOperation(s, o, l, b)
    \/ \E to \in [Objects -> Bytes] : CopyInConcretes(s, to)
    \/ \E O \in SUBSET Objects, zero \in Bytes : HandleInitConcreteZero(s, O, zero)
    \/ ExecutePersistentMemoryFence(s)
    \/ \E o \in Objects, l \in Lines : ExecutePersistentMemoryFlush(s, o, l)
    \/ \E o \in Objects, ls \in FlushCases : \E ss \in [DOMAIN ls -> States] :
         ss[1] = s /\ ExecuteSymbolicFlush(ss, o, ls)

Spec == Init /\ [][Next]_vars

-----------------------------------------------------------------------------
(* Properties.                                                             *)

\* Type correctness; states that are not live refer to nothing.
TypeOK ==
  /\ live \subseteq States
  /\ cowKey \in [States -> 1..MaxCowKey]
  /\ objects \in [States -> [Objects -> Ids \cup {NoObject}]]
  /\ heap \in [Ids -> [owner : 0..MaxCowKey, os : ObjectStates \cup {NoObject}]]
  /\ persistentObjects \in [States -> SUBSET Objects]
  /\ aborted \in BOOLEAN
  /\ \A s \in States \ live : Bound(s) = {} /\ persistentObjects[s] = {}
  /\ \A s \in States : \A o \in Bound(s) : FindObject(s, o) \in ObjectStates

\* The invariant that the declaration of objects documents: no ObjectState was
\* taken over in a later epoch than the one of an address space that refers to it.
OwnerAtMostKey ==
  \A s \in live : \A o \in Bound(s) : heap[objects[s][o]].owner <= cowKey[s]

\* An ObjectState that an address space owns is bound there, to one object, and
\* nowhere else, however the states forked: getWriteable need not copy it.
OwnedIsPrivate ==
  \A s \in live : \A o \in Bound(s) :
     heap[objects[s][o]].owner = cowKey[s] =>
        \A t \in live : \A p \in Bound(t) :
           objects[t][p] = objects[s][o] => t = s /\ p = o

\* No step changes the contents of an ObjectState that two states refer to
\* after it.
NeverWriteShared ==
  [][\A s, t \in States, o, p \in Objects :
       LET i == objects'[s][o]
       IN  s # t /\ i = objects'[t][p] /\ i \in Ids \cap InUse(objects) =>
              heap'[i].os = heap[i].os]_vars

\* A fence reaches every PersistentState: they are all in persistentObjects.
FenceReachesAll ==
  \A s \in live : BoundPersistent(s) \subseteq persistentObjects[s]

\* The memory that each state sees.
MemoryOf ==
  [s \in States |-> [o \in Objects |-> IF objects[s][o] = NoObject THEN NoObject
                                       ELSE FindObject(s, o)]]
=============================================================================

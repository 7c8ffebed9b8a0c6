-------------------------- MODULE AddressSpaceProofs --------------------------
(***************************************************************************)
(* Copy on write gives every state a memory of its own, for any number of  *)
(* states, objects and ObjectStates and any history of forks: every action *)
(* of AddressSpace keeps an invariant, and is a step of PrivateMemory      *)
(* unless it flushes at a symbolic address.                                *)
(***************************************************************************)
EXTENDS AddressSpace, AddressSpaceRefinement, TLAPS

IInv == TypeOK /\ OwnerAtMostKey /\ OwnedIsPrivate /\ FenceReachesAll

\* at places the objects O of s: where s owns the ObjectState, or at a new one.
Placed(s, O, at) ==
  /\ at \in [O -> Ids]
  /\ \A o \in O : \/ at[o] \in NewIds
                  \/ /\ o \in Bound(s)
                     /\ at[o] = objects[s][o]
                     /\ heap[objects[s][o]].owner = cowKey[s]
  /\ \A o, p \in O : at[o] = at[p] => o = p

\* What a write of the contents to, at the places at, does to the address spaces.
PutFacts(s, O, at, to) ==
  /\ objects' \in [States -> [Objects -> Ids \cup {NoObject}]]
  /\ heap' \in [Ids -> [owner : 0..MaxCowKey, os : ObjectStates \cup {NoObject}]]
  /\ \A t \in States, p \in Objects :
       objects'[t][p] = IF t = s /\ p \in O THEN at[p] ELSE objects[t][p]
  /\ \A t \in States, p \in Objects :
       objects'[t][p] # NoObject =>
          heap'[objects'[t][p]] = IF t = s /\ p \in O
                                  THEN [owner |-> cowKey[s], os |-> to[p]]
                                  ELSE heap[objects[t][p]]

\* An ObjectState that s may write is not the one that another object, or
\* another state, is bound to.
LEMMA PlacesAreFree ==
  ASSUME TypeOK, OwnedIsPrivate, NEW s \in live, NEW O \in SUBSET Objects, NEW at,
         Placed(s, O, at), NEW o \in O, NEW t \in States, NEW p \in Objects,
         ~(t = s /\ p = o)
  PROVE  objects[t][p] # at[o]
<1> SUFFICES ASSUME objects[t][p] = at[o] PROVE FALSE
  OBVIOUS
<1>1. at[o] \in Ids /\ s \in States
  BY DEF Placed, TypeOK
<1>2. p \in Bound(t) /\ t \in live
  BY <1>1, HeapAssumption DEF TypeOK, Bound
<1>3. at[o] \notin NewIds
  BY DEF NewIds, InUse
<1>4. o \in Bound(s) /\ at[o] = objects[s][o] /\ heap[objects[s][o]].owner = cowKey[s]
  BY <1>3 DEF Placed
<1>5. QED
  BY <1>2, <1>4 DEF OwnedIsPrivate

\* Only the objects O of s change.
LEMMA PutOK ==
  ASSUME TypeOK, OwnedIsPrivate, NEW s \in live, NEW O \in SUBSET Objects, NEW at,
         Placed(s, O, at), NEW to \in [O -> ObjectStates], Put(s, at, to)
  PROVE  PutFacts(s, O, at, to)
<1> DEFINE objs == [objects EXCEPT ![s] = [o \in Objects |-> IF o \in O THEN at[o]
                                                           ELSE objects[s][o]]]
           h == [i \in Ids |->
                   IF \E o \in O : at[o] = i
                   THEN [owner |-> cowKey[s], os |-> to[CHOOSE o \in O : at[o] = i]]
                   ELSE heap[i]]
<1>1. /\ objects' = objs
      /\ heap' = [i \in Ids |-> IF i \in InUse(objs) THEN h[i] ELSE Freed]
  BY DEF Put, Become, Placed
<1>2. /\ s \in States
      /\ objects \in [States -> [Objects -> Ids \cup {NoObject}]]
      /\ heap \in [Ids -> [owner : 0..MaxCowKey, os : ObjectStates \cup {NoObject}]]
      /\ cowKey[s] \in 0..MaxCowKey
      /\ at \in [O -> Ids]
  BY DEF TypeOK, Placed
<1>3. objs \in [States -> [Objects -> Ids \cup {NoObject}]]
  BY <1>2
<1>4. \A t \in States, p \in Objects :
        objs[t][p] = IF t = s /\ p \in O THEN at[p] ELSE objects[t][p]
  BY <1>2
<1> HIDE DEF objs
<1>5. ASSUME NEW i \in Ids
      PROVE  h[i] \in [owner : 0..MaxCowKey, os : ObjectStates \cup {NoObject}]
  BY <1>2
<1>6. Freed \in [owner : 0..MaxCowKey, os : ObjectStates \cup {NoObject}]
  BY KeyAssumption DEF Freed
<1>7. heap' \in [Ids -> [owner : 0..MaxCowKey, os : ObjectStates \cup {NoObject}]]
  <2> HIDE DEF h
  <2> QED
    BY <1>1, <1>5, <1>6
<1>8. ASSUME NEW t \in States, NEW p \in Objects, objs[t][p] # NoObject
      PROVE  h[objs[t][p]] = IF t = s /\ p \in O THEN [owner |-> cowKey[s], os |-> to[p]]
                             ELSE heap[objects[t][p]]
  <2>1. objs[t][p] \in Ids
    BY <1>3, <1>8
  <2>2. CASE t = s /\ p \in O
    <3>1. objs[t][p] = at[p]
      BY <1>4, <2>2
    <3>2. (CHOOSE o \in O : at[o] = at[p]) = p
      BY <2>2 DEF Placed
    <3> QED
      BY <2>1, <2>2, <3>1, <3>2
  <2>3. CASE ~(t = s /\ p \in O)
    <3>1. objs[t][p] = objects[t][p]
      BY <1>4, <2>3
    <3>2. \A o \in O : at[o] # objects[t][p]
      BY <2>3, PlacesAreFree, Zenon
    <3> QED
      BY <2>1, <2>3, <3>1, <3>2
  <2> QED
    BY <2>2, <2>3
<1>9. \A t \in States, p \in Objects :
         objs[t][p] # NoObject => objs[t][p] \in InUse(objs) /\ objs[t][p] \in Ids
  BY <1>3 DEF InUse
<1>10. QED
  <2> HIDE DEF h
  <2> QED
    BY <1>1, <1>3, <1>4, <1>7, <1>8, <1>9 DEF PutFacts


\* What the states see after a write: to in the objects O of s, and everything
\* else as it was; and the ownership invariants are kept.
LEMMA PutKeeps ==
  ASSUME TypeOK, OwnerAtMostKey, OwnedIsPrivate,
         NEW s \in live, NEW O \in SUBSET Objects, NEW at, Placed(s, O, at),
         NEW to \in [O -> ObjectStates], PutFacts(s, O, at, to),
         live' = live, cowKey' = cowKey
  PROVE  /\ OwnerAtMostKey'
         /\ OwnedIsPrivate'
         /\ MemoryOf' = [MemoryOf EXCEPT ![s] =
              [o \in Objects |-> IF o \in O THEN to[o] ELSE MemoryOf[s][o]]]
         /\ \A t \in States : Bound(t)' = IF t = s THEN Bound(t) \cup O ELSE Bound(t)
<1>1. /\ s \in States /\ cowKey \in [States -> 1..MaxCowKey]
      /\ \A t \in States, p \in Objects :
           objects'[t][p] = IF t = s /\ p \in O THEN at[p] ELSE objects[t][p]
      /\ \A t \in States, p \in Objects :
           objects'[t][p] # NoObject =>
              heap'[objects'[t][p]] = IF t = s /\ p \in O
                                      THEN [owner |-> cowKey[s], os |-> to[p]]
                                      ELSE heap[objects[t][p]]
  BY DEF PutFacts, TypeOK
<1>2. \A o \in O : at[o] \in Ids /\ at[o] # NoObject
  BY HeapAssumption DEF Placed
<1>3. \A t \in States : Bound(t)' = IF t = s THEN Bound(t) \cup O ELSE Bound(t)
  BY <1>1, <1>2 DEF Bound
<1>4. OwnerAtMostKey'
  <2> SUFFICES ASSUME NEW t \in live, NEW p \in Bound(t)'
               PROVE  heap'[objects'[t][p]].owner <= cowKey[t]
    BY DEF OwnerAtMostKey
  <2>1. t \in States /\ p \in Objects /\ objects'[t][p] # NoObject
    BY DEF TypeOK, Bound
  <2>2. CASE t = s /\ p \in O
    <3>1. heap'[objects'[t][p]] = [owner |-> cowKey[s], os |-> to[p]]
      BY <1>1, <2>1, <2>2
    <3>2. cowKey[s] \in Int
      BY <1>1
    <3> QED
      BY <2>2, <3>1, <3>2
  <2>3. CASE ~(t = s /\ p \in O)
    <3>1. p \in Bound(t)
      BY <1>1, <2>1, <2>3 DEF Bound
    <3>2. heap'[objects'[t][p]] = heap[objects[t][p]]
      BY <1>1, <2>1, <2>3, Zenon
    <3> QED
      BY <3>1, <3>2 DEF OwnerAtMostKey
  <2> QED
    BY <2>2, <2>3
<1>5. OwnedIsPrivate'
  <2> SUFFICES ASSUME NEW t \in live, NEW p \in Bound(t)',
                      NEW u \in live, NEW q \in Bound(u)',
                      heap'[objects'[t][p]].owner = cowKey[t],
                      objects'[u][q] = objects'[t][p]
               PROVE  u = t /\ q = p
    BY DEF OwnedIsPrivate
  <2>1. /\ t \in States /\ p \in Objects /\ objects'[t][p] # NoObject
        /\ u \in States /\ q \in Objects /\ objects'[u][q] # NoObject
    BY DEF TypeOK, Bound
  <2>2. CASE t = s /\ p \in O
    <3>1. CASE u = s /\ q \in O
      BY <1>1, <2>1, <2>2, <3>1 DEF Placed
    <3>2. CASE ~(u = s /\ q \in O)
      <4>1. objects'[t][p] = at[p] /\ objects'[u][q] = objects[u][q]
        BY <1>1, <2>1, <2>2, <3>2
      <4>2. objects[u][q] # at[p]
        BY <2>1, <2>2, <3>2, PlacesAreFree
      <4> QED
        BY <4>1, <4>2
    <3> QED
      BY <3>1, <3>2
  <2>3. CASE ~(t = s /\ p \in O)
    <3>1. CASE u = s /\ q \in O
      <4>1. objects'[u][q] = at[q] /\ objects'[t][p] = objects[t][p]
        BY <1>1, <2>1, <2>3, <3>1
      <4>2. objects[t][p] # at[q]
        BY <2>1, <2>3, <3>1, PlacesAreFree
      <4> QED
        BY <4>1, <4>2, Zenon
    <3>2. CASE ~(u = s /\ q \in O)
      <4>1. p \in Bound(t) /\ q \in Bound(u) /\ objects[u][q] = objects[t][p]
        BY <1>1, <2>1, <2>3, <3>2 DEF Bound
      <4>2. heap[objects[t][p]].owner = cowKey[t]
        BY <1>1, <2>1, <2>3, Zenon
      <4> QED
        BY <4>1, <4>2 DEF OwnedIsPrivate
    <3> QED
      BY <3>1, <3>2
  <2> QED
    BY <2>2, <2>3
<1>6. MemoryOf' = [MemoryOf EXCEPT ![s] =
         [o \in Objects |-> IF o \in O THEN to[o] ELSE MemoryOf[s][o]]]
  <2> DEFINE See(t, p) == IF objects[t][p] = NoObject THEN NoObject
                          ELSE heap[objects[t][p]].os
             See2(t, p) == IF objects'[t][p] = NoObject THEN NoObject
                           ELSE heap'[objects'[t][p]].os
  <2>1. ASSUME NEW t \in States, NEW p \in Objects
        PROVE  See2(t, p) = IF t = s /\ p \in O THEN to[p] ELSE See(t, p)
    <3>1. CASE t = s /\ p \in O
      <4>1. objects'[t][p] = at[p] /\ at[p] # NoObject
        BY <1>1, <1>2, <3>1
      <4>2. heap'[objects'[t][p]] = [owner |-> cowKey[s], os |-> to[p]]
        BY <1>1, <3>1, <4>1
      <4> QED
        BY <3>1, <4>1, <4>2
    <3>2. CASE ~(t = s /\ p \in O)
      <4>1. objects'[t][p] = objects[t][p]
        BY <1>1, <3>2
      <4>2. objects[t][p] # NoObject => heap'[objects'[t][p]] = heap[objects[t][p]]
        BY <1>1, <3>2, <4>1, Zenon
      <4> QED
        BY <3>2, <4>1, <4>2
    <3> QED
      BY <3>1, <3>2
  <2>2. /\ MemoryOf = [t \in States |-> [p \in Objects |-> See(t, p)]]
        /\ MemoryOf' = [t \in States |-> [p \in Objects |-> See2(t, p)]]
    BY DEF MemoryOf, FindObject
  <2> HIDE DEF See, See2
  <2>3. MemoryOf[s] = [p \in Objects |-> See(s, p)]
    BY <1>1, <2>2
  <2> DEFINE M(t) == [p \in Objects |-> See(t, p)]
             M2(t) == [p \in Objects |-> See2(t, p)]
             m == [o \in Objects |-> IF o \in O THEN to[o] ELSE MemoryOf[s][o]]
  <2>4. M2(s) = m
    BY <1>1, <2>1, <2>3
  <2>5. \A t \in States \ {s} : M2(t) = M(t)
    BY <2>1
  <2>6. MemoryOf = [t \in States |-> M(t)] /\ MemoryOf' = [t \in States |-> M2(t)]
    BY <2>2
  <2> HIDE DEF M, M2, m
  <2>7. MemoryOf' = [MemoryOf EXCEPT ![s] = m]
    BY <1>1, <2>4, <2>5, <2>6
  <2> QED
    BY <2>7 DEF m
<1>7. QED
  BY <1>3, <1>4, <1>5, <1>6


\* A step that writes the contents to, at the places at, and adds to the
\* persistentObjects of s what becomes persistent.
PutAction(s, O, at, to) ==
  /\ Placed(s, O, at)
  /\ to \in [O -> ObjectStates]
  /\ Put(s, at, to)
  /\ live' = live /\ cowKey' = cowKey /\ aborted' = aborted
  /\ persistentObjects' \in [States -> SUBSET Objects]
  /\ \A t \in States \ {s} : persistentObjects'[t] = persistentObjects[t]
  /\ persistentObjects[s] \subseteq persistentObjects'[s]
  /\ \A o \in O : to[o].persistent => o \in persistentObjects'[s]

\* A state that binds or writes objects keeps the invariant.
LEMMA PutStep ==
  ASSUME IInv, NEW s \in live, NEW O \in SUBSET Objects, NEW at, NEW to,
         PutAction(s, O, at, to)
  PROVE  /\ IInv'
         /\ MemoryOf' = [MemoryOf EXCEPT ![s] =
              [o \in Objects |-> IF o \in O THEN to[o] ELSE MemoryOf[s][o]]]
<1>0. /\ Placed(s, O, at) /\ to \in [O -> ObjectStates] /\ Put(s, at, to)
      /\ live' = live /\ cowKey' = cowKey /\ aborted' = aborted
      /\ persistentObjects' \in [States -> SUBSET Objects]
      /\ \A t \in States \ {s} : persistentObjects'[t] = persistentObjects[t]
      /\ persistentObjects[s] \subseteq persistentObjects'[s]
      /\ \A o \in O : to[o].persistent => o \in persistentObjects'[s]
  BY DEF PutAction
<1>1. TypeOK /\ OwnerAtMostKey /\ OwnedIsPrivate /\ FenceReachesAll
  BY DEF IInv
<1>2. PutFacts(s, O, at, to)
  BY <1>0, <1>1, PutOK
<1>3. /\ OwnerAtMostKey'
      /\ OwnedIsPrivate'
      /\ MemoryOf' = [MemoryOf EXCEPT ![s] =
           [o \in Objects |-> IF o \in O THEN to[o] ELSE MemoryOf[s][o]]]
      /\ \A t \in States : Bound(t)' = IF t = s THEN Bound(t) \cup O ELSE Bound(t)
  BY <1>0, <1>1, <1>2, PutKeeps
<1>4. ASSUME NEW t \in States, NEW p \in Bound(t)'
      PROVE  FindObject(t, p)' = IF t = s /\ p \in O THEN to[p] ELSE FindObject(t, p)
  <2>1. p \in Objects /\ objects'[t][p] # NoObject
    BY DEF Bound
  <2>2. heap'[objects'[t][p]] = IF t = s /\ p \in O
                                THEN [owner |-> cowKey[s], os |-> to[p]]
                                ELSE heap[objects[t][p]]
    BY <1>0, <1>2, <2>1 DEF PutFacts
  <2> QED
    BY <1>0, <2>2 DEF FindObject
<1>5. TypeOK'
  <2>1. \A t \in States : \A p \in Bound(t)' : FindObject(t, p)' \in ObjectStates
    BY <1>0, <1>1, <1>3, <1>4 DEF TypeOK
  <2>2. s \in States /\ \A t \in States \ live : Bound(t)' = {} /\ persistentObjects'[t] = {}
    BY <1>0, <1>1, <1>3 DEF TypeOK
  <2>3. /\ objects' \in [States -> [Objects -> Ids \cup {NoObject}]]
        /\ heap' \in [Ids -> [owner : 0..MaxCowKey, os : ObjectStates \cup {NoObject}]]
    BY <1>0, <1>2 DEF PutFacts
  <2> QED
    BY <1>0, <1>1, <2>1, <2>2, <2>3 DEF TypeOK
<1>6. FenceReachesAll'
  <2> SUFFICES ASSUME NEW t \in live, NEW p \in Bound(t)', FindObject(t, p)'.persistent
               PROVE  p \in persistentObjects'[t]
    BY <1>0 DEF FenceReachesAll, BoundPersistent
  <2>1. t \in States
    BY <1>0, <1>1 DEF TypeOK
  <2>2. CASE t = s /\ p \in O
    BY <1>0, <1>4, <2>1, <2>2
  <2>3. CASE ~(t = s /\ p \in O)
    <3>1. p \in Bound(t) /\ FindObject(t, p).persistent
      BY <1>0, <1>3, <1>4, <2>1, <2>3
    <3>2. p \in persistentObjects[t]
      BY <1>0, <1>1, <3>1 DEF FenceReachesAll, BoundPersistent
    <3> QED
      BY <1>0, <2>1, <3>2
  <2> QED
    BY <1>0, <2>2, <2>3
<1>7. QED
  BY <1>0, <1>3, <1>5, <1>6 DEF IInv

\* A state that unbinds objects, or ends, keeps the invariant, and the others see
\* nothing of it.
LEMMA UnbindStep ==
  ASSUME IInv, NEW s \in live, NEW O \in SUBSET Objects, UnbindObjects(s, O),
         live' \subseteq live, s \notin live' => O = Objects,
         live \ {s} \subseteq live',
         cowKey' \in [States -> 1..MaxCowKey], \A t \in live' : cowKey'[t] = cowKey[t],
         aborted' = aborted,
         persistentObjects' \in [States -> SUBSET Objects],
         s \notin live' => persistentObjects'[s] = {},
         \A t \in States \ {s} : persistentObjects'[t] = persistentObjects[t],
         \A o \in BoundPersistent(s) \ O : o \in persistentObjects'[s]
  PROVE  /\ IInv'
         /\ MemoryOf' = [MemoryOf EXCEPT ![s] =
              [o \in Objects |-> IF o \in O THEN NoObject ELSE MemoryOf[s][o]]]
<1> DEFINE objs == [objects EXCEPT ![s] = [o \in Objects |-> IF o \in O THEN NoObject
                                                           ELSE objects[s][o]]]
<1>1. TypeOK /\ OwnerAtMostKey /\ OwnedIsPrivate /\ FenceReachesAll
  BY DEF IInv
<1>2. /\ objects' = objs
      /\ heap' = [i \in Ids |-> IF i \in InUse(objs) THEN heap[i] ELSE Freed]
  BY DEF UnbindObjects, Become
<1>3. /\ s \in States
      /\ objects \in [States -> [Objects -> Ids \cup {NoObject}]]
      /\ heap \in [Ids -> [owner : 0..MaxCowKey, os : ObjectStates \cup {NoObject}]]
  BY <1>1 DEF TypeOK
<1>4. /\ objs \in [States -> [Objects -> Ids \cup {NoObject}]]
      /\ \A t \in States, p \in Objects :
           objs[t][p] = IF t = s /\ p \in O THEN NoObject ELSE objects[t][p]
  BY <1>3
<1> HIDE DEF objs
<1>5. Freed \in [owner : 0..MaxCowKey, os : ObjectStates \cup {NoObject}]
  BY KeyAssumption DEF Freed
<1>6. heap' \in [Ids -> [owner : 0..MaxCowKey, os : ObjectStates \cup {NoObject}]]
  BY <1>2, <1>3, <1>5
<1>7. ASSUME NEW t \in States, NEW p \in Bound(t)'
      PROVE  /\ ~(t = s /\ p \in O) /\ p \in Bound(t)
             /\ objects'[t][p] = objects[t][p]
             /\ heap'[objects'[t][p]] = heap[objects[t][p]]
  <2>1. p \in Objects /\ objs[t][p] # NoObject
    BY <1>2 DEF Bound
  <2>2. ~(t = s /\ p \in O) /\ objs[t][p] = objects[t][p]
    BY <1>4, <2>1
  <2>3. objs[t][p] \in InUse(objs) /\ objs[t][p] \in Ids
    BY <1>4, <2>1 DEF InUse
  <2> QED
    BY <1>2, <2>1, <2>2, <2>3 DEF Bound
<1>8. OwnerAtMostKey'
  <2> SUFFICES ASSUME NEW t \in live', NEW p \in Bound(t)'
               PROVE  heap'[objects'[t][p]].owner <= cowKey'[t]
    BY DEF OwnerAtMostKey
  <2>1. t \in live /\ t \in States
    BY <1>1 DEF TypeOK
  <2> QED
    BY <1>1, <1>7, <2>1 DEF OwnerAtMostKey
<1>9. OwnedIsPrivate'
  <2> SUFFICES ASSUME NEW t \in live', NEW p \in Bound(t)',
                      NEW u \in live', NEW q \in Bound(u)',
                      heap'[objects'[t][p]].owner = cowKey'[t],
                      objects'[u][q] = objects'[t][p]
               PROVE  u = t /\ q = p
    BY DEF OwnedIsPrivate
  <2>1. t \in live /\ t \in States /\ u \in live /\ u \in States
    BY <1>1 DEF TypeOK
  <2>2. /\ p \in Bound(t) /\ q \in Bound(u) /\ objects[u][q] = objects[t][p]
        /\ heap[objects[t][p]].owner = cowKey[t]
    BY <1>7, <2>1, SMTT(30)
  <2> QED
    BY <1>1, <2>1, <2>2 DEF OwnedIsPrivate
<1>10. TypeOK'
  <2>1. \A t \in States : \A p \in Bound(t)' : FindObject(t, p)' \in ObjectStates
    BY <1>1, <1>7 DEF TypeOK, FindObject
  <2>2. \A t \in States \ live' : Bound(t)' = {} /\ persistentObjects'[t] = {}
    <3> SUFFICES ASSUME NEW t \in States \ live'
                 PROVE  Bound(t)' = {} /\ persistentObjects'[t] = {}
      OBVIOUS
    <3>1. CASE t = s
      BY <1>7, <3>1 DEF Bound
    <3>2. CASE t # s
      BY <1>1, <1>7, <3>2 DEF TypeOK
    <3> QED
      BY <3>1, <3>2
  <2> QED
    BY <1>1, <1>2, <1>4, <1>6, <2>1, <2>2 DEF TypeOK
<1>11. FenceReachesAll'
  <2> SUFFICES ASSUME NEW t \in live', NEW p \in Bound(t)', FindObject(t, p)'.persistent
               PROVE  p \in persistentObjects'[t]
    BY DEF FenceReachesAll, BoundPersistent
  <2>1. t \in live /\ t \in States
    BY <1>1 DEF TypeOK
  <2>2. p \in BoundPersistent(t) /\ ~(t = s /\ p \in O)
    BY <1>7, <2>1 DEF FindObject, BoundPersistent
  <2> QED
    BY <1>1, <2>1, <2>2 DEF FenceReachesAll
<1>12. MemoryOf' = [MemoryOf EXCEPT ![s] =
         [o \in Objects |-> IF o \in O THEN NoObject ELSE MemoryOf[s][o]]]
  <2> DEFINE M(t) == [p \in Objects |-> IF objects[t][p] = NoObject THEN NoObject
                                        ELSE heap[objects[t][p]].os]
             M2(t) == [p \in Objects |-> IF objects'[t][p] = NoObject THEN NoObject
                                         ELSE heap'[objects'[t][p]].os]
             m == [o \in Objects |-> IF o \in O THEN NoObject ELSE MemoryOf[s][o]]
  <2>1. MemoryOf = [t \in States |-> M(t)] /\ MemoryOf' = [t \in States |-> M2(t)]
    BY DEF MemoryOf, FindObject
  <2>2. MemoryOf[s] = M(s)
    BY <1>3, <2>1
  <2>3. \A t \in States, p \in Objects :
          /\ objects'[t][p] = IF t = s /\ p \in O THEN NoObject ELSE objects[t][p]
          /\ objects'[t][p] # NoObject => heap'[objects'[t][p]] = heap[objects[t][p]]
    BY <1>2, <1>4, <1>7, SMTT(30) DEF Bound
  <2>4. M2(s) = m
    BY <1>3, <2>2, <2>3
  <2>5. \A t \in States \ {s} : M2(t) = M(t)
    BY <2>3
  <2> HIDE DEF M, M2, m
  <2>6. MemoryOf' = [MemoryOf EXCEPT ![s] = m]
    BY <1>3, <2>1, <2>4, <2>5
  <2> QED
    BY <2>6 DEF m
<1>13. QED
  BY <1>8, <1>9, <1>10, <1>11, <1>12 DEF IInv


-----------------------------------------------------------------------------
(* Forks.                                                                  *)

\* A step in which the states F come to share, with new keys, what s has.
ForkAction(s, F) ==
  /\ F \in SUBSET States /\ s \in F /\ F \cap live = {s}
  /\ live' = live \cup F /\ cowKey' \in [States -> 1..MaxCowKey]
  /\ \A f \in F : cowKey'[f] > cowKey[s]
  /\ \A t \in States \ F : cowKey'[t] = cowKey[t]
  /\ \A t \in States \ F, p \in Objects : objects'[t][p] = objects[t][p]
  /\ \A t \in States \ F : \A p \in Bound(t) :
        heap'[objects'[t][p]] = heap[objects[t][p]]
  /\ \A f \in F : \A p \in Bound(f)' :
        /\ objects'[f][p] \in {objects[s][p]} \cup NewIds
        /\ heap'[objects'[f][p]].owner \in 0..cowKey[s]

\* When s forks into the states F, all of them in a later epoch than s was, none
\* of them owns anything, and what another state owns is not bound in them.
LEMMA ForkKeeps ==
  ASSUME TypeOK, OwnerAtMostKey, OwnedIsPrivate, NEW s \in live, NEW F, ForkAction(s, F)
  PROVE  OwnerAtMostKey' /\ OwnedIsPrivate'
<1> USE DEF ForkAction
<1>1. live \subseteq States /\ \A t \in States : cowKey[t] \in Nat
  BY DEF TypeOK
<1>2. \A t \in live' : t \in States /\ (t \notin F => t \in live)
  BY <1>1
<1>3. \A t \in States \ F : Bound(t)' = Bound(t)
  BY DEF Bound
<1>4. \A f \in F : cowKey'[f] \in Int /\ cowKey[s] \in Int /\ cowKey'[f] > cowKey[s]
  BY <1>1
<1>5. OwnerAtMostKey'
  <2> SUFFICES ASSUME NEW t \in live', NEW p \in Bound(t)'
               PROVE  heap'[objects'[t][p]].owner <= cowKey'[t]
    BY DEF OwnerAtMostKey
  <2>1. CASE t \in F
    <3>1. heap'[objects'[t][p]].owner \in 0..cowKey[s]
      BY <2>1
    <3> QED
      BY <1>4, <2>1, <3>1
  <2>2. CASE t \notin F
    <3>1. t \in live /\ t \in States /\ p \in Bound(t)
      BY <1>2, <1>3, <2>2
    <3>2. heap'[objects'[t][p]] = heap[objects[t][p]] /\ cowKey'[t] = cowKey[t]
      BY <2>2, <3>1
    <3> QED
      BY <3>1, <3>2 DEF OwnerAtMostKey
  <2> QED
    BY <2>1, <2>2
<1>6. OwnedIsPrivate'
  <2> SUFFICES ASSUME NEW t \in live', NEW p \in Bound(t)',
                      NEW u \in live', NEW q \in Bound(u)',
                      heap'[objects'[t][p]].owner = cowKey'[t],
                      objects'[u][q] = objects'[t][p]
               PROVE  u = t /\ q = p
    BY SMTT(30) DEF OwnedIsPrivate
  <2>1. t \notin F
    <3> SUFFICES ASSUME t \in F PROVE FALSE
      OBVIOUS
    <3>1. heap'[objects'[t][p]].owner \in 0..cowKey[s]
      OBVIOUS
    <3> QED
      BY <1>4, <3>1, SMTT(30)
  <2>2. t \in live /\ t \in States /\ p \in Bound(t) /\ p \in Objects
    BY <1>2, <1>3, <2>1 DEF Bound
  <2>3. /\ objects'[t][p] = objects[t][p] /\ heap[objects[t][p]].owner = cowKey[t]
    BY <2>1, <2>2
  <2>4. CASE u \in F
    <3>1. objects[t][p] \notin NewIds
      BY <2>2, SMTT(30) DEF NewIds, InUse
    <3>2. objects[s][q] = objects[t][p] /\ q \in Bound(s)
      BY <2>2, <2>3, <2>4, <3>1 DEF Bound
    <3>3. s = t
      BY <2>2, <2>3, <3>2 DEF OwnedIsPrivate
    <3> QED
      BY <2>1, <3>3
  <2>5. CASE u \notin F
    <3>1. u \in live /\ q \in Bound(u) /\ objects[u][q] = objects[t][p]
      BY <1>2, <1>3, <2>3, <2>5, SMTT(30) DEF Bound
    <3> QED
      BY <2>2, <2>3, <3>1 DEF OwnedIsPrivate
  <2> QED
    BY <2>4, <2>5
<1>7. QED
  BY <1>5, <1>6

\* A fork keeps the invariant, and the new state sees the memory of the old one.
LEMMA ForkStep ==
  ASSUME IInv, NEW s \in States, NEW t \in States, Fork(s, t)
  PROVE  IInv' /\ MemoryOf' = [MemoryOf EXCEPT ![t] = MemoryOf[s]]
<1>1. TypeOK /\ OwnerAtMostKey /\ OwnedIsPrivate /\ FenceReachesAll
  BY DEF IInv
<1>2. /\ s \in live /\ t \notin live /\ s # t
      /\ live' = live \cup {s, t} /\ heap' = heap /\ aborted' = aborted
      /\ objects' = [objects EXCEPT ![t] = objects[s]]
      /\ cowKey' = [cowKey EXCEPT ![s] = cowKey[s] + 1, ![t] = cowKey[s] + 1]
      /\ persistentObjects' = [persistentObjects EXCEPT ![t] = persistentObjects[s]]
      /\ cowKey[s] < MaxCowKey
  BY <1>1 DEF Fork, Runs, CopyAddressSpace, TypeOK
<1>3. /\ objects \in [States -> [Objects -> Ids \cup {NoObject}]]
      /\ cowKey \in [States -> 1..MaxCowKey]
      /\ persistentObjects \in [States -> SUBSET Objects]
  BY <1>1 DEF TypeOK
<1>4. /\ cowKey' \in [States -> 1..MaxCowKey]
      /\ \A f \in {s, t} : cowKey'[f] > cowKey[s]
      /\ \A u \in States \ {s, t} : cowKey'[u] = cowKey[u]
  BY <1>2, <1>3, KeyAssumption
<1>5. \A u \in States : objects'[u] = IF u \in {s, t} THEN objects[s] ELSE objects[u]
  BY <1>2, <1>3
<1>6. \A u \in States : Bound(u)' = IF u \in {s, t} THEN Bound(s) ELSE Bound(u)
  BY <1>5 DEF Bound
<1>7. \A p \in Bound(s) : heap[objects[s][p]].owner \in 0..cowKey[s]
  <2> SUFFICES ASSUME NEW p \in Bound(s)
               PROVE  heap[objects[s][p]].owner \in 0..cowKey[s]
    OBVIOUS
  <2>1. heap[objects[s][p]].owner <= cowKey[s]
    BY <1>1, <1>2 DEF OwnerAtMostKey
  <2>2. objects[s][p] \in Ids
    BY <1>3 DEF Bound
  <2>3. heap[objects[s][p]].owner \in 0..MaxCowKey
    BY <1>1, <2>2 DEF TypeOK
  <2> QED
    BY <1>3, <2>1, <2>3
<1>8. OwnerAtMostKey' /\ OwnedIsPrivate'
  <2> DEFINE F == {s, t}
  <2>1. \A f \in F : \A p \in Bound(f)' :
           /\ objects'[f][p] \in {objects[s][p]} \cup NewIds
           /\ heap'[objects'[f][p]].owner \in 0..cowKey[s]
    BY <1>2, <1>5, <1>6, <1>7
  <2>2. \A u \in States \ F, p \in Objects : objects'[u][p] = objects[u][p]
    BY <1>5
  <2>3. \A u \in States \ F : \A p \in Bound(u) :
           heap'[objects'[u][p]] = heap[objects[u][p]]
    BY <1>2, <1>5
  <2>4. s \in F /\ F \cap live = {s} /\ F \in SUBSET States
    BY <1>2
  <2>5. /\ live' = live \cup F
        /\ \A f \in F : cowKey'[f] > cowKey[s]
        /\ \A u \in States \ F : cowKey'[u] = cowKey[u]
    BY <1>2, <1>4
  <2> HIDE DEF F
  <2> QED
    <3>1. ForkAction(s, F)
      BY <1>4, <2>1, <2>2, <2>3, <2>4, <2>5, Zenon DEF ForkAction
    <3> QED
      BY <1>1, <1>2, <3>1, ForkKeeps
<1>9. \A u \in States : \A p \in Bound(u)' :
         FindObject(u, p)' = IF u \in {s, t} THEN FindObject(s, p) ELSE FindObject(u, p)
  BY <1>2, <1>5 DEF FindObject
<1>10. TypeOK'
  <2>1. \A u \in States : \A p \in Bound(u)' : FindObject(u, p)' \in ObjectStates
    BY <1>1, <1>6, <1>9 DEF TypeOK
  <2>2. \A u \in States \ live' : Bound(u)' = {} /\ persistentObjects'[u] = {}
    BY <1>1, <1>2, <1>3, <1>6 DEF TypeOK
  <2>3. /\ objects' \in [States -> [Objects -> Ids \cup {NoObject}]]
        /\ persistentObjects' \in [States -> SUBSET Objects]
    BY <1>2, <1>3
  <2> QED
    BY <1>1, <1>2, <1>4, <2>1, <2>2, <2>3 DEF TypeOK
<1>11. FenceReachesAll'
  <2>1. \A u \in States : BoundPersistent(u)' = IF u \in {s, t} THEN BoundPersistent(s)
                                               ELSE BoundPersistent(u)
    BY <1>6, <1>9 DEF BoundPersistent
  <2>2. \A u \in States : persistentObjects'[u] = IF u \in {s, t} THEN persistentObjects[s]
                                                  ELSE persistentObjects[u]
    BY <1>2, <1>3
  <2> QED
    BY <1>1, <1>2, <2>1, <2>2 DEF FenceReachesAll, TypeOK
<1>12. MemoryOf' = [MemoryOf EXCEPT ![t] = MemoryOf[s]]
  BY <1>2, <1>3, <1>5, Zenon DEF MemoryOf, FindObject
<1>13. QED
  BY <1>8, <1>10, <1>11, <1>12 DEF IInv


\* A flush and a commit give an ObjectState again.
LEMMA ObjectStateTypes ==
  ASSUME NEW os \in ObjectStates
  PROVE  /\ \A l \in Lines : Flushed(os, l) \in ObjectStates
         /\ \A l \in Lines, b \in Bytes : Written(os, l, b) \in ObjectStates
         /\ Committed(os) \in ObjectStates
         /\ \A b \in Bytes : Overwritten(os, b) \in ObjectStates
         /\ \A l \in Lines : Flushed(os, l).persistent = os.persistent
         /\ \A l \in Lines, b \in Bytes : Written(os, l, b).persistent = os.persistent
         /\ Committed(os).persistent = os.persistent
         /\ \A b \in Bytes : Overwritten(os, b).persistent = os.persistent
<1>1. \A l \in Lines : /\ Flushed(os, l) \in ObjectStates
                       /\ Flushed(os, l).persistent = os.persistent
  BY DEF Flushed, ObjectStates, LineStates
<1>2. \A l \in Lines, b \in Bytes : /\ Written(os, l, b) \in ObjectStates
                                    /\ Written(os, l, b).persistent = os.persistent
  BY Zenon DEF Written, ObjectStates, LineStates
<1>3. Committed(os) \in ObjectStates /\ Committed(os).persistent = os.persistent
  BY DEF Committed, ObjectStates, LineStates
<1>4. \A b \in Bytes : /\ Overwritten(os, b) \in ObjectStates
                       /\ Overwritten(os, b).persistent = os.persistent
  BY DEF Overwritten, ObjectStates
<1>5. QED
  BY <1>1, <1>2, <1>3, <1>4

\* getWriteable returns a place that s may write.
LEMMA WriteablePlaced ==
  ASSUME TypeOK, NEW s, NEW O \in SUBSET Bound(s), NEW at \in GetWriteable(s, O)
  PROVE  Placed(s, O, at)
BY DEF GetWriteable, Placed

\* s writes os at the place i, and forks into the states F, which share it.
WriteAndFork(s, F, o, i, os) ==
  /\ s \in F /\ F \cap live = {s} /\ live' = live \cup F
  /\ o \in BoundPersistent(s) /\ o \in persistentObjects[s] /\ os.persistent
  /\ \A t \in States, p \in Objects : ~(t = s /\ p = o) => objects[t][p] # i
  /\ i = objects[s][o] \/ i \in NewIds
  /\ cowKey' \in [States -> 1..MaxCowKey]
  /\ \A f \in F : cowKey'[f] > cowKey[s]
  /\ \A u \in States \ F : cowKey'[u] = cowKey[u]
  /\ Become([t \in States |-> IF t \in F THEN [objects[s] EXCEPT ![o] = i]
                              ELSE objects[t]],
            [heap EXCEPT ![i] = [owner |-> cowKey[s], os |-> os]])
  /\ persistentObjects' = [t \in States |-> IF t \in F THEN persistentObjects[s]
                                            ELSE persistentObjects[t]]
  /\ aborted' = aborted

\* That keeps the invariant: s owned the place, but after the fork no state does.
LEMMA WriteAndForkStep ==
  ASSUME IInv, NEW s \in live, NEW F \in SUBSET States, NEW o \in Objects, NEW i \in Ids,
         NEW os \in ObjectStates, WriteAndFork(s, F, o, i, os)
  PROVE  IInv'
<1> DEFINE objs == [t \in States |-> IF t \in F THEN [objects[s] EXCEPT ![o] = i]
                                     ELSE objects[t]]
           h == [heap EXCEPT ![i] = [owner |-> cowKey[s], os |-> os]]
<1>1. TypeOK /\ OwnerAtMostKey /\ OwnedIsPrivate /\ FenceReachesAll
  BY DEF IInv
<1>2. /\ cowKey \in [States -> 1..MaxCowKey]
      /\ objects \in [States -> [Objects -> Ids \cup {NoObject}]]
      /\ heap \in [Ids -> [owner : 0..MaxCowKey, os : ObjectStates \cup {NoObject}]]
      /\ persistentObjects \in [States -> SUBSET Objects]
  BY <1>1 DEF TypeOK
<1>3. s \in States /\ i # NoObject
  BY <1>1, HeapAssumption DEF TypeOK
<1>4. /\ live' = live \cup F /\ aborted' = aborted
      /\ o \in BoundPersistent(s) /\ o \in persistentObjects[s]
      /\ persistentObjects' = [t \in States |-> IF t \in F THEN persistentObjects[s]
                                                ELSE persistentObjects[t]]
  BY DEF WriteAndFork
<1>5. s \in F /\ F \cap live = {s}
  BY DEF WriteAndFork
<1>6. /\ cowKey' \in [States -> 1..MaxCowKey]
      /\ \A f \in F : cowKey'[f] > cowKey[s]
      /\ \A u \in States \ F : cowKey'[u] = cowKey[u]
  BY DEF WriteAndFork
<1>7. Become(objs, h)
  BY DEF WriteAndFork
<1>8. i = objects[s][o] \/ i \in NewIds
  BY DEF WriteAndFork
<1>9. \A t \in States, p \in Objects : ~(t = s /\ p = o) => objects[t][p] # i
  BY DEF WriteAndFork
<1>10. /\ objs \in [States -> [Objects -> Ids \cup {NoObject}]]
       /\ \A t \in States, p \in Objects :
            objs[t][p] = IF t \in F THEN IF p = o THEN i ELSE objects[s][p]
                         ELSE objects[t][p]
  BY <1>2, <1>3
<1>11. /\ h \in [Ids -> [owner : 0..MaxCowKey, os : ObjectStates \cup {NoObject}]]
       /\ h[i] = [owner |-> cowKey[s], os |-> os]
       /\ \A j \in Ids \ {i} : h[j] = heap[j]
  BY <1>2, <1>3
<1>12. /\ objects' = objs
       /\ heap' = [j \in Ids |-> IF j \in InUse(objs) THEN h[j] ELSE Freed]
  BY <1>7 DEF Become
<1> HIDE DEF objs, h
<1>13. heap' \in [Ids -> [owner : 0..MaxCowKey, os : ObjectStates \cup {NoObject}]]
  <2>1. Freed \in [owner : 0..MaxCowKey, os : ObjectStates \cup {NoObject}]
    BY KeyAssumption DEF Freed
  <2> QED
    BY <1>11, <1>12, <2>1
<1>14. ASSUME NEW t \in States, NEW p \in Bound(t)'
       PROVE  /\ p \in Objects
              /\ t \in F => /\ objects'[t][p] \in {objects[s][p]} \cup NewIds
                            /\ p \in Bound(s)
              /\ t \notin F => p \in Bound(t)
              /\ heap'[objects'[t][p]] =
                   IF t \in F THEN IF p = o THEN [owner |-> cowKey[s], os |-> os]
                                   ELSE heap[objects[s][p]]
                   ELSE heap[objects[t][p]]
  <2>1. p \in Objects /\ objs[t][p] # NoObject
    BY <1>12 DEF Bound
  <2>2. objs[t][p] \in Ids /\ objs[t][p] \in InUse(objs)
    BY <1>10, <2>1 DEF InUse
  <2>3. heap'[objs[t][p]] = h[objs[t][p]]
    BY <1>12, <2>2
  <2>4. o \in Bound(s)
    BY <1>4 DEF BoundPersistent
  <2>5. CASE t \in F /\ p = o
    BY <1>3, <1>8, <1>10, <1>11, <1>12, <2>1, <2>3, <2>4, <2>5
  <2>6. CASE t \in F /\ p # o
    <3>1. objs[t][p] = objects[s][p] /\ objects[s][p] # i
      BY <1>3, <1>9, <1>10, <2>1, <2>6
    <3> QED
      BY <1>11, <1>12, <2>1, <2>2, <2>3, <2>6, <3>1 DEF Bound
  <2>7. CASE t \notin F
    <3>1. objs[t][p] = objects[t][p] /\ objects[t][p] # i
      BY <1>5, <1>9, <1>10, <2>1, <2>7
    <3> QED
      BY <1>11, <1>12, <2>1, <2>2, <2>3, <2>7, <3>1 DEF Bound
  <2> QED
    BY <2>5, <2>6, <2>7
<1>15. OwnerAtMostKey' /\ OwnedIsPrivate'
  <2>1. ASSUME NEW p \in Bound(s)
        PROVE  heap[objects[s][p]].owner \in 0..cowKey[s]
    <3>1. heap[objects[s][p]].owner <= cowKey[s]
      BY <1>1, <1>4 DEF OwnerAtMostKey
    <3>2. objects[s][p] \in Ids
      BY <1>2, <1>3 DEF Bound
    <3>3. heap[objects[s][p]].owner \in 0..MaxCowKey
      BY <1>2, <3>2
    <3> QED
      BY <1>2, <1>3, <3>1, <3>3
  <2>2. cowKey[s] \in 0..cowKey[s]
    BY <1>2, <1>3
  <2>3. \A f \in F : \A p \in Bound(f)' :
           /\ objects'[f][p] \in {objects[s][p]} \cup NewIds
           /\ heap'[objects'[f][p]].owner \in 0..cowKey[s]
    <3> SUFFICES ASSUME NEW f \in F, NEW p \in Bound(f)'
                 PROVE  /\ objects'[f][p] \in {objects[s][p]} \cup NewIds
                        /\ heap'[objects'[f][p]].owner \in 0..cowKey[s]
      OBVIOUS
    <3>1. f \in States
      BY <1>5
    <3>2. p = o => heap'[objects'[f][p]] = [owner |-> cowKey[s], os |-> os]
      BY <1>14, <3>1
    <3>3. p # o => heap'[objects'[f][p]] = heap[objects[s][p]] /\ p \in Bound(s)
      BY <1>14, <3>1
    <3>4. objects'[f][p] \in {objects[s][p]} \cup NewIds
      BY <1>14, <3>1
    <3> QED
      BY <2>1, <2>2, <3>2, <3>3, <3>4, SMTT(30)
  <2>4. \A u \in States \ F, p \in Objects : objects'[u][p] = objects[u][p]
    BY <1>10, <1>12
  <2>5. \A u \in States \ F : \A p \in Bound(u) :
           heap'[objects'[u][p]] = heap[objects[u][p]]
    <3>1. \A u \in States \ F : Bound(u)' = Bound(u)
      BY <2>4 DEF Bound
    <3> QED
      BY <1>14, <3>1
  <2> QED
    <3>1. ForkAction(s, F)
      BY <1>4, <1>5, <1>6, <2>3, <2>4, <2>5, Zenon DEF ForkAction
    <3> QED
      BY <1>1, <1>4, <3>1, ForkKeeps
<1>16. \A t \in States : \A p \in Bound(t)' :
          /\ t \in F => p \in Bound(s)
          /\ t \notin F => p \in Bound(t)
          /\ FindObject(t, p)' = IF t \in F THEN IF p = o THEN os ELSE FindObject(s, p)
                                 ELSE FindObject(t, p)
  BY <1>14, SMTT(30) DEF FindObject
<1>17. \A t \in States : persistentObjects'[t] = IF t \in F THEN persistentObjects[s]
                                                 ELSE persistentObjects[t]
  BY <1>4
<1>18. TypeOK'
  <2>1. \A u \in States : \A p \in Bound(u)' : FindObject(u, p)' \in ObjectStates
    BY <1>1, <1>3, <1>16 DEF TypeOK
  <2>2. \A u \in States \ live' : Bound(u)' = {} /\ persistentObjects'[u] = {}
    BY <1>1, <1>4, <1>16, <1>17 DEF TypeOK
  <2>3. /\ persistentObjects' \in [States -> SUBSET Objects]
        /\ live' \subseteq States /\ aborted' \in BOOLEAN
    BY <1>1, <1>4, <1>2, <1>5, <1>3 DEF TypeOK
  <2> QED
    BY <1>6, <1>10, <1>12, <1>13, <2>1, <2>2, <2>3 DEF TypeOK
<1>19. FenceReachesAll'
  <2> SUFFICES ASSUME NEW t \in live', NEW p \in Bound(t)', FindObject(t, p)'.persistent
               PROVE  p \in persistentObjects'[t]
    BY DEF FenceReachesAll, BoundPersistent
  <2>1. t \in States
    BY <1>1, <1>4, <1>5 DEF TypeOK
  <2>2. CASE t \in F /\ p = o
    BY <1>4, <1>17, <2>1, <2>2
  <2>3. CASE t \in F /\ p # o
    <3>1. p \in BoundPersistent(s)
      BY <1>16, <2>1, <2>3 DEF BoundPersistent
    <3> QED
      BY <1>1, <1>4, <1>17, <2>1, <2>3, <3>1 DEF FenceReachesAll
  <2>4. CASE t \notin F
    <3>1. p \in BoundPersistent(t) /\ t \in live
      BY <1>4, <1>16, <2>1, <2>4 DEF BoundPersistent
    <3> QED
      BY <1>1, <1>17, <2>1, <2>4, <3>1 DEF FenceReachesAll
  <2> QED
    BY <2>2, <2>3, <2>4
<1>20. QED
  BY <1>15, <1>18, <1>19 DEF IInv

\* Even the flush that forks keeps the invariant: it is not ownership that the
\* shared PersistentState breaks.
LEMMA SymbolicFlushStep ==
  ASSUME IInv, NEW o \in Objects, NEW ls \in FlushCases, NEW ss \in [DOMAIN ls -> States],
         ExecuteSymbolicFlush(ss, o, ls)
  PROVE  IInv'
<1> DEFINE s == ss[1]
           D == DOMAIN ls
           F == {ss[i] : i \in D}
<1>1. TypeOK /\ OwnerAtMostKey /\ OwnedIsPrivate /\ FenceReachesAll
  BY DEF IInv
<1>2. /\ D = {1, 2} \/ D = {1, 2, 3}
      /\ \A i \in D : ls[i] \in Lines /\ ss[i] \in States
  BY LineAssumption DEF FlushCases
<1>3. /\ s \in live /\ o \in BoundPersistent(s) /\ o \in persistentObjects[s]
      /\ \A i \in D \ {1} : ss[i] \notin live
      /\ \A i, j \in D : ss[i] = ss[j] => i = j
      /\ live' = live \cup F /\ aborted' = aborted
      /\ persistentObjects' = [t \in States |-> IF t \in F THEN persistentObjects[s]
                                                ELSE persistentObjects[t]]
  BY DEF ExecuteSymbolicFlush, Runs
<1>4. /\ cowKey \in [States -> 1..MaxCowKey]
      /\ objects \in [States -> [Objects -> Ids \cup {NoObject}]]
      /\ heap \in [Ids -> [owner : 0..MaxCowKey, os : ObjectStates \cup {NoObject}]]
      /\ persistentObjects \in [States -> SUBSET Objects]
  BY <1>1 DEF TypeOK
<1>5. s \in F /\ F \cap live = {s} /\ F \in SUBSET States
  BY <1>2, <1>3
<1>6. /\ cowKey' \in [States -> 1..MaxCowKey]
      /\ \A f \in F : cowKey'[f] > cowKey[s]
      /\ \A u \in States \ F : cowKey'[u] = cowKey[u]
  <2>1. CASE D = {1, 2}
    <3>1. /\ cowKey' = [cowKey EXCEPT ![s] = cowKey[s] + 1, ![ss[2]] = cowKey[s] + 1]
          /\ cowKey[s] + 1 <= MaxCowKey
      BY <1>2, <2>1, SMTT(30) DEF ExecuteSymbolicFlush, CopyAddressSpace
    <3>2. F = {s, ss[2]}
      BY <2>1
    <3> HIDE DEF F
    <3> QED
      BY <1>2, <1>4, <2>1, <3>1, <3>2, KeyAssumption
  <2>2. CASE D = {1, 2, 3}
    <3> DEFINE k1 == [cowKey EXCEPT ![s] = cowKey[s] + 1, ![ss[2]] = cowKey[s] + 1]
    <3>1. /\ cowKey' = [k1 EXCEPT ![ss[2]] = k1[ss[2]] + 1, ![ss[3]] = k1[ss[2]] + 1]
          /\ cowKey[s] + 2 <= MaxCowKey
      BY <1>2, <2>2, SMTT(30) DEF ExecuteSymbolicFlush, CopyAddressSpace
    <3>2. F = {s, ss[2], ss[3]}
      BY <2>2
    <3>3. k1[ss[2]] = cowKey[s] + 1 /\ k1[s] = cowKey[s] + 1 /\ k1 \in [States -> 1..MaxCowKey]
          /\ \A u \in States \ F : k1[u] = cowKey[u]
      BY <1>2, <1>3, <1>4, <2>2, <3>1, KeyAssumption, SMTT(30)
    <3>4. s # ss[2] /\ s # ss[3] /\ ss[2] \in States /\ ss[3] \in States
      BY <1>2, <1>3, <2>2
    <3>5. s \in States /\ cowKey[s] \in Nat /\ cowKey[s] + 2 \in 1..MaxCowKey
      BY <1>2, <1>4, <2>2, <3>1, KeyAssumption
    <3> HIDE DEF F, k1, s
    <3>6. /\ cowKey' \in [States -> 1..MaxCowKey]
          /\ cowKey'[s] = cowKey[s] + 1
          /\ cowKey'[ss[2]] = cowKey[s] + 2 /\ cowKey'[ss[3]] = cowKey[s] + 2
          /\ \A u \in States \ {s, ss[2], ss[3]} : cowKey'[u] = k1[u]
      BY <3>1, <3>3, <3>4, <3>5
    <3> QED
      BY <3>2, <3>3, <3>5, <3>6
  <2> QED
    BY <1>2, <2>1, <2>2
<1> DEFINE old == FindObject(s, o)
<1>7. PICK at \in GetWriteable(s, {o}), os \in ObjectStates :
        /\ os.persistent
        /\ Become([t \in States |-> IF t \in F THEN [objects[s] EXCEPT ![o] = at[o]]
                                    ELSE objects[t]],
                  [heap EXCEPT ![at[o]] = [owner |-> cowKey[s], os |-> os]])
  <2> DEFINE f2 == Flushed(Flushed(old, ls[1]), ls[2])
             os1 == IF 3 \in D THEN Flushed(f2, ls[3]) ELSE f2
  <2>1. old \in ObjectStates /\ old.persistent
    BY <1>1, <1>3 DEF BoundPersistent, TypeOK
  <2> HIDE DEF old
  <2>2. /\ Flushed(old, ls[1]) \in ObjectStates
        /\ Flushed(old, ls[1]).persistent
    BY <1>2, <2>1, ObjectStateTypes
  <2>3. f2 \in ObjectStates /\ f2.persistent
    BY <1>2, <2>2, ObjectStateTypes
  <2> HIDE DEF f2
  <2>4. os1 \in ObjectStates /\ os1.persistent
    BY <1>2, <2>3, ObjectStateTypes
  <2>5. \E at \in GetWriteable(s, {o}) :
          Become([t \in States |-> IF t \in F THEN [objects[s] EXCEPT ![o] = at[o]]
                                   ELSE objects[t]],
                 [heap EXCEPT ![at[o]] = [owner |-> cowKey[s], os |-> os1]])
    <3>1. D = DOMAIN ss
      OBVIOUS
    <3>2. os1 = LET forks == IF 3 \in DOMAIN ss THEN 2 ELSE 1
                IN  IF forks = 1 THEN f2 ELSE Flushed(f2, ls[3])
      BY <3>1
    <3> QED
      BY <3>1, <3>2, Zenon DEF ExecuteSymbolicFlush, f2, old
  <2> HIDE DEF os1
  <2> QED
    BY <2>4, <2>5, Zenon

<1> DEFINE i == at[o]
           O == {o}
<1>8. O \in SUBSET Objects /\ Placed(s, O, at) /\ o \in O
  BY <1>1, <1>3, WriteablePlaced DEF BoundPersistent
<1>9. i \in Ids /\ (i = objects[s][o] \/ i \in NewIds)
  BY <1>8 DEF Placed
<1> HIDE DEF O
<1>10. \A t \in States, p \in Objects : ~(t = s /\ p = o) => objects[t][p] # i
  BY <1>1, <1>3, <1>8, PlacesAreFree, Zenon
<1> HIDE DEF F
<1>11. WriteAndFork(s, F, o, i, os)
  BY <1>3, <1>5, <1>6, <1>7, <1>9, <1>10, Zenon DEF WriteAndFork
<1>12. QED
  BY <1>3, <1>5, <1>9, <1>11, WriteAndForkStep, Zenon

\* What it means that only the memory of s changes, to m.
LEMMA PrivateStep ==
  ASSUME NEW s \in States, NEW m, live' = live, MemoryOf' = [MemoryOf EXCEPT ![s] = m]
  PROVE  PM!Private(s) /\ MemoryOf'[s] = m
<1>1. MemoryOf = [t \in States |-> MemoryOf[t]]
  BY DEF MemoryOf
<1> HIDE DEF MemoryOf
<1> QED
  BY <1>1 DEF PM!Private

\* The memory that a state sees.
LEMMA MemoryFacts ==
  ASSUME TypeOK, NEW s \in States
  PROVE  /\ MemoryOf[s] = [o \in Objects |-> MemoryOf[s][o]]
         /\ MemoryOf[s] \in [Objects -> ObjectStates \cup {NoObject}]
         /\ PM!Bound(s) = Bound(s)
         /\ \A o \in Bound(s) : MemoryOf[s][o] = FindObject(s, o)
<1>1. \A o \in Objects : MemoryOf[s][o] = IF objects[s][o] = NoObject THEN NoObject
                                         ELSE FindObject(s, o)
  BY DEF MemoryOf
<1>2. MemoryOf[s] = [o \in Objects |-> MemoryOf[s][o]]
  BY DEF MemoryOf
<1>3. \A o \in Bound(s) : /\ o \in Objects /\ objects[s][o] # NoObject
                          /\ FindObject(s, o) \in ObjectStates
  BY DEF TypeOK, Bound
<1>4. \A o \in Objects \ Bound(s) : objects[s][o] = NoObject
  BY DEF Bound
<1> HIDE DEF MemoryOf
<1>5. \A o \in Objects : MemoryOf[s][o] = IF o \in Bound(s) THEN FindObject(s, o)
                                          ELSE NoObject
  BY <1>1, <1>3, <1>4
<1>6. MemoryOf[s] \in [Objects -> ObjectStates \cup {NoObject}]
  BY <1>2, <1>3, <1>5
<1>7. PM!Bound(s) = Bound(s)
  BY <1>3, <1>5, HeapAssumption DEF PM!Bound, Bound
<1> QED
  BY <1>2, <1>3, <1>5, <1>6, <1>7

\* A step that binds o to the ObjectState os in the address space of s.
BindAction(s, o, os) ==
  /\ BindObject(s, o, os)
  /\ live' = live /\ cowKey' = cowKey /\ aborted' = aborted
  /\ persistentObjects' \in [States -> SUBSET Objects]
  /\ \A t \in States \ {s} : persistentObjects'[t] = persistentObjects[t]
  /\ persistentObjects[s] \subseteq persistentObjects'[s]
  /\ os.persistent => o \in persistentObjects'[s]

\* A step that writes to through getWriteable to the objects O.
WriteAction(s, O, to) ==
  /\ O \in SUBSET Bound(s)
  /\ to \in [O -> ObjectStates]
  /\ \A o \in O : to[o].persistent = FindObject(s, o).persistent
  /\ WriteObjects(s, O, to)
  /\ UNCHANGED <<live, cowKey, persistentObjects, aborted>>

\* The memory of s with to in place of the contents of the objects O.
Overlaid(s, O, to) == [o \in Objects |-> IF o \in O THEN to[o] ELSE MemoryOf[s][o]]

\* The invariant is kept, and the step changes the memory of s alone, to m.
Becomes(s, m) ==
  /\ IInv'
  /\ PM!Private(s)
  /\ MemoryOf'[s] = m

\* bindObject of a new ObjectState
LEMMA BindStep ==
  ASSUME IInv, NEW s \in live, NEW o \in Objects, NEW os \in ObjectStates,
         BindAction(s, o, os)
  PROVE  Becomes(s, [MemoryOf[s] EXCEPT ![o] = os])
<1>1. TypeOK /\ s \in States
  BY DEF IInv, TypeOK
<1>2. PICK i \in NewIds : Put(s, [x \in {o} |-> i], [x \in {o} |-> os])
  BY Zenon DEF BindAction, BindObject
<1> DEFINE O == {o}
           at == [x \in O |-> i]
           to == [x \in O |-> os]
           m == [p \in Objects |-> IF p \in O THEN to[p] ELSE MemoryOf[s][p]]
<1>3. PutAction(s, O, at, to) /\ O \in SUBSET Objects
  BY <1>2 DEF BindAction, PutAction, Placed, NewIds
<1> HIDE DEF O, at, to, MemoryOf
<1>4. IInv' /\ MemoryOf' = [MemoryOf EXCEPT ![s] = m]
  BY <1>3, PutStep
<1>5. m = [MemoryOf[s] EXCEPT ![o] = os]
  BY <1>1, MemoryFacts, Zenon DEF O, to
<1> HIDE DEF m
<1>6. live' = live
  BY DEF BindAction
<1>7. PM!Private(s) /\ MemoryOf'[s] = m
  BY <1>1, <1>4, <1>6, PrivateStep, Zenon
<1> QED
  BY <1>4, <1>5, <1>7, Zenon DEF Becomes

\* A write through getWriteable
LEMMA WriteStep ==
  ASSUME IInv, NEW s \in live, NEW O, NEW to, WriteAction(s, O, to)
  PROVE  Becomes(s, Overlaid(s, O, to))
<1>0. /\ O \in SUBSET Bound(s) /\ to \in [O -> ObjectStates]
      /\ \A o \in O : to[o].persistent = FindObject(s, o).persistent
      /\ UNCHANGED <<live, cowKey, persistentObjects, aborted>>
  BY DEF WriteAction
<1>1. TypeOK /\ s \in States /\ FenceReachesAll /\ O \in SUBSET Objects
  BY <1>0 DEF IInv, TypeOK, Bound
<1>2. PICK at \in GetWriteable(s, O) : Put(s, at, to)
  BY Zenon DEF WriteAction, WriteObjects
<1>3. Placed(s, O, at)
  BY <1>0, <1>1, <1>2, WriteablePlaced
<1>4. \A o \in O : to[o].persistent => o \in persistentObjects'[s]
  BY <1>0, <1>1 DEF FenceReachesAll, BoundPersistent
<1>5. persistentObjects' \in [States -> SUBSET Objects]
  BY <1>0, <1>1 DEF TypeOK
<1> DEFINE m == [o \in Objects |-> IF o \in O THEN to[o] ELSE MemoryOf[s][o]]
<1> HIDE DEF MemoryOf
<1>6. IInv' /\ MemoryOf' = [MemoryOf EXCEPT ![s] = m]
  <2>1. PutAction(s, O, at, to)
    BY <1>0, <1>2, <1>3, <1>4, <1>5 DEF PutAction
  <2> QED
    BY <1>1, <2>1, PutStep
<1> HIDE DEF m
<1>7. PM!Private(s) /\ MemoryOf'[s] = m
  BY <1>0, <1>1, <1>6, PrivateStep, Zenon
<1> QED
  BY <1>6, <1>7, Zenon DEF Becomes, Overlaid, m


\* An assertion that fails changes no memory.
LEMMA AbortStep ==
  ASSUME IInv, aborted' \in BOOLEAN,
         UNCHANGED <<live, cowKey, objects, heap, persistentObjects>>
  PROVE  IInv' /\ UNCHANGED <<live, MemoryOf>>
<1>1. /\ \A s : Bound(s)' = Bound(s) /\ BoundPersistent(s)' = BoundPersistent(s)
      /\ \A s, o : FindObject(s, o)' = FindObject(s, o)
      /\ MemoryOf' = MemoryOf
  BY DEF Bound, BoundPersistent, FindObject, MemoryOf
<1>2. TypeOK'
  BY <1>1 DEF IInv, TypeOK
<1>3. OwnerAtMostKey' /\ OwnedIsPrivate' /\ FenceReachesAll'
  BY <1>1 DEF IInv, OwnerAtMostKey, OwnedIsPrivate, FenceReachesAll
<1> QED
  BY <1>1, <1>2, <1>3 DEF IInv


\* PrivateMemory and AddressSpace agree on what happens to the contents.
LEMMA SameContents ==
  /\ PM!ObjectStates = ObjectStates
  /\ \A p, b : PM!NewObjectState(p, b) = NewObjectState(p, b)
  /\ \A os, l, b : PM!Written(os, l, b) = Written(os, l, b)
  /\ \A os, l : PM!Flushed(os, l) = Flushed(os, l)
  /\ \A os : PM!Committed(os) = Committed(os)
  /\ \A os, b : PM!Overwritten(os, b) = Overwritten(os, b)
BY DEF PM!ObjectStates, ObjectStates, PM!LineStates, LineStates, PM!NewObjectState,
       NewObjectState, PM!Written, Written, PM!Flushed, Flushed, PM!Committed,
       Committed, PM!Overwritten, Overwritten

\* New ObjectStates: an allocation, klee_make_symbolic, klee_pmem_mark_persistent.
LEMMA NewObjectSteps ==
  ASSUME IInv, NEW s \in States, NEW o \in Objects,
         \/ \E b \in Bytes : Alloc(s, o, b) \/ ExecuteMakeSymbolic(s, o, b)
         \/ ExecuteMarkPersistent(s, o)
  PROVE  IInv' /\ PM!Bind(s, o)
<1>1. TypeOK /\ persistentObjects \in [States -> SUBSET Objects]
  BY DEF IInv, TypeOK
<1>2. \A p \in BOOLEAN, b \in Bytes : /\ NewObjectState(p, b) \in ObjectStates
                                      /\ NewObjectState(p, b).persistent = p
  BY DEF NewObjectState, ObjectStates, LineStates
<1>3. ASSUME NEW b \in Bytes, Alloc(s, o, b) \/ ExecuteMakeSymbolic(s, o, b)
      PROVE  IInv' /\ PM!Bind(s, o)
  <2> DEFINE os == NewObjectState(FALSE, b)
  <2>1. /\ s \in live /\ BindObject(s, o, os)
        /\ live' = live /\ cowKey' = cowKey /\ aborted' = aborted
        /\ persistentObjects' = persistentObjects
    BY <1>3, Zenon DEF Alloc, ExecuteMakeSymbolic, Runs
  <2>2. os \in ObjectStates /\ ~os.persistent
    BY <1>2, Zenon
  <2> HIDE DEF os
  <2>3. IInv' /\ PM!Private(s) /\ MemoryOf'[s] = [MemoryOf[s] EXCEPT ![o] = os]
    <3>1. BindAction(s, o, os)
      BY <1>1, <2>1, <2>2 DEF BindAction
    <3> QED
      BY <2>1, <2>2, <3>1, BindStep, Zenon DEF Becomes
  <2> QED
    BY <2>3, SameContents, Zenon DEF PM!Bind, os
<1>4. ASSUME ExecuteMarkPersistent(s, o)
      PROVE  IInv' /\ PM!Bind(s, o)
  <2> DEFINE b == FindObject(s, o).bytes
             os == NewObjectState(TRUE, b)
  <2>1. /\ s \in live /\ o \in Bound(s) /\ BindObject(s, o, os)
        /\ live' = live /\ cowKey' = cowKey /\ aborted' = aborted
        /\ persistentObjects' = [persistentObjects EXCEPT ![s] = @ \cup {o}]
    BY <1>4, Zenon DEF ExecuteMarkPersistent, Runs
  <2>2. b \in Bytes
    BY <1>1, <2>1 DEF TypeOK, ObjectStates
  <2>3. os \in ObjectStates
    BY <1>2, <2>2, Zenon
  <2>4. /\ persistentObjects' \in [States -> SUBSET Objects]
        /\ \A t \in States \ {s} : persistentObjects'[t] = persistentObjects[t]
        /\ persistentObjects[s] \subseteq persistentObjects'[s]
        /\ o \in persistentObjects'[s]
    BY <1>1, <2>1
  <2> HIDE DEF os
  <2>5. IInv' /\ PM!Private(s) /\ MemoryOf'[s] = [MemoryOf[s] EXCEPT ![o] = os]
    <3>1. BindAction(s, o, os)
      BY <2>1, <2>4 DEF BindAction
    <3> QED
      BY <2>1, <2>3, <3>1, BindStep, Zenon DEF Becomes
  <2> QED
    BY <2>2, <2>5, SameContents, Zenon DEF PM!Bind, os
<1>5. QED
  BY <1>3, <1>4

\* The store of executeMemoryOperation, and the flush at a concrete address.
LEMMA WriteObjectSteps ==
  ASSUME IInv, NEW s \in States, NEW o \in Objects, NEW l \in Lines
  PROVE  /\ \A b \in Bytes :
              ExecuteMemoryOperation(s, o, l, b) => IInv' /\ PM!Write(s, o, l)
         /\ ExecutePersistentMemoryFlush(s, o, l) =>
              IInv' /\ (PM!Flush(s, o) \/ UNCHANGED <<live, MemoryOf>>)
<1> DEFINE O == {o}
           os == FindObject(s, o)
<1>1. TypeOK
  BY DEF IInv
<1>2. \A p \in O : p = o
  OBVIOUS
<1>3. ASSUME o \in Bound(s)
      PROVE  /\ O \in SUBSET Bound(s) /\ o \in O /\ os \in ObjectStates
             /\ PM!Bound(s) = Bound(s) /\ MemoryOf[s][o] = os
             /\ MemoryOf[s] = [p \in Objects |-> MemoryOf[s][p]]
  BY <1>1, <1>3, MemoryFacts, Zenon DEF TypeOK
<1>4. ASSUME o \in Bound(s), s \in live, NEW new \in ObjectStates,
             new.persistent = os.persistent, WriteObjects(s, {o}, [p \in {o} |-> new]),
             UNCHANGED <<live, cowKey, persistentObjects, aborted>>
      PROVE  IInv' /\ PM!Private(s) /\ MemoryOf'[s] = [MemoryOf[s] EXCEPT ![o] = new]
  <2> DEFINE to == [p \in O |-> new]
  <2>1. /\ to \in [O -> ObjectStates] /\ WriteObjects(s, O, to)
        /\ \A p \in O : to[p].persistent = FindObject(s, p).persistent
    BY <1>4
  <2>2. to[o] = new
    OBVIOUS
  <2> HIDE DEF to, O
  <2>3. /\ IInv' /\ PM!Private(s)
        /\ MemoryOf'[s] = [p \in Objects |-> IF p \in O THEN to[p] ELSE MemoryOf[s][p]]
    <3>1. WriteAction(s, O, to)
      BY <1>3, <1>4, <2>1, Zenon DEF WriteAction
    <3>2. Becomes(s, Overlaid(s, O, to))
      BY <1>4, <3>1, WriteStep
    <3> QED
      BY <3>2, Zenon DEF Becomes, Overlaid
  <2>4. [p \in Objects |-> IF p \in O THEN to[p] ELSE MemoryOf[s][p]] =
          [MemoryOf[s] EXCEPT ![o] = new]
    BY <1>2, <1>3, <1>4, <2>2
  <2> QED
    BY <2>3, <2>4
<1> HIDE DEF os, O
<1>5. ASSUME NEW b \in Bytes, ExecuteMemoryOperation(s, o, l, b)
      PROVE  IInv' /\ PM!Write(s, o, l)
  <2> DEFINE new == Written(os, l, b)
  <2>1. /\ s \in live /\ o \in Bound(s) /\ WriteObjects(s, {o}, [p \in {o} |-> new])
        /\ UNCHANGED <<live, cowKey, persistentObjects, aborted>>
    BY <1>5 DEF ExecuteMemoryOperation, Runs, os
  <2>2. new \in ObjectStates /\ new.persistent = os.persistent
    BY <1>3, <2>1, ObjectStateTypes
  <2> HIDE DEF new
  <2>3. IInv' /\ PM!Private(s) /\ MemoryOf'[s] = [MemoryOf[s] EXCEPT ![o] = new]
    BY <1>4, <2>1, <2>2, Zenon
  <2> QED
    BY <1>3, <2>1, <2>3, SameContents DEF PM!Write, new
<1>6. ASSUME ExecutePersistentMemoryFlush(s, o, l), os.persistent
      PROVE  IInv' /\ PM!Flush(s, o)
  <2> DEFINE new == Flushed(os, l)
  <2>1. /\ s \in live /\ o \in Bound(s) /\ WriteObjects(s, {o}, [p \in {o} |-> new])
        /\ UNCHANGED <<live, cowKey, persistentObjects, aborted>>
    BY <1>6 DEF ExecutePersistentMemoryFlush, Runs, os
  <2>2. new \in ObjectStates /\ new.persistent = os.persistent
    BY <1>3, <2>1, ObjectStateTypes
  <2> HIDE DEF new
  <2>3. IInv' /\ PM!Private(s) /\ MemoryOf'[s] = [MemoryOf[s] EXCEPT ![o] = new]
    BY <1>4, <2>1, <2>2, Zenon
  <2>4. /\ {s} \cup (live' \ live) = {s} /\ live \subseteq live' /\ live' \subseteq States
        /\ o \in PM!Bound(s)
    BY <1>1, <1>3, <2>1 DEF TypeOK
  <2>5. MemoryOf' = [MemoryOf EXCEPT ![s] = MemoryOf'[s]]
    BY <2>3 DEF PM!Private
  <2>6. MemoryOf = [t \in States |-> MemoryOf[t]]
    BY DEF MemoryOf
  <2>7. MemoryOf' = [t \in States |-> IF t \in {s} THEN MemoryOf'[t] ELSE MemoryOf[t]]
    BY <2>5, <2>6
  <2>8. MemoryOf'[s] = [MemoryOf[s] EXCEPT ![o] = Flushed(@, l)]
    BY <1>3, <2>1, <2>3 DEF new
  <2> QED
    BY <2>3, <2>4, <2>7, <2>8, SameContents DEF PM!Flush
<1>7. ASSUME ExecutePersistentMemoryFlush(s, o, l), ~os.persistent
      PROVE  IInv' /\ UNCHANGED <<live, MemoryOf>>
  <2>1. aborted' = TRUE /\ UNCHANGED <<live, cowKey, objects, heap, persistentObjects>>
    BY <1>7 DEF ExecutePersistentMemoryFlush, os
  <2> QED
    BY <2>1, AbortStep
<1>8. QED
  BY <1>5, <1>6, <1>7


\* Bytes that change without a store: an external call, klee_init_concrete_zero.
LEMMA OverwriteSteps ==
  ASSUME IInv, NEW s \in States,
         \/ \E to \in [Objects -> Bytes] : CopyInConcretes(s, to)
         \/ \E O \in SUBSET Objects, zero \in Bytes : HandleInitConcreteZero(s, O, zero)
  PROVE  IInv' /\ PM!Overwrite(s)
<1>1. TypeOK
  BY DEF IInv
<1>2. PICK O \in SUBSET Bound(s), to \in [Objects -> Bytes] :
        /\ s \in live
        /\ WriteObjects(s, O, [o \in O |-> Overwritten(FindObject(s, o), to[o])])
        /\ UNCHANGED <<live, cowKey, persistentObjects, aborted>>
  <2>1. ASSUME NEW to \in [Objects -> Bytes], CopyInConcretes(s, to)
        PROVE  \E O \in SUBSET Bound(s) :
                 /\ s \in live
                 /\ WriteObjects(s, O, [o \in O |-> Overwritten(FindObject(s, o), to[o])])
                 /\ UNCHANGED <<live, cowKey, persistentObjects, aborted>>
    BY <2>1, Zenon DEF CopyInConcretes, Runs
  <2>2. ASSUME NEW O \in SUBSET Objects, NEW zero \in Bytes, HandleInitConcreteZero(s, O, zero)
        PROVE  \E to \in [Objects -> Bytes] :
                 /\ O \in SUBSET Bound(s)
                 /\ s \in live
                 /\ WriteObjects(s, O, [o \in O |-> Overwritten(FindObject(s, o), to[o])])
                 /\ UNCHANGED <<live, cowKey, persistentObjects, aborted>>
    <3> DEFINE to == [o \in Objects |-> zero]
    <3>1. [o \in O |-> Overwritten(FindObject(s, o), zero)] =
            [o \in O |-> Overwritten(FindObject(s, o), to[o])]
      OBVIOUS
    <3>2. to \in [Objects -> Bytes] /\ O \in SUBSET Bound(s)
      BY <2>2 DEF HandleInitConcreteZero, BoundPersistent
    <3> HIDE DEF to
    <3> QED
      BY <2>2, <3>1, <3>2 DEF HandleInitConcreteZero, Runs
  <2> QED
    BY <2>1, <2>2, Zenon
<1> DEFINE new == [o \in O |-> Overwritten(FindObject(s, o), to[o])]
<1>3. ASSUME NEW o \in O
      PROVE  /\ o \in Bound(s) /\ o \in Objects /\ to[o] \in Bytes
             /\ FindObject(s, o) \in ObjectStates
             /\ new[o] \in ObjectStates
             /\ new[o].persistent = FindObject(s, o).persistent
  <2>1. /\ o \in Bound(s) /\ o \in Objects /\ to[o] \in Bytes
        /\ FindObject(s, o) \in ObjectStates
    BY <1>1, <1>2 DEF TypeOK, Bound
  <2> QED
    BY <2>1, ObjectStateTypes
<1>4. new \in [O -> ObjectStates]
  BY <1>3
<1>5. \A o \in O : new[o] = Overwritten(FindObject(s, o), to[o])
  OBVIOUS
<1>6. WriteObjects(s, O, new)
  BY <1>2
<1> HIDE DEF new
<1>7. /\ IInv' /\ PM!Private(s)
      /\ MemoryOf'[s] = [o \in Objects |-> IF o \in O THEN new[o] ELSE MemoryOf[s][o]]
  <2>1. WriteAction(s, O, new)
    BY <1>2, <1>3, <1>4, <1>6, Zenon DEF WriteAction
  <2>2. Becomes(s, Overlaid(s, O, new))
    BY <1>2, <2>1, WriteStep
  <2> QED
    BY <2>2, Zenon DEF Becomes, Overlaid
<1>8. /\ PM!Bound(s) = Bound(s)
      /\ \A o \in Bound(s) : MemoryOf[s][o] = FindObject(s, o)
      /\ MemoryOf[s] \in [Objects -> ObjectStates \cup {NoObject}]
  BY <1>1, MemoryFacts, Zenon
<1>9. MemoryOf'[s] \in [Objects -> ObjectStates \cup {NoObject}]
  BY <1>4, <1>7, <1>8
<1>10. \A o \in Objects : \/ MemoryOf'[s][o] = MemoryOf[s][o]
                          \/ /\ o \in PM!Bound(s)
                             /\ \E b \in Bytes : MemoryOf'[s][o] = Overwritten(MemoryOf[s][o], b)
  <2> SUFFICES ASSUME NEW o \in Objects, MemoryOf'[s][o] # MemoryOf[s][o]
               PROVE  /\ o \in PM!Bound(s)
                      /\ \E b \in Bytes : MemoryOf'[s][o] = Overwritten(MemoryOf[s][o], b)
    OBVIOUS
  <2>1. o \in O /\ MemoryOf'[s][o] = new[o]
    BY <1>7, Zenon
  <2>2. o \in Bound(s) /\ to[o] \in Bytes
    BY <1>3, <2>1
  <2>3. MemoryOf'[s][o] = Overwritten(MemoryOf[s][o], to[o])
    BY <1>5, <1>8, <2>1, <2>2, Zenon
  <2> QED
    BY <1>8, <2>2, <2>3, Zenon
<1> QED
  BY <1>7, <1>9, <1>10, SameContents DEF PM!Overwrite, PM!Changes

\* A fence commits every persistent object: persistentObjects has them all.
LEMMA FenceStep ==
  ASSUME IInv, NEW s \in States, ExecutePersistentMemoryFence(s)
  PROVE  IInv' /\ (PM!Fence(s) \/ UNCHANGED <<live, MemoryOf>>)
<1> DEFINE O == persistentObjects[s]
           new == [o \in O |-> Committed(FindObject(s, o))]
<1>1. TypeOK /\ FenceReachesAll
  BY DEF IInv
<1>2. CASE O \subseteq BoundPersistent(s)
  <2>1. /\ s \in live /\ WriteObjects(s, O, new)
        /\ UNCHANGED <<live, cowKey, persistentObjects, aborted>>
    BY <1>2 DEF ExecutePersistentMemoryFence, Runs
  <2>2. O = BoundPersistent(s) /\ O \in SUBSET Bound(s)
    BY <1>1, <1>2, <2>1 DEF FenceReachesAll, BoundPersistent
  <2>3. ASSUME NEW o \in O
        PROVE  /\ new[o] \in ObjectStates
               /\ new[o].persistent = FindObject(s, o).persistent
    <3>1. FindObject(s, o) \in ObjectStates
      BY <1>1, <2>2 DEF TypeOK
    <3> QED
      BY <3>1, ObjectStateTypes
  <2>4. new \in [O -> ObjectStates] /\ \A o \in O : new[o] = Committed(FindObject(s, o))
    BY <2>3, Zenon
  <2> HIDE DEF new, O
  <2>5. /\ IInv' /\ PM!Private(s)
        /\ MemoryOf'[s] = [o \in Objects |-> IF o \in O THEN new[o] ELSE MemoryOf[s][o]]
    <3>1. WriteAction(s, O, new)
      BY <2>1, <2>2, <2>3, <2>4, Zenon DEF WriteAction
    <3>2. Becomes(s, Overlaid(s, O, new))
      BY <2>1, <3>1, WriteStep
    <3> QED
      BY <3>2, Zenon DEF Becomes, Overlaid
  <2>6. /\ PM!Bound(s) = Bound(s)
        /\ \A o \in Bound(s) : MemoryOf[s][o] = FindObject(s, o)
    BY <1>1, MemoryFacts, Zenon
  <2>7. \A o \in Objects : o \in O <=> o \in PM!Bound(s) /\ MemoryOf[s][o].persistent
    BY <2>2, <2>6 DEF BoundPersistent
  <2>8. MemoryOf'[s] =
          [o \in Objects |-> IF o \in PM!Bound(s) /\ MemoryOf[s][o].persistent
                             THEN Committed(MemoryOf[s][o]) ELSE MemoryOf[s][o]]
    BY <2>2, <2>4, <2>5, <2>6, <2>7, SMTT(30)
  <2> QED
    BY <2>5, <2>8, SameContents DEF PM!Fence
<1>3. CASE ~(O \subseteq BoundPersistent(s))
  BY <1>3, AbortStep DEF ExecutePersistentMemoryFence
<1> QED
  BY <1>2, <1>3


\* klee_undefine_fixed_object, free and the end of a stack frame
LEMMA UnbindSteps ==
  ASSUME IInv, NEW s \in States,
         \/ \E o \in Objects : ExecuteFree(s, o) \/ HandleUndefineFixedObject(s, o)
         \/ PopFrame(s)
  PROVE  IInv' /\ PM!Unbind(s)
<1>1. TypeOK /\ FenceReachesAll /\ persistentObjects \in [States -> SUBSET Objects]
  BY DEF IInv, TypeOK
<1>2. PICK O \in SUBSET Objects :
        /\ s \in live /\ UnbindObjects(s, O)
        /\ live' = live /\ cowKey' = cowKey /\ aborted' = aborted
        /\ \E K \in SUBSET O :
             persistentObjects' = [persistentObjects EXCEPT ![s] = @ \ K]
  <2>1. ASSUME NEW o \in Objects, ExecuteFree(s, o)
        PROVE  /\ s \in live /\ UnbindObjects(s, {o})
               /\ live' = live /\ cowKey' = cowKey /\ aborted' = aborted
               /\ persistentObjects' = [persistentObjects EXCEPT ![s] = @ \ {}]
    BY <1>1, <2>1 DEF ExecuteFree, Runs
  <2>2. ASSUME NEW o \in Objects, HandleUndefineFixedObject(s, o)
        PROVE  /\ s \in live /\ UnbindObjects(s, {o})
               /\ live' = live /\ cowKey' = cowKey /\ aborted' = aborted
               /\ persistentObjects' = [persistentObjects EXCEPT ![s] = @ \ {o}]
    BY <2>2 DEF HandleUndefineFixedObject, Runs
  <2>3. ASSUME PopFrame(s)
        PROVE  /\ s \in live /\ UnbindObjects(s, Locals) /\ Locals \in SUBSET Objects
               /\ live' = live /\ cowKey' = cowKey /\ aborted' = aborted
               /\ persistentObjects' =
                    [persistentObjects EXCEPT ![s] = @ \ (Locals \cap BoundPersistent(s))]
    BY <2>3, ObjectsAssumption DEF PopFrame, Runs
  <2> QED
    BY <2>1, <2>2, <2>3, Zenon
<1>3. /\ persistentObjects' \in [States -> SUBSET Objects]
      /\ \A t \in States \ {s} : persistentObjects'[t] = persistentObjects[t]
      /\ \A o \in persistentObjects[s] \ O : o \in persistentObjects'[s]
  BY <1>1, <1>2
<1>4. \A o \in BoundPersistent(s) \ O : o \in persistentObjects'[s]
  BY <1>1, <1>2, <1>3 DEF FenceReachesAll
<1>5. cowKey' \in [States -> 1..MaxCowKey]
  BY <1>1, <1>2 DEF TypeOK
<1> DEFINE m == [o \in Objects |-> IF o \in O THEN NoObject ELSE MemoryOf[s][o]]
<1>6. IInv' /\ MemoryOf' = [MemoryOf EXCEPT ![s] = m]
  BY <1>2, <1>3, <1>4, <1>5, UnbindStep
<1>7. MemoryOf[s] \in [Objects -> ObjectStates \cup {NoObject}]
  BY <1>1, MemoryFacts, Zenon
<1>8. /\ m \in [Objects -> ObjectStates \cup {NoObject}]
      /\ \A o \in Objects : m[o] = MemoryOf[s][o] \/ m[o] = NoObject
  BY <1>7
<1> HIDE DEF m
<1>9. PM!Private(s) /\ MemoryOf'[s] = m
  BY <1>2, <1>6, PrivateStep, Zenon
<1> QED
  BY <1>6, <1>8, <1>9, SameContents DEF PM!Unbind, PM!Changes

\* The end of a state
LEMMA TerminateStep ==
  ASSUME IInv, NEW s \in States, Terminate(s)
  PROVE  IInv' /\ PM!Terminate(s)
<1>1. /\ cowKey \in [States -> 1..MaxCowKey] /\ live \subseteq States
      /\ persistentObjects \in [States -> SUBSET Objects]
  BY DEF IInv, TypeOK
<1>2. /\ s \in live /\ UnbindObjects(s, Objects) /\ live' = live \ {s}
      /\ aborted' = aborted
      /\ cowKey' = [cowKey EXCEPT ![s] = 1]
      /\ persistentObjects' = [persistentObjects EXCEPT ![s] = {}]
  BY DEF Terminate, Runs
<1>3. /\ cowKey' \in [States -> 1..MaxCowKey]
      /\ \A t \in live' : cowKey'[t] = cowKey[t]
  BY <1>1, <1>2, KeyAssumption
<1>4. /\ persistentObjects' \in [States -> SUBSET Objects]
      /\ persistentObjects'[s] = {}
      /\ \A t \in States \ {s} : persistentObjects'[t] = persistentObjects[t]
  BY <1>1, <1>2
<1>5. BoundPersistent(s) \ Objects = {}
  BY DEF BoundPersistent, Bound
<1>6. /\ IInv'
      /\ MemoryOf' = [MemoryOf EXCEPT ![s] =
           [o \in Objects |-> IF o \in Objects THEN NoObject ELSE MemoryOf[s][o]]]
  BY <1>2, <1>3, <1>4, <1>5, UnbindStep
<1>7. [o \in Objects |-> IF o \in Objects THEN NoObject ELSE MemoryOf[s][o]] = PM!NoMemory
  BY DEF PM!NoMemory
<1> QED
  BY <1>2, <1>6, <1>7, Zenon DEF PM!Terminate

-----------------------------------------------------------------------------
(* The theorems.                                                           *)

\* The first state has no memory yet.
LEMMA InitOK == Init => IInv /\ PM!Init
<1> SUFFICES ASSUME Init PROVE IInv /\ PM!Init
  OBVIOUS
<1>1. \A s \in States : Bound(s) = {} /\ BoundPersistent(s) = {}
  BY DEF Init, Bound, BoundPersistent
<1>2. Freed \in [owner : 0..MaxCowKey, os : ObjectStates \cup {NoObject}]
  BY KeyAssumption DEF Freed
<1>3. TypeOK
  <2>1. 1 \in 1..MaxCowKey
    BY KeyAssumption
  <2>2. /\ live \subseteq States /\ aborted \in BOOLEAN
        /\ cowKey \in [States -> 1..MaxCowKey]
    BY <2>1, StatesAssumption, Zenon DEF Init
  <2>3. /\ persistentObjects \in [States -> SUBSET Objects]
        /\ \A s \in States : persistentObjects[s] = {}
    BY DEF Init
  <2>4. heap \in [Ids -> [owner : 0..MaxCowKey, os : ObjectStates \cup {NoObject}]]
    BY <1>2 DEF Init
  <2>5. objects \in [States -> [Objects -> Ids \cup {NoObject}]]
    BY DEF Init
  <2> QED
    BY <1>1, <2>2, <2>3, <2>4, <2>5 DEF TypeOK
<1>4. OwnerAtMostKey /\ OwnedIsPrivate /\ FenceReachesAll
  BY <1>1, <1>3 DEF OwnerAtMostKey, OwnedIsPrivate, FenceReachesAll, TypeOK
<1>5. PM!Init
  BY DEF Init, PM!Init, PM!NoMemory, MemoryOf
<1> QED
  BY <1>3, <1>4, <1>5 DEF IInv

\* Every step keeps the invariant, and is one of PrivateMemory unless it is a
\* flush at a symbolic address.
LEMMA NextOK ==
  ASSUME IInv, [Next]_vars
  PROVE  IInv' /\ (~SymbolicFlush => [PM!Next]_PM!pvars)
<1>1. CASE UNCHANGED vars
  <2>1. aborted' \in BOOLEAN /\ UNCHANGED <<live, cowKey, objects, heap, persistentObjects>>
    BY <1>1 DEF IInv, TypeOK, vars
  <2>2. IInv' /\ UNCHANGED <<live, MemoryOf>>
    BY <2>1, AbortStep
  <2> QED
    BY <2>2 DEF PM!pvars
<1>2. ASSUME NEW s \in States, s \in live, NEW t \in States, Fork(s, t)
      PROVE  IInv' /\ PM!Next
  <2>1. IInv' /\ MemoryOf' = [MemoryOf EXCEPT ![t] = MemoryOf[s]]
    BY <1>2, ForkStep
  <2>2. PM!Fork(s, t)
    BY <1>2, <2>1 DEF Fork, PM!Fork
  <2> QED
    BY <1>2, <2>1, <2>2 DEF PM!Next
<1>3. ASSUME NEW s \in States, s \in live, Terminate(s)
      PROVE  IInv' /\ PM!Next
  BY <1>3, TerminateStep DEF PM!Next
<1>4. ASSUME NEW s \in States, s \in live, NEW o \in Objects,
             \/ \E b \in Bytes : Alloc(s, o, b) \/ ExecuteMakeSymbolic(s, o, b)
             \/ ExecuteMarkPersistent(s, o)
      PROVE  IInv' /\ PM!Next
  BY <1>4, NewObjectSteps DEF PM!Next
<1>5. ASSUME NEW s \in States, s \in live,
             \/ \E o \in Objects : ExecuteFree(s, o) \/ HandleUndefineFixedObject(s, o)
             \/ PopFrame(s)
      PROVE  IInv' /\ PM!Next
  BY <1>5, UnbindSteps DEF PM!Next
<1>6. ASSUME NEW s \in States, s \in live, NEW o \in Objects, NEW l \in Lines,
             NEW b \in Bytes, ExecuteMemoryOperation(s, o, l, b)
      PROVE  IInv' /\ PM!Next
  BY <1>6, WriteObjectSteps DEF PM!Next
<1>7. ASSUME NEW s \in States, s \in live,
             \/ \E to \in [Objects -> Bytes] : CopyInConcretes(s, to)
             \/ \E O \in SUBSET Objects, zero \in Bytes : HandleInitConcreteZero(s, O, zero)
      PROVE  IInv' /\ PM!Next
  BY <1>7, OverwriteSteps DEF PM!Next
<1>8. ASSUME NEW s \in States, s \in live, ExecutePersistentMemoryFence(s)
      PROVE  IInv' /\ [PM!Next]_PM!pvars
  BY <1>8, FenceStep DEF PM!Next, PM!pvars
<1>9. ASSUME NEW s \in States, s \in live, NEW o \in Objects, NEW l \in Lines,
             ExecutePersistentMemoryFlush(s, o, l)
      PROVE  IInv' /\ [PM!Next]_PM!pvars
  BY <1>9, WriteObjectSteps DEF PM!Next, PM!pvars
<1>10. ASSUME NEW o \in Objects, NEW ls \in FlushCases, NEW ss \in [DOMAIN ls -> States],
              ExecuteSymbolicFlush(ss, o, ls)
       PROVE  IInv' /\ SymbolicFlush
  BY <1>10, SymbolicFlushStep, Zenon DEF ExecuteSymbolicFlush
<1>11. ASSUME NEW s \in States, s \notin live
       PROVE  /\ \A t \in States : ~Fork(s, t)
              /\ ~Terminate(s) /\ ~PopFrame(s) /\ ~ExecutePersistentMemoryFence(s)
              /\ \A o \in Objects, b \in Bytes : ~Alloc(s, o, b) /\ ~ExecuteMakeSymbolic(s, o, b)
              /\ \A o \in Objects : /\ ~ExecuteMarkPersistent(s, o) /\ ~ExecuteFree(s, o)
                                    /\ ~HandleUndefineFixedObject(s, o)
              /\ \A o \in Objects, l \in Lines : ~ExecutePersistentMemoryFlush(s, o, l)
              /\ \A o \in Objects, l \in Lines, b \in Bytes : ~ExecuteMemoryOperation(s, o, l, b)
              /\ \A to \in [Objects -> Bytes] : ~CopyInConcretes(s, to)
              /\ \A O \in SUBSET Objects, zero \in Bytes : ~HandleInitConcreteZero(s, O, zero)
  BY <1>11, Zenon DEF Fork, Terminate, PopFrame, ExecutePersistentMemoryFence, Alloc,
               ExecuteMakeSymbolic, ExecuteMarkPersistent, ExecuteFree,
               HandleUndefineFixedObject, ExecutePersistentMemoryFlush,
               ExecuteMemoryOperation, CopyInConcretes, HandleInitConcreteZero, Runs
<1>12. CASE Next
  <2>1. PICK s \in States :
          \/ \E t \in States : Fork(s, t)
          \/ Terminate(s)
          \/ \E o \in Objects, b \in Bytes : Alloc(s, o, b)
          \/ \E o \in Objects, b \in Bytes : ExecuteMakeSymbolic(s, o, b)
          \/ \E o \in Objects : ExecuteMarkPersistent(s, o)
          \/ \E o \in Objects : ExecuteFree(s, o)
          \/ PopFrame(s)
          \/ \E o \in Objects : HandleUndefineFixedObject(s, o)
          \/ \E o \in Objects, l \in Lines, b \in Bytes : ExecuteMemoryOperation(s, o, l, b)
          \/ \E to \in [Objects -> Bytes] : CopyInConcretes(s, to)
          \/ \E O \in SUBSET Objects, zero \in Bytes : HandleInitConcreteZero(s, O, zero)
          \/ ExecutePersistentMemoryFence(s)
          \/ \E o \in Objects, l \in Lines : ExecutePersistentMemoryFlush(s, o, l)
          \/ \E o \in Objects, ls \in FlushCases : \E ss \in [DOMAIN ls -> States] :
               ExecuteSymbolicFlush(ss, o, ls)
    BY <1>12 DEF Next
  <2> QED
    BY <1>2, <1>3, <1>4, <1>5, <1>6, <1>7, <1>8, <1>9, <1>10, <1>11, <2>1
<1> QED
  BY <1>1, <1>12

\* For any states, objects and histories of forks: no address space refers to an
\* ObjectState of a later epoch (the invariant that AddressSpace.h documents), an
\* ObjectState that it owns is bound nowhere else, so that getWriteable need not
\* copy it, and every PersistentState is in persistentObjects, so that a fence
\* reaches it.
THEOREM CopyOnWrite ==
  Spec => [](TypeOK /\ OwnerAtMostKey /\ OwnedIsPrivate /\ FenceReachesAll)
<1>1. Init => IInv
  BY InitOK
<1>2. IInv /\ [Next]_vars => IInv'
  BY NextOK
<1>3. IInv => TypeOK /\ OwnerAtMostKey /\ OwnedIsPrivate /\ FenceReachesAll
  BY DEF IInv
<1> QED
  BY <1>1, <1>2, <1>3, PTL DEF Spec

\* As long as the addresses of flushes are concrete, every state has a memory of
\* its own: what a state does to an ObjectState is never seen by another one.
THEOREM StatesAreIsolated == ~SymbolicFlush => (Spec => Isolation)
<1> SUFFICES ASSUME ~SymbolicFlush PROVE Spec => Isolation
  OBVIOUS
<1>1. Init => IInv /\ PM!Init
  BY InitOK
<1>2. IInv /\ [Next]_vars => IInv' /\ [PM!Next]_PM!pvars
  BY NextOK
<1> QED
  BY <1>1, <1>2, PTL DEF Spec, Isolation, PM!Spec

\* Every PersistentState that a live state has bound is in its persistentObjects, so
\* that a fence, which goes over that set, commits its flushes.
THEOREM FencesReachAll == Spec => []FenceReachesAll
  BY CopyOnWrite, PTL

-----------------------------------------------------------------------------
(* No step writes what two states share.                                   *)

\* A step of s leaves the address spaces of the other states alone, and what they see.
OthersKept(s) ==
  \A t \in States \ {s} : objects'[t] = objects[t] /\ MemoryOf'[t] = MemoryOf[t]

\* Every step of one state, other than a fork and a flush at a symbolic address, leaves
\* the others alone.
LEMMA StepKeepsOthers ==
  ASSUME IInv, NEW s \in States,
         \/ Terminate(s) \/ PopFrame(s)
         \/ \E o \in Objects, b \in Bytes : Alloc(s, o, b) \/ ExecuteMakeSymbolic(s, o, b)
         \/ \E o \in Objects : \/ ExecuteMarkPersistent(s, o) \/ ExecuteFree(s, o)
                               \/ HandleUndefineFixedObject(s, o)
         \/ \E o \in Objects, l \in Lines, b \in Bytes : ExecuteMemoryOperation(s, o, l, b)
         \/ \E to \in [Objects -> Bytes] : CopyInConcretes(s, to)
         \/ \E O \in SUBSET Objects, zero \in Bytes : HandleInitConcreteZero(s, O, zero)
         \/ ExecutePersistentMemoryFence(s)
         \/ \E o \in Objects, l \in Lines : ExecutePersistentMemoryFlush(s, o, l)
  PROVE  OthersKept(s)
<1>1. objects \in [States -> [Objects -> Ids \cup {NoObject}]]
  BY DEF IInv, TypeOK
<1>2. MemoryOf = [t \in States |-> MemoryOf[t]]
  BY Zenon DEF MemoryOf
<1>3. ASSUME \E f : objects' = [objects EXCEPT ![s] = f]
      PROVE  \A t \in States \ {s} : objects'[t] = objects[t]
  BY <1>1, <1>3
<1>4. ASSUME NEW O, UnbindObjects(s, O)
      PROVE  \A t \in States \ {s} : objects'[t] = objects[t]
  BY <1>3, <1>4, Zenon DEF UnbindObjects, Become
<1>5. ASSUME NEW at, NEW to, Put(s, at, to)
      PROVE  \A t \in States \ {s} : objects'[t] = objects[t]
  BY <1>3, <1>5, Zenon DEF Put, Become
<1>6. ASSUME NEW O, NEW to, WriteObjects(s, O, to)
      PROVE  \A t \in States \ {s} : objects'[t] = objects[t]
  BY <1>5, <1>6, Zenon DEF WriteObjects
<1>7. ASSUME NEW o, NEW os, BindObject(s, o, os)
      PROVE  \A t \in States \ {s} : objects'[t] = objects[t]
  BY <1>5, <1>7, Zenon DEF BindObject
<1> HIDE DEF MemoryOf
<1>8. ASSUME PM!Private(s)
      PROVE  \A t \in States \ {s} : MemoryOf'[t] = MemoryOf[t]
  BY <1>2, <1>8 DEF PM!Private
<1>9. CASE Terminate(s)
  <2>1. PM!Terminate(s) /\ UnbindObjects(s, Objects)
    BY <1>9, TerminateStep DEF Terminate
  <2>2. \A t \in States \ {s} : MemoryOf'[t] = MemoryOf[t]
    BY <1>2, <2>1 DEF PM!Terminate
  <2> QED
    BY <1>4, <2>1, <2>2, Zenon DEF OthersKept
<1>10. CASE PopFrame(s) \/ \E o \in Objects : ExecuteFree(s, o) \/ HandleUndefineFixedObject(s, o)
  <2>1. PM!Unbind(s) /\ \E O : UnbindObjects(s, O)
    BY <1>10, UnbindSteps, Zenon DEF PopFrame, ExecuteFree, HandleUndefineFixedObject
  <2>2. PM!Private(s)
    BY <2>1 DEF PM!Unbind, PM!Changes
  <2> QED
    BY <1>4, <1>8, <2>1, <2>2, Zenon DEF OthersKept
<1>11. ASSUME NEW o \in Objects,
              \/ \E b \in Bytes : Alloc(s, o, b) \/ ExecuteMakeSymbolic(s, o, b)
              \/ ExecuteMarkPersistent(s, o)
       PROVE  OthersKept(s)
  <2>1. PM!Bind(s, o) /\ \E os : BindObject(s, o, os)
    BY <1>11, NewObjectSteps, Zenon DEF Alloc, ExecuteMakeSymbolic, ExecuteMarkPersistent
  <2>2. PM!Private(s)
    BY <2>1 DEF PM!Bind
  <2> QED
    BY <1>7, <1>8, <2>1, <2>2, Zenon DEF OthersKept
<1>12. ASSUME NEW o \in Objects, NEW l \in Lines, NEW b \in Bytes,
              ExecuteMemoryOperation(s, o, l, b)
       PROVE  OthersKept(s)
  <2>1. PM!Write(s, o, l) /\ \E O, to : WriteObjects(s, O, to)
    BY <1>12, WriteObjectSteps, Zenon DEF ExecuteMemoryOperation
  <2>2. PM!Private(s)
    BY <2>1 DEF PM!Write
  <2> QED
    BY <1>6, <1>8, <2>1, <2>2, Zenon DEF OthersKept
<1>13. CASE \/ \E to \in [Objects -> Bytes] : CopyInConcretes(s, to)
            \/ \E O \in SUBSET Objects, zero \in Bytes : HandleInitConcreteZero(s, O, zero)
  <2>1. PM!Overwrite(s) /\ \E O, to : WriteObjects(s, O, to)
    BY <1>13, OverwriteSteps, Zenon DEF CopyInConcretes, HandleInitConcreteZero
  <2>2. PM!Private(s)
    BY <2>1 DEF PM!Overwrite, PM!Changes
  <2> QED
    BY <1>6, <1>8, <2>1, <2>2, Zenon DEF OthersKept
<1>14. CASE UNCHANGED <<objects, heap>>
  BY <1>14 DEF OthersKept, MemoryOf, FindObject
<1>15. CASE ExecutePersistentMemoryFence(s)
  <2>1. CASE persistentObjects[s] \subseteq BoundPersistent(s)
    <3> DEFINE O == persistentObjects[s]
               new == [o \in O |-> Committed(FindObject(s, o))]
    <3>1. WriteObjects(s, O, new)
      BY <1>15, <2>1 DEF ExecutePersistentMemoryFence
    <3>2. PM!Fence(s) \/ UNCHANGED <<live, MemoryOf>>
      BY <1>15, FenceStep
    <3>3. \A t \in States \ {s} : MemoryOf'[t] = MemoryOf[t]
      BY <1>8, <3>2 DEF PM!Fence
    <3> HIDE DEF new, O
    <3> QED
      BY <1>6, <3>1, <3>3, Zenon DEF OthersKept
  <2>2. CASE ~(persistentObjects[s] \subseteq BoundPersistent(s))
    BY <1>14, <1>15, <2>2 DEF ExecutePersistentMemoryFence
  <2> QED
    BY <2>1, <2>2
<1>16. ASSUME NEW o \in Objects, NEW l \in Lines, ExecutePersistentMemoryFlush(s, o, l)
       PROVE  OthersKept(s)
  <2>1. CASE FindObject(s, o).persistent
    <3>1. (\E O, to : WriteObjects(s, O, to)) /\ UNCHANGED live
      BY <1>16, <2>1, Zenon DEF ExecutePersistentMemoryFlush
    <3>2. PM!Flush(s, o) \/ UNCHANGED <<live, MemoryOf>>
      BY <1>16, WriteObjectSteps
    <3>3. \A t \in States \ {s} : MemoryOf'[t] = MemoryOf[t]
      <4>1. CASE UNCHANGED <<live, MemoryOf>>
        BY <4>1
      <4>2. CASE PM!Flush(s, o)
        BY <3>1, <4>2 DEF PM!Flush
      <4> QED
        BY <3>2, <4>1, <4>2
    <3> QED
      BY <1>6, <3>1, <3>3, Zenon DEF OthersKept
  <2>2. CASE ~FindObject(s, o).persistent
    BY <1>14, <1>16, <2>2 DEF ExecutePersistentMemoryFlush
  <2> QED
    BY <2>1, <2>2
<1> QED
  BY <1>9, <1>10, <1>11, <1>12, <1>13, <1>15, <1>16

\* As long as the addresses of flushes are concrete, getWriteable has made a copy
\* wherever two states refer to an ObjectState: no step changes the contents of one that
\* both still have after it.
THEOREM SharedIsNeverWritten == ~SymbolicFlush => (Spec => NeverWriteShared)
<1> SUFFICES ASSUME ~SymbolicFlush PROVE Spec => NeverWriteShared
  OBVIOUS
<1> DEFINE Kept == \A s, t \in States, o, p \in Objects :
                     LET i == objects'[s][o]
                     IN  s # t /\ i = objects'[t][p] /\ i \in Ids \cap InUse(objects) =>
                            heap'[i].os = heap[i].os
<1>1. Init => IInv
  BY InitOK
<1>2. IInv /\ [Next]_vars => IInv'
  BY NextOK
<1>3. ASSUME IInv, NEW a \in States, OthersKept(a) PROVE Kept
  <2>1. ASSUME NEW t \in States \ {a}, NEW p \in Objects, objects'[t][p] \in Ids
        PROVE  heap'[objects'[t][p]].os = heap[objects'[t][p]].os
    <3>1. objects'[t] = objects[t] /\ MemoryOf'[t] = MemoryOf[t]
      BY <1>3 DEF OthersKept
    <3>2. objects[t][p] # NoObject
      BY <2>1, <3>1, HeapAssumption
    <3>3. MemoryOf[t][p] = heap[objects[t][p]].os /\ MemoryOf'[t][p] = heap'[objects'[t][p]].os
      BY <3>1, <3>2 DEF MemoryOf, FindObject
    <3> QED
      BY <3>1, <3>3
  <2>2. ASSUME NEW s \in States, NEW t \in States, NEW o \in Objects, NEW p \in Objects,
               s # t, objects'[s][o] = objects'[t][p], objects'[s][o] \in Ids
        PROVE  heap'[objects'[s][o]].os = heap[objects'[s][o]].os
    <3>1. CASE s = a
      BY <2>1, <2>2, <3>1
    <3>2. CASE s # a
      BY <2>1, <2>2, <3>2
    <3> QED
      BY <3>1, <3>2
  <2> QED
    BY <2>2, Zenon
<1>4. IInv /\ [Next]_vars => [Kept]_vars
  <2> SUFFICES ASSUME IInv, Next PROVE Kept
    OBVIOUS
  <2>1. ASSUME NEW s \in States, NEW t \in States, Fork(s, t) PROVE Kept
    BY <2>1 DEF Fork
  <2>2. ASSUME NEW s \in States, OthersKept(s) PROVE Kept
    BY <1>3, <2>2
  <2>3. \A ss, o, ls : ~ExecuteSymbolicFlush(ss, o, ls)
    BY Zenon DEF ExecuteSymbolicFlush
  <2> HIDE DEF Kept
  <2> QED
    BY <2>1, <2>2, <2>3, StepKeepsOthers, Zenon DEF Next
<1> QED
  BY <1>1, <1>2, <1>4, PTL DEF Spec, NeverWriteShared
===============================================================================

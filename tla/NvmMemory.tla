---------------------------- MODULE NvmMemory ----------------------------
(* The persistent memory under the NVM Direct library                      *)
(* (nvmbugs/005_nvm_direct/lib) as its code sees it: a store is visible at *)
(* once, nvm_flush notes its cache line in the flush cache, nvm_persist     *)
(* writes every noted line back and waits, nvm_persist1 does so for one     *)
(* line.  Until its line is written back a store may or may not survive a   *)
(* power failure, whatever the order of the stores to different lines.      *)
EXTENDS FiniteSets, FiniteSetsExt

VARIABLES
  mem,    \* what loads see: content of every cache line
  hist,   \* contents each line may have in NVM if power fails now
  pend,   \* lines in the flush cache of the thread
  power   \* TRUE: a crash is a power failure; FALSE: the process dies and
          \* the caches survive it

memory == <<mem, hist, pend>>

InitMemory(m) ==
  /\ mem = m
  /\ hist = [l \in DOMAIN m |-> {m[l]}]
  /\ pend = {}

(* A store that no flush follows. *)
Store(l, v) ==
  /\ mem' = [mem EXCEPT ![l] = v]
  /\ hist' = [hist EXCEPT ![l] = IF power THEN @ \cup {v} ELSE {v}]
  /\ UNCHANGED pend

(* A store followed by nvm_flush or nvm_flush1 of its line. *)
StoreFlush(l, v) ==
  /\ mem' = [mem EXCEPT ![l] = v]
  /\ hist' = [hist EXCEPT ![l] = IF power THEN @ \cup {v} ELSE {v}]
  /\ pend' = pend \cup {l}

(* A store followed by nvm_persist1 of its line: the flush cache keeps its *)
(* lines.                                                                  *)
StorePersist1(l, v) ==
  /\ mem' = [mem EXCEPT ![l] = v]
  /\ hist' = [hist EXCEPT ![l] = {v}]
  /\ UNCHANGED pend

(* A store, nvm_flush of its line and nvm_persist. *)
StorePersist(l, v) ==
  /\ mem' = [mem EXCEPT ![l] = v]
  /\ hist' = [k \in DOMAIN mem |-> IF k = l THEN {v}
                                   ELSE IF k \in pend THEN {mem[k]}
                                   ELSE hist[k]]
  /\ pend' = {}

(* nvm_persist with nothing stored since the last flush. *)
Persist ==
  /\ hist' = [k \in DOMAIN mem |-> IF k \in pend THEN {mem[k]} ELSE hist[k]]
  /\ pend' = {}
  /\ UNCHANGED mem

(* What NVM may hold after a crash: for every line one of the contents it  *)
(* had since it was last written back.                                     *)
Images ==
  FoldSet(LAMBDA l, ms : {[m EXCEPT ![l] = v] : m \in ms, v \in hist[l]},
          {mem}, {l \in DOMAIN mem : hist[l] # {mem[l]}})

===========================================================================

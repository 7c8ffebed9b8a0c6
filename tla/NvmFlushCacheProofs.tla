----------------------- MODULE NvmFlushCacheProofs -----------------------
(* The flush cache keeps its promise for a table of any even size, any      *)
(* number of lines and ranges of any length.                                *)
EXTENDS NvmFlushCache, TLAPS

(* Both slots of a line are slots of the table. *)
LEMMA SlotsOK ==
  /\ \A cl \in Nat : Primary(cl) \in Slot
  /\ \A i \in Slot : Secondary(i) \in Slot
BY SizeAssumption DEF Primary, Secondary, Slot

(* The invariant holds before the first call. *)
LEMMA InitOK == Init => IInv
BY SizeAssumption, NLinesAssumption
   DEF Init, IInv, TypeOK, PersistedIsDurable, Lines, Slot, NoCall, Ahead, Idle

-----------------------------------------------------------------------------
(* One lemma for each kind of step.                                         *)

(* A store takes back every claim about its line. *)
LEMMA StoreOK == ASSUME IInv, NEW l \in Lines, Store(l) PROVE IInv'
<1>1. Noted' = Noted /\ Ahead' = Ahead
  BY DEF Store, Noted, Ahead
<1>2. TypeOK' /\ PersistedIsDurable'
  BY DEF Store, IInv, TypeOK, PersistedIsDurable
<1> QED
  BY <1>1, <1>2 DEF Store, IInv

(* At the call of nvm_flush the whole range is ahead of its loop. *)
LEMMA FlushOK ==
  ASSUME IInv, NEW cl \in Lines, NEW n \in 0 .. NLines + 1 - cl, nvm_flush(cl, n)
  PROVE  IInv'
<1>1. cl \in Nat /\ cl >= 1 /\ n \in 0 .. NLines /\ cl + n <= NLines + 1
  BY NLinesAssumption DEF Lines
<1>2. Primary(cl) \in Slot
  BY <1>1, SlotsOK
<1>3. Noted' = Noted /\ Ahead' = cl .. cl + n - 1 /\ Ahead = {}
  BY DEF nvm_flush, Noted, Ahead, Idle
<1>4. cl .. cl + n - 1 \subseteq Lines
  BY <1>1, NLinesAssumption DEF Lines
<1>5. TypeOK'
  BY <1>1, <1>2, <1>4, SizeAssumption, NLinesAssumption DEF nvm_flush, IInv, TypeOK, Lines, Slot
<1>6. PersistedIsDurable'
  BY DEF nvm_flush, IInv, PersistedIsDurable
<1> QED
  BY <1>1, <1>2, <1>3, <1>5, <1>6, SizeAssumption DEF nvm_flush, IInv, Slot

(* A turn of the loop puts its line in the table and loses no other: the    *)
(* line it may replace has been sent.                                       *)
LEMMA FlushLineOK == ASSUME IInv, FlushLine PROVE IInv'
<1> DEFINE cl == loop.cl  pe == loop.index  se == Secondary(loop.index)
<1>1. /\ cl \in Lines /\ pe \in Slot /\ loop.call = "nvm_flush"
      /\ cl + loop.cnt <= NLines + 1 /\ loop.cnt \in Nat /\ loop.cnt >= 1
  BY SizeAssumption, NLinesAssumption DEF FlushLine, IInv, TypeOK, Lines, Slot
<1>2. se \in Slot
  BY <1>1, SlotsOK
<1>3. loop' = [call |-> "nvm_flush", cl |-> cl + 1, cnt |-> loop.cnt - 1,
               index |-> IF pe + 1 >= Size THEN 0 ELSE pe + 1]
  BY <1>1, Zenon DEF FlushLine, Advance, IInv, TypeOK
<1>4. Ahead \subseteq {cl} \cup Ahead'
  BY <1>1, <1>3, NLinesAssumption DEF Ahead, Lines
<1> DEFINE Kept == /\ fc' \in [Slot -> Lines \cup {0}]
                   /\ sent' \subseteq Lines /\ sent \subseteq sent'
                   /\ cl \in Noted'
                   /\ Noted \subseteq Noted' \cup sent'
<1>5. Kept
  <2>1. cl # 0 /\ fc \in [Slot -> Lines \cup {0}] /\ sent \subseteq Lines /\ 0 \notin Lines
    BY <1>1 DEF IInv, TypeOK, Lines
  <2>2. ASSUME NEW i \in Slot, fc' = [fc EXCEPT ![i] = cl], fc[i] = 0, sent' = sent
        PROVE  Kept
    <3>1. fc' \in [Slot -> Lines \cup {0}] /\ fc'[i] = cl
      BY <1>1, <2>1, <2>2
    <3>2. \A j \in Slot : fc[j] # 0 => fc'[j] = fc[j]
      BY <2>1, <2>2
    <3> QED
      BY <2>1, <2>2, <3>1, <3>2 DEF Noted
  <2>3. CASE fc[pe] = 0
    BY <1>1, <2>2, <2>3 DEF FlushLine
  <2>4. ASSUME NEW i \in Slot, fc[i] = cl, fc' = fc, sent' = sent PROVE Kept
    BY <2>1, <2>4 DEF Noted
  <2>5. CASE fc[pe] = cl
    BY <1>1, <2>1, <2>4, <2>5 DEF FlushLine
  <2>6. CASE fc[pe] # 0 /\ fc[pe] # cl /\ fc[se] = 0
    BY <1>1, <1>2, <2>2, <2>6 DEF FlushLine
  <2>7. CASE fc[pe] # 0 /\ fc[pe] # cl /\ fc[se] = cl
    BY <1>1, <1>2, <2>1, <2>4, <2>7 DEF FlushLine
  <2>8. CASE fc[pe] # 0 /\ fc[pe] # cl /\ fc[se] # 0 /\ fc[se] # cl
    <3>1. fc' = [fc EXCEPT ![pe] = cl] /\ sent' = sent \cup {fc[pe]}
      BY <2>8 DEF FlushLine
    <3>2. fc' \in [Slot -> Lines \cup {0}] /\ fc'[pe] = cl /\ fc[pe] \in Lines
      BY <1>1, <2>1, <2>8, <3>1
    <3>3. \A j \in Slot : j # pe => fc'[j] = fc[j]
      BY <2>1, <3>1
    <3> QED
      BY <1>1, <2>1, <3>1, <3>2, <3>3 DEF Noted
  <2> QED
    BY <2>3, <2>5, <2>6, <2>7, <2>8
<1>6. /\ asked' = asked /\ durable' = durable /\ owed' = owed
  BY DEF FlushLine
<1>7. TypeOK'
  <2>1. /\ cl + 1 \in 0 .. NLines + 1 /\ loop.cnt - 1 \in 0 .. NLines
        /\ (IF pe + 1 >= Size THEN 0 ELSE pe + 1) \in 0 .. Size
    BY <1>1, SizeAssumption, NLinesAssumption DEF Lines, Slot
  <2>2. loop' \in [call : {"none", "nvm_flush", "nvm_persist"}, cl : 0 .. NLines + 1,
                   cnt : 0 .. NLines, index : 0 .. Size]
    BY <1>3, <2>1
  <2> QED
    BY <1>5, <1>6, <2>2 DEF IInv, TypeOK
<1>8. asked' \subseteq Noted' \cup sent' \cup durable' \cup Ahead'
  BY <1>4, <1>5, <1>6 DEF IInv
<1> QED
  BY <1>1, <1>3, <1>6, <1>7, <1>8, SizeAssumption, NLinesAssumption
     DEF IInv, PersistedIsDurable, Lines, Slot

(* nvm_flush returns when nothing is ahead of it. *)
LEMMA FlushReturnsOK == ASSUME IInv, FlushReturns PROVE IInv'
<1>1. Noted' = Noted /\ Ahead = {} /\ Ahead' = {}
  BY NLinesAssumption DEF FlushReturns, Noted, Ahead, NoCall, IInv, TypeOK
<1>2. TypeOK'
  BY SizeAssumption, NLinesAssumption DEF FlushReturns, NoCall, IInv, TypeOK
<1> QED
  BY <1>1, <1>2 DEF FlushReturns, NoCall, IInv, PersistedIsDurable

(* nvm_persist starts with nothing scanned. *)
LEMMA PersistOK == ASSUME IInv, nvm_persist PROVE IInv'
<1>1. loop' = [call |-> "nvm_persist", cl |-> 0, cnt |-> 0, index |-> 0]
  BY DEF nvm_persist, NoCall
<1>2. Noted' = Noted /\ Ahead = {} /\ Ahead' = {}
  BY <1>1 DEF nvm_persist, Noted, Ahead, Idle
<1>3. TypeOK'
  <2>1. 0 \in 0 .. NLines + 1 /\ 0 \in 0 .. NLines /\ 0 \in 0 .. Size
    BY SizeAssumption, NLinesAssumption
  <2>2. loop' \in [call : {"none", "nvm_flush", "nvm_persist"}, cl : 0 .. NLines + 1,
                   cnt : 0 .. NLines, index : 0 .. Size]
    BY <1>1, <2>1
  <2> QED
    BY <2>2 DEF nvm_persist, IInv, TypeOK
<1> QED
  BY <1>1, <1>2, <1>3, SizeAssumption DEF nvm_persist, IInv, PersistedIsDurable, Slot

(* A scanned slot is empty and its line is sent. *)
LEMMA ScanSlotOK == ASSUME IInv, ScanSlot PROVE IInv'
<1> DEFINE k == loop.index
<1>1. /\ k \in Slot /\ loop.call = "nvm_persist"
      /\ loop' = [loop EXCEPT !.index = k + 1] /\ k + 1 \in 0 .. Size
  BY SizeAssumption DEF ScanSlot, IInv, TypeOK, Slot
<1>2. fc \in [Slot -> Lines \cup {0}] /\ sent \subseteq Lines
  BY DEF IInv, TypeOK
<1>3. /\ fc' \in [Slot -> Lines \cup {0}] /\ fc'[k] = 0
      /\ \A i \in Slot : i # k => fc'[i] = fc[i]
      /\ sent \subseteq sent' /\ sent' \subseteq Lines
      /\ fc[k] # 0 => fc[k] \in sent'
  <2>1. CASE fc[k] = 0
    BY <1>1, <1>2, <2>1 DEF ScanSlot
  <2>2. CASE fc[k] # 0
    BY <1>1, <1>2, <2>2 DEF ScanSlot
  <2> QED
    BY <2>1, <2>2
<1>4. Noted \subseteq Noted' \cup sent'
  BY <1>1, <1>2, <1>3 DEF Noted
<1>5. Ahead = {} /\ Ahead' = {} /\ loop'.call = "nvm_persist" /\ loop'.index = k + 1
  BY <1>1 DEF Ahead, IInv, TypeOK
<1>6. asked' = asked /\ durable' = durable /\ owed' = owed
  BY DEF ScanSlot
<1>7. TypeOK'
  BY <1>1, <1>3, <1>6 DEF IInv, TypeOK
<1>8. \A i \in Slot : i < k + 1 => fc'[i] = 0
  BY <1>1, <1>3, SizeAssumption DEF IInv, Slot
<1> QED
  BY <1>3, <1>4, <1>5, <1>6, <1>7, <1>8 DEF IInv, PersistedIsDurable

(* When the scan is over the table is empty, so that all that was asked for *)
(* has been sent or is in NVM already.                                      *)
LEMMA BarrierOK == ASSUME IInv, Barrier PROVE IInv'
<1>1. \A i \in Slot : fc[i] = 0
  BY SizeAssumption DEF Barrier, IInv, TypeOK, Slot
<1>2. Noted = {} /\ Noted' = {}
  BY <1>1 DEF Noted, Barrier
<1>3. Ahead = {} /\ Ahead' = {}
  BY DEF Barrier, Ahead, NoCall
<1>4. asked \subseteq sent \cup durable
  BY <1>2, <1>3 DEF IInv
<1>5. TypeOK'
  BY SizeAssumption, NLinesAssumption DEF Barrier, NoCall, IInv, TypeOK
<1>6. PersistedIsDurable'
  BY <1>4 DEF Barrier, IInv, PersistedIsDurable
<1> QED
  BY <1>2, <1>3, <1>5, <1>6 DEF Barrier, NoCall, IInv

(* nvm_persist1 waits for what had been sent before as well. *)
LEMMA Persist1OK == ASSUME IInv, NEW l \in Lines, nvm_persist1(l) PROVE IInv'
<1>1. Noted' = Noted /\ Ahead' = Ahead
  BY DEF nvm_persist1, Noted, Ahead
<1>2. TypeOK' /\ PersistedIsDurable'
  BY DEF nvm_persist1, IInv, TypeOK, PersistedIsDurable
<1> QED
  BY <1>1, <1>2 DEF nvm_persist1, IInv

-----------------------------------------------------------------------------
(* Every step of the library and of the program keeps the invariant. *)
LEMMA NextOK == IInv /\ [Next]_vars => IInv'
<1> SUFFICES ASSUME IInv, [Next]_vars PROVE IInv'
  OBVIOUS
<1>1. CASE UNCHANGED vars
  BY <1>1 DEF vars, IInv, TypeOK, PersistedIsDurable, Noted, Ahead
<1>2. CASE Next
  BY <1>2, StoreOK, FlushOK, FlushLineOK, FlushReturnsOK, PersistOK, ScanSlotOK, BarrierOK,
     Persist1OK DEF Next
<1> QED
  BY <1>1, <1>2

(* nvm_persist makes every flushed line durable, whatever collided in the   *)
(* table before, for every size of the table and number of lines.           *)
THEOREM PersistMakesDurable == Spec => []PersistedIsDurable
<1>1. IInv => PersistedIsDurable
  BY DEF IInv
<1> QED
  BY <1>1, InitOK, NextOK, PTL DEF Spec

(* No request of nvm_flush or nvm_flush1 gets lost in the table. *)
THEOREM FlushesAreKept == Spec => []NoFlushLost
<1>1. IInv => NoFlushLost
  BY DEF IInv, NoFlushLost, Idle, Ahead
<1> QED
  BY <1>1, InitOK, NextOK, PTL DEF Spec

=============================================================================

-------------------------- MODULE NvmFlushCache --------------------------
(* The flush cache of the NVM Direct library (nvm_misc.c): nvm_flush only   *)
(* notes a cache line in a small two-way table of the thread, an occupied   *)
(* pair of slots sends a line to memory early, nvm_persist sends whatever   *)
(* is noted and waits.  NvmMemory takes for granted that a line asked for   *)
(* is in NVM after the next nvm_persist; this module is about why.          *)
EXTENDS Integers

CONSTANTS
  Size,     \* flush_cache_sz: slots of the table, a power of two
  NLines    \* NVM cache lines (bound); line n has the address n * cache_line

ASSUME SizeAssumption == Size \in Nat /\ Size >= 2 /\ Size % 2 = 0
ASSUME NLinesAssumption == NLines \in Nat

VARIABLES
  fc,       \* the table; 0 is an empty slot
  loop,     \* nvm_flush or nvm_persist under way: [call, cl, cnt, index]
  sent,     \* lines nvms_flush was called for since the last nvms_persist
  asked,    \* lines flushed by the program since their last store
  durable,  \* lines whose last store is in NVM
  owed      \* lines asked for, then persisted, and not stored to since

vars == <<fc, loop, sent, asked, durable, owed>>

Lines == 1 .. NLines
Slot == 0 .. Size - 1
NoCall == [call |-> "none", cl |-> 0, cnt |-> 0, index |-> 0]
Idle == loop.call = "none"

(* (cl >> flush_cache_shift) & flush_cache_mask, with the shift and the     *)
(* mask that nvm_thread_init derives from the size                          *)
Primary(cl) == (cl \div Size) % Size

(* index ^ flush_cache_xor, where the xor is the high bit of the mask *)
Secondary(index) == (index + Size \div 2) % Size

-----------------------------------------------------------------------------
(* The program stores to a line. *)
Store(l) ==
  /\ Idle
  /\ asked' = asked \ {l}
  /\ durable' = durable \ {l}
  /\ owed' = owed \ {l}
  /\ sent' = sent \ {l}
  /\ UNCHANGED <<fc, loop>>

(* nvm_flush of n lines from line cl on; nvm_flush1 is the case n = 1. *)
nvm_flush(cl, n) ==
  /\ Idle
  /\ loop' = [call |-> "nvm_flush", cl |-> cl, cnt |-> n, index |-> Primary(cl)]
  /\ asked' = asked \cup (cl .. cl + n - 1)
  /\ UNCHANGED <<fc, sent, durable, owed>>

(* A mistake the code once had, as its comment "PATCH" tells: the line does *)
(* not advance.                                                             *)
AdvanceSlotOnly ==
  loop' = [loop EXCEPT !.cnt = @ - 1, !.index = IF @ + 1 >= Size THEN 0 ELSE @ + 1]

(* The next line of the loop and its next slot, which may wrap. *)
Advance ==
  loop' = [loop EXCEPT !.cl = @ + 1, !.cnt = @ - 1,
                       !.index = IF @ + 1 >= Size THEN 0 ELSE @ + 1]

(* One turn: the line is noted in an empty slot of the pair, unless one of  *)
(* them has it, or else takes the place of the primary, which is sent.      *)
FlushLine ==
  LET cl == loop.cl
      pe == loop.index
      se == Secondary(loop.index)
  IN  /\ loop.call = "nvm_flush" /\ loop.cnt > 0
      /\ Advance
      /\ IF fc[pe] = 0 THEN fc' = [fc EXCEPT ![pe] = cl] /\ UNCHANGED sent
         ELSE IF fc[pe] = cl THEN UNCHANGED <<fc, sent>>
         ELSE IF fc[se] = 0 THEN fc' = [fc EXCEPT ![se] = cl] /\ UNCHANGED sent
         ELSE IF fc[se] = cl THEN UNCHANGED <<fc, sent>>
         ELSE fc' = [fc EXCEPT ![pe] = cl] /\ sent' = sent \cup {fc[pe]}
      /\ UNCHANGED <<asked, durable, owed>>

FlushReturns ==
  /\ loop.call = "nvm_flush" /\ loop.cnt = 0
  /\ loop' = NoCall
  /\ UNCHANGED <<fc, sent, asked, durable, owed>>

(* nvm_persist scans the whole table. *)
nvm_persist ==
  /\ Idle
  /\ loop' = [NoCall EXCEPT !.call = "nvm_persist"]
  /\ UNCHANGED <<fc, sent, asked, durable, owed>>

ScanSlot ==
  /\ loop.call = "nvm_persist" /\ loop.index < Size
  /\ loop' = [loop EXCEPT !.index = @ + 1]
  /\ IF fc[loop.index] = 0 THEN UNCHANGED <<fc, sent>>
     ELSE /\ sent' = sent \cup {fc[loop.index]}
          /\ fc' = [fc EXCEPT ![loop.index] = 0]
  /\ UNCHANGED <<asked, durable, owed>>

(* A plausible mistake: the scan stops short of the last slot. *)
BarrierEarly ==
  /\ loop.call = "nvm_persist" /\ loop.index >= Size - 1
  /\ loop' = NoCall
  /\ durable' = durable \cup sent
  /\ sent' = {}
  /\ owed' = owed \cup asked
  /\ asked' = {}
  /\ UNCHANGED fc

(* nvms_persist: all that was sent is in NVM, and nvm_persist returns. *)
Barrier ==
  /\ loop.call = "nvm_persist" /\ loop.index >= Size
  /\ loop' = NoCall
  /\ durable' = durable \cup sent
  /\ sent' = {}
  /\ owed' = owed \cup asked
  /\ asked' = {}
  /\ UNCHANGED fc

(* nvm_persist1 sends one line and waits; the table is left alone. *)
nvm_persist1(l) ==
  /\ Idle
  /\ durable' = durable \cup sent \cup {l}
  /\ sent' = {}
  /\ owed' = owed \cup {l}
  /\ UNCHANGED <<fc, loop, asked>>

-----------------------------------------------------------------------------
Init ==
  /\ fc = [i \in Slot |-> 0]
  /\ loop = NoCall
  /\ sent = {} /\ asked = {} /\ owed = {}
  /\ durable = Lines

Next ==
  \/ \E l \in Lines : Store(l) \/ nvm_persist1(l)
  \/ \E cl \in Lines : \E n \in 0 .. NLines + 1 - cl : nvm_flush(cl, n)
  \/ FlushLine \/ FlushReturns \/ nvm_persist \/ ScanSlot \/ Barrier

Spec == Init /\ [][Next]_vars

-----------------------------------------------------------------------------
(* Properties.                                                              *)

(* Type invariant of the table, the loop and the sets of lines. *)
TypeOK ==
  /\ fc \in [Slot -> Lines \cup {0}]
  /\ loop \in [call : {"none", "nvm_flush", "nvm_persist"}, cl : 0 .. NLines + 1,
               cnt : 0 .. NLines, index : 0 .. Size]
  /\ sent \subseteq Lines /\ asked \subseteq Lines
  /\ durable \subseteq Lines /\ owed \subseteq Lines

Noted == {fc[i] : i \in Slot} \ {0}

(* Lines nvm_flush has still to go through. *)
Ahead == IF loop.call = "nvm_flush" THEN loop.cl .. loop.cl + loop.cnt - 1 ELSE {}

(* No flush gets lost in the table: between calls a line that was flushed   *)
(* after its last store is in the table, on its way, or in NVM, whatever    *)
(* collisions, evictions and wrapped ranges came before.                    *)
NoFlushLost == Idle => asked \subseteq Noted \cup sent \cup durable

(* What nvm_persist promises: "all previous stores to NVM by the calling    *)
(* thread are actually persistent when it returns", for every line that     *)
(* was flushed, until the line is stored to again.                          *)
PersistedIsDurable == owed \subseteq durable

(* The inductive invariant: as above but at every step.  What nvm_flush was *)
(* asked for and the table does not have is still ahead of its loop, which  *)
(* stays inside NVM; what nvm_persist has scanned is empty.                 *)
IInv ==
  /\ TypeOK
  /\ PersistedIsDurable
  /\ asked \subseteq Noted \cup sent \cup durable \cup Ahead
  /\ loop.call = "nvm_flush" =>
       loop.cl >= 1 /\ loop.cl + loop.cnt <= NLines + 1 /\ loop.index < Size
  /\ loop.call = "nvm_persist" => \A i \in Slot : i < loop.index => fc[i] = 0

=============================================================================

------------------------- MODULE NvmTransaction -------------------------
(* One transaction slot of the NVM Direct library (nvm_transaction.c, the   *)
(* plain C side of its #ifdef NVM_EXT) and the thread that uses it, with    *)
(* crashes at every point and the recovery of nvm_recover and nvm_txrecover.*)
(*                                                                         *)
(* A library call is a list of phases `todo`; a phase is what happens      *)
(* between two persist barriers, so that a crash can come between any two.  *)
(* A phase is a tuple: its name and its arguments.                          *)
EXTENDS NvmMemory, Integers, Sequences, SequencesExt

CONSTANTS
  Blocks,     \* a sequence of undo blocks, in table order
  BlockCap,   \* undo records that fit in a block (bound)
  Clients     \* client programs: what they call, how a crash comes, and the
              \* bounds [tx, ops, crashes] on base transactions begun, calls
              \* in them, and crashes

VARIABLES
  free,       \* ttd->free_undo: head of the free undo blocks (volatile)
  todo,       \* phases left of the library call in progress
  client,     \* the program, an element of Clients
  used,       \* [tx, ops, crashes] spent so far
  intent,     \* the client's view: per open level its value and savepoints
  want,       \* value each cell must have when no transaction is open
  broken      \* an nvms_assert_fail or nvms_corruption was reached

ghosts == <<client, used, intent, want, broken>>
vars == <<mem, hist, pend, power, free, todo, client, used, intent, want, broken>>

---------------------------------------------------------------------------
(* The persistent structures: nvm_transaction, nvm_amutex, nvm_undo_blk    *)
(* headers, undo records, and three application words.  Base transactions  *)
(* store in "x" under the mutex, nested ones in "y", callbacks in "k".      *)

Nil == <<>>
NoBlk == "none"
Cells == {"x", "y", "k"}
TxLine == <<"tx">>
MutexLine == <<"mutex">>
CellLine(c) == <<"cell", c>>
BlkLine(b) == <<"blk", b>>
RecLine(p) == <<"rec", p[1], p[2]>>

Tx == mem[TxLine]
Blk(b) == mem[BlkLine(b)]
Rec(p) == mem[RecLine(p)]

EmptyTx == [state |-> "idle", undo |-> NoBlk, commit_ops |-> Nil,
            held_locks |-> Nil, savept_last |-> Nil, nstd_last |-> Nil]

Table ==
  LET lines == {TxLine, MutexLine} \cup {CellLine(c) : c \in Cells}
                 \cup {BlkLine(b) : b \in Range(Blocks)}
                 \cup {RecLine(p) : p \in Range(Blocks) \X (1 .. BlockCap)}
  IN  [l \in lines |-> CASE l = TxLine -> EmptyTx
                         [] l[1] = "blk" -> [link |-> NoBlk, count |-> 0]
                         [] l[1] = "rec" -> [op |-> "ignore"]
                         [] OTHER -> 0]

(* The undo blocks of a list, newest first. *)
RECURSIVE ChainFrom(_)
ChainFrom(b) == IF b = NoBlk THEN <<>> ELSE <<b>> \o ChainFrom(Blk(b).link)

(* The undo records of the transaction, newest first. *)
RecordsOf(b) == [i \in 1 .. Blk(b).count |-> <<b, Blk(b).count + 1 - i>>]
Log == FlattenSeq([i \in DOMAIN ChainFrom(Tx.undo) |-> RecordsOf(ChainFrom(Tx.undo)[i])])

(* nvm_count_undo *)
UndoOps == Len(Log)

(* Elements of a list of records linked by `prev`, newest first. *)
RECURSIVE Linked(_, _)
Linked(p, stop) ==
  IF p = Nil \/ (p # Nil /\ Rec(p).undo_ops < stop) THEN <<>>
  ELSE <<p>> \o Linked(Rec(p).prev, stop)

(* nvm_get_state, and the record that holds the state of the current level *)
StateLine == IF Tx.nstd_last = Nil THEN TxLine ELSE RecLine(Tx.nstd_last)
State == mem[StateLine].state
InState(s) == [mem[StateLine] EXCEPT !.state = s]

(* Number of undo records that belong to outer levels. *)
Stop == IF Tx.nstd_last = Nil THEN 0 ELSE Rec(Tx.nstd_last).undo_ops + 1

Depth == 1 + Len(Linked(Tx.nstd_last, 0))

(* The list of the transaction that a record of the kind is linked to. *)
ListOf(op) ==
  CASE op \in {"lock", "on_unlock"} -> "held_locks"
    [] op = "savepoint" -> "savept_last"
    [] op = "nested" -> "nstd_last"
    [] op = "on_commit" -> "commit_ops"
    [] OTHER -> "none"

---------------------------------------------------------------------------
(* Control: the phase to run, and what is left after it.                    *)

Phase(name) == todo # <<>> /\ ~broken /\ Head(todo)[1] = name
Arg == Head(todo)[2]
Then(phases) == todo' = phases \o Tail(todo)
Goes(phases) == Then(phases) /\ UNCHANGED <<power, free, ghosts>>

(* nvms_assert_fail and nvms_corruption end the process. *)
Fails ==
  /\ broken' = TRUE
  /\ todo' = <<>>
  /\ UNCHANGED <<memory, power, free, client, used, intent, want>>

---------------------------------------------------------------------------
(* Undo blocks and undo records.                                            *)

Full == Tx.undo # NoBlk => Blk(Tx.undo).count = BlockCap

HeadEmpty == Tx.undo # NoBlk /\ Blk(Tx.undo).count = 0

(* The states in which a record may be created: every function that makes   *)
(* one asserts an active transaction, nvm_txbegin is more liberal.           *)
MayRecord(op) ==
  \/ State = "active"
  \/ op = "nested" /\ State \in {"aborting", "committing", "rollback"}

(* nvm_add_undo: the new block points at the older undo before the          *)
(* transaction points at the new block.                                     *)
nvm_add_undo ==
  /\ Phase("record") /\ Full /\ free # NoBlk
  /\ IF ~MayRecord(Arg.op) \/ Blk(free).count # 0 THEN Fails ELSE
       /\ free' = Blk(free).link
       /\ StorePersist1(BlkLine(free), [link |-> Tx.undo, count |-> 0])
       /\ todo' = << <<"set", "undo", free>> >> \o todo
       /\ UNCHANGED <<power, ghosts>>

(* One pointer of the transaction header, made persistent. *)
SetPointer ==
  /\ Phase("set")
  /\ StorePersist1(TxLine, [Tx EXCEPT ![Arg] = Head(todo)[3]])
  /\ Goes(<<>>)

(* A plausible mistake: the block is linked to the free list first. *)
DropUndoSwapped ==
  /\ Phase("drop")
  /\ StorePersist1(BlkLine(Arg), [Blk(Arg) EXCEPT !.link = free])
  /\ free' = Arg
  /\ Then(<< <<"set", "undo", Blk(Arg).link>> >>)
  /\ UNCHANGED <<power, ghosts>>

(* nvm_drop_undo: off the transaction first, then on the free list. *)
nvm_drop_undo ==
  /\ Phase("drop")
  /\ StorePersist1(TxLine, [Tx EXCEPT !.undo = Blk(Arg).link])
  /\ Goes(<< <<"free", Arg>> >>)

FreeBlock ==
  /\ Phase("free")
  /\ StorePersist1(BlkLine(Arg), [Blk(Arg) EXCEPT !.link = free])
  /\ free' = Arg
  /\ Then(<<>>)
  /\ UNCHANGED <<power, ghosts>>

(* The bytes of a new record of the requested kind. *)
NewRecord(r) ==
  LET list == [prev |-> Tx[ListOf(r.op)], undo_ops |-> UndoOps]
  IN  CASE r.op = "restore" ->
             [r EXCEPT !.val = IF r.line[1] = "rec" THEN mem[r.line].func ELSE mem[r.line]]
        [] r.op = "on_abort" -> [op |-> r.op, func |-> 1]
        [] r.op \in {"on_commit", "on_unlock"} -> [op |-> r.op, func |-> 1] @@ list
        [] r.op = "nested" -> [op |-> r.op, state |-> "active"] @@ list
        [] OTHER -> [op |-> r.op] @@ list

(* The record is written beyond the count of the block, and everything in   *)
(* the flush cache is persisted with it (first half of nvm_add_oper).        *)
nvm_add_oper ==
  /\ Phase("record") /\ ~Full
  /\ IF ~MayRecord(Arg.op) THEN Fails ELSE
     LET p == <<Tx.undo, Blk(Tx.undo).count + 1>>
     IN  /\ StorePersist(RecLine(p), NewRecord(Arg))
         /\ Goes(<< <<"count">> >> \o
                 IF ListOf(Arg.op) = "none" THEN <<>>
                 ELSE << <<"set", ListOf(Arg.op), p>> >>)

(* A plausible mistake: the count is left in the flush cache. *)
CountRecordLater ==
  /\ Phase("count")
  /\ StoreFlush(BlkLine(Tx.undo), [Blk(Tx.undo) EXCEPT !.count = @ + 1])
  /\ Goes(<<>>)

(* The count makes the record exist (second half of nvm_add_oper). *)
CountRecord ==
  /\ Phase("count")
  /\ StorePersist1(BlkLine(Tx.undo), [Blk(Tx.undo) EXCEPT !.count = @ + 1])
  /\ Goes(<<>>)

(* The calls that create records, as phases. *)
nvm_undo(l) == << <<"record", [op |-> "restore", line |-> l, val |-> 0]>> >>
nvm_savepoint == << <<"record", [op |-> "savepoint"]>> >>
nvm_oncommit == << <<"record", [op |-> "on_commit"]>> >>
nvm_onabort == << <<"record", [op |-> "on_abort"]>> >>
nvm_onunlock == << <<"record", [op |-> "on_unlock"]>> >>
nvm_add_lock_op == << <<"record", [op |-> "lock"]>> >>
nvm_txbegin_nested == << <<"record", [op |-> "nested"]>> >>

(* An application store in a transaction, flushed but not persisted. *)
AddOne ==
  /\ Phase("add")
  /\ StoreFlush(CellLine(Arg), mem[CellLine(Arg)] + 1)
  /\ Goes(<<>>)

---------------------------------------------------------------------------
(* The mutex, exclusively held or free: one transaction needs no more.      *)

nvm_lock ==
  /\ Phase("nvm_lock")
  /\ UNCHANGED memory
  /\ Goes(IF mem[MutexLine] = 1 THEN <<>> ELSE nvm_add_lock_op \o << <<"own">> >>)

(* A plausible mistake: the owner is not flushed. *)
OwnMutexUnflushed ==
  /\ Phase("own")
  /\ Store(MutexLine, 1)
  /\ Goes(<<>>)

OwnMutex ==
  /\ Phase("own")
  /\ StorePersist1(MutexLine, 1)
  /\ Goes(<<>>)

nvm_unlock ==
  /\ Phase("nvm_unlock")
  /\ StorePersist1(MutexLine, 0)
  /\ Goes(<<>>)

(* A callback runs in a nested transaction that also clears the function of *)
(* its record, so that it is not called again.  The application function    *)
(* adds one to "k".                                                         *)
nvm_unlock_callback ==
  /\ Phase("call")
  /\ UNCHANGED memory
  /\ Goes(IF Rec(Arg).func = 0 THEN <<>>
          ELSE nvm_txbegin_nested \o nvm_undo(RecLine(Arg)) \o << <<"clear", Arg>> >>
               \o nvm_undo(CellLine("k")) \o << <<"add", "k">>, <<"nvm_txend">> >>)

ClearFunc ==
  /\ Phase("clear")
  /\ StoreFlush(RecLine(Arg), [Rec(Arg) EXCEPT !.func = 0])
  /\ Goes(<<>>)

---------------------------------------------------------------------------
(* Ending a level.                                                          *)

LevelCell(d) == IF d = 1 THEN "x" ELSE "y"

(* Callbacks owed for records that leave the transaction. *)
Owed(ps, ops) == Len(SelectSeq(ps, LAMBDA p : Rec(p).op \in ops))

(* A lock or on-unlock record of the held list, released. *)
Release(p) == IF Rec(p).op = "on_unlock" THEN <<"call", p>> ELSE <<"nvm_unlock", p>>

(* First record of a list that belongs to an outer level. *)
Older(p, stop) == LET own == Linked(p, stop) IN IF own = <<>> THEN p ELSE Rec(Last(own)).prev

(* nvm_commit: the state "committing" decides the commit; locks are         *)
(* released newest first, on-commit callbacks run oldest first, and only    *)
(* then is the undo thrown away.                                            *)
nvm_commit ==
  /\ Phase("nvm_commit")
  /\ IF State \notin {"active", "committing"} THEN Fails ELSE
     LET locks == Linked(Tx.held_locks, Stop)
         calls == Reverse(Linked(Tx.commit_ops, Stop))
     IN  /\ StorePersist(StateLine, InState("committing"))
         /\ Then([i \in DOMAIN locks |-> Release(locks[i])]
                 \o << <<"set", "held_locks", Older(Tx.held_locks, Stop)>> >>
                 \o [i \in DOMAIN calls |-> <<"call", calls[i]>>]
                 \o << <<"set", "commit_ops", Older(Tx.commit_ops, Stop)>>, <<"discard", Stop>> >>)
         /\ want' = IF Len(intent) = Depth
                      THEN [want EXCEPT ![LevelCell(Depth)] = intent[Depth].val]
                      ELSE want
         /\ UNCHANGED <<power, free, client, used, intent, broken>>

(* The undo of a committed level goes block by block, then record by record.*)
Discard ==
  /\ Phase("discard")
  /\ LET b == Tx.undo
         ps == IF b = NoBlk THEN <<>> ELSE RecordsOf(b)
         whole == b # NoBlk /\ UndoOps - Len(ps) >= Arg
         gone == IF whole THEN ps ELSE SubSeq(ps, 1, UndoOps - Arg)
     IN  /\ IF b = NoBlk THEN UNCHANGED memory
            ELSE StorePersist1(BlkLine(b), [Blk(b) EXCEPT !.count = @ - Len(gone)])
         /\ Then(IF whole THEN << <<"drop", b>>, Head(todo)>> ELSE << <<"state", "committed">> >>)
         /\ want' = [want EXCEPT !.k = @ + Owed(gone, {"on_commit", "on_unlock"})]
         /\ UNCHANGED <<power, free, client, used, intent, broken>>

SetState ==
  /\ Phase("state")
  /\ StorePersist1(StateLine, InState(Arg))
  /\ Goes(<<>>)

(* nvm_abort: the state "aborting" decides the abort. *)
nvm_abort ==
  /\ Phase("nvm_abort")
  /\ IF State \notin {"active", "aborting", "rollback"} THEN Fails ELSE
     /\ StorePersist1(StateLine, InState("aborting"))
     /\ Goes(<< <<"apply", Stop, Tx.undo>>, <<"state", "aborted">> >>)

(* nvm_rollback to the newest savepoint: the state is not made persistent. *)
nvm_rollback ==
  /\ Phase("nvm_rollback")
  /\ Store(StateLine, InState("rollback"))
  /\ Goes(<< <<"apply", Rec(Tx.savept_last).undo_ops, Tx.undo>>, <<"resume">> >>)

Resume ==
  /\ Phase("resume")
  /\ Store(StateLine, InState("active"))
  /\ Goes(<<>>)

(* nvm_txend of a nested level: two lines change, one barrier follows. *)
EndNested ==
  /\ Phase("nvm_txend") /\ Tx.nstd_last # Nil /\ State # "active"
  /\ IF \/ State \notin {"committed", "aborted"}
        \/ Tx.undo = NoBlk
        \/ Tx.nstd_last # <<Tx.undo, Blk(Tx.undo).count>>
     THEN Fails
     ELSE /\ StoreFlush(TxLine, [Tx EXCEPT !.nstd_last = Rec(@).prev])
          /\ Then(<< <<"uncount">>, <<"persist">> >>)
          /\ intent' = IF Len(intent) = Depth THEN Front(intent) ELSE intent
          /\ UNCHANGED <<power, free, client, used, want, broken>>

RemoveNested ==
  /\ Phase("uncount")
  /\ StoreFlush(BlkLine(Tx.undo), [Blk(Tx.undo) EXCEPT !.count = @ - 1])
  /\ Goes(<<>>)

nvm_persist ==
  /\ Phase("persist")
  /\ Persist
  /\ Goes(<<>>)

(* nvm_txend of the base level frees the slot. *)
EndBase ==
  /\ Phase("nvm_txend") /\ Tx.nstd_last = Nil /\ State # "active"
  /\ IF State \notin {"committed", "aborted"} \/ Tx.undo # NoBlk THEN Fails
     ELSE /\ StorePersist(TxLine, InState("idle"))
          /\ Then(<<>>)
          /\ intent' = <<>>
          /\ UNCHANGED <<power, free, client, used, want, broken>>

(* nvm_txend commits what is still active. *)
EndActive ==
  /\ Phase("nvm_txend") /\ State = "active"
  /\ UNCHANGED memory
  /\ Goes(<< <<"nvm_commit">>, Head(todo)>>)

---------------------------------------------------------------------------
(* nvm_apply_undo: newest record first, down to Arg records.  The block is  *)
(* a local variable `ub`, read again only when a block was dropped, while   *)
(* the record is found through tx->undo_data, which follows the newest block*)
(* of the transaction.                                                      *)

ub == Head(todo)[3]
Newest == <<Tx.undo, Blk(Tx.undo).count>>

ApplyDone ==
  /\ Phase("apply")
  /\ ub # NoBlk => (Blk(ub).count # 0 /\ UndoOps <= Arg)
  /\ UNCHANGED memory
  /\ Goes(<<>>)

(* A plausible mistake: the empty block stays with the transaction. *)
ApplyEmptyBlockKept ==
  /\ Phase("apply") /\ ub # NoBlk /\ Blk(ub).count = 0
  /\ UNCHANGED memory
  /\ Goes(<< <<"apply", Arg, Blk(ub).link>> >>)

ApplyEmptyBlock ==
  /\ Phase("apply") /\ ub # NoBlk /\ Blk(ub).count = 0
  /\ UNCHANGED memory
  /\ Goes(<< <<"drop", ub>>, <<"apply", Arg, Blk(ub).link>> >>)

Applying(ops) ==
  /\ Phase("apply") /\ ub # NoBlk /\ Blk(ub).count # 0 /\ UndoOps > Arg
  /\ Rec(<<ub, Blk(ub).count>>).op \in ops

(* The step that undoes the record, whose data must lie in the block. *)
Undo(step) == IF Tx.undo # ub THEN Fails ELSE step

(* What remains once the phases that undo the record are done. *)
AndRemove(phases) == Goes(phases \o << <<"pop", ub>>, Head(todo)>>)

ApplyRestore ==
  /\ Applying({"restore"})
  /\ LET r == Rec(Newest)
         v == IF r.line[1] = "rec" THEN [mem[r.line] EXCEPT !.func = r.val] ELSE r.val
     IN  Undo(StorePersist(r.line, v) /\ AndRemove(<<>>))

ApplyLock ==
  /\ Applying({"lock", "on_unlock"})
  /\ Undo(/\ UNCHANGED memory
          /\ AndRemove(<<Release(Newest), <<"set", "held_locks", Rec(Newest).prev>> >>))

ApplySavepoint ==
  /\ Applying({"savepoint"})
  /\ LET sp == Newest  psp == Rec(Newest).prev
     IN  Undo(IF Tx.savept_last \notin {sp, psp} THEN Fails
              ELSE StorePersist1(TxLine, [Tx EXCEPT !.savept_last = psp]) /\ AndRemove(<<>>))

ApplyNested ==
  /\ Applying({"nested"})
  /\ Undo(IF Tx.nstd_last # Rec(Newest).prev THEN Fails
          ELSE UNCHANGED memory /\ AndRemove(<<>>))

ApplyOnAbort ==
  /\ Applying({"on_abort"})
  /\ Undo(UNCHANGED memory /\ AndRemove(<< <<"call", Newest>> >>))

ApplyOnCommit ==
  /\ Applying({"on_commit"})
  /\ Undo(/\ StorePersist1(TxLine, [Tx EXCEPT !.commit_ops = Rec(Newest).prev])
          /\ AndRemove(<<>>))

RemoveApplied ==
  /\ Phase("pop")
  /\ StorePersist1(BlkLine(Arg), [Blk(Arg) EXCEPT !.count = @ - 1])
  /\ Then(<<>>)
  /\ want' = [want EXCEPT !.k = @ + Owed(<< <<Arg, Blk(Arg).count>> >>, {"on_abort", "on_unlock"})]
  /\ UNCHANGED <<power, free, client, used, intent, broken>>

---------------------------------------------------------------------------
(* Crash and recovery.                                                      *)

(* The process or the machine stops; attaching again starts nvm_recover.    *)
Crash ==
  /\ used.crashes < client.crashes /\ ~broken
  /\ mem' \in Images
  /\ hist' = [l \in DOMAIN mem |-> {mem'[l]}]
  /\ pend' = {}
  /\ free' = NoBlk
  /\ todo' = << <<"nvm_recover">> >>
  /\ used' = [used EXCEPT !.crashes = @ + 1]
  /\ intent' = <<>>
  /\ UNCHANGED <<power, client, want, broken>>

(* nvm_recover: empty blocks come off the transaction (no flush follows). *)
RecoverUnlink ==
  /\ Phase("nvm_recover") /\ HeadEmpty
  /\ Store(TxLine, [Tx EXCEPT !.undo = Blk(Tx.undo).link])
  /\ Goes(<<Head(todo)>>)

FreeBlocks == [i \in DOMAIN Blocks |-> <<"recover block", Blocks[i]>>]

(* A slot that was finished becomes idle, any other needs recovery. *)
RecoverState ==
  /\ Phase("nvm_recover") /\ ~HeadEmpty
  /\ IF Tx.state \in {"idle", "committed", "aborted"}
     THEN /\ StoreFlush(TxLine, [Tx EXCEPT !.state = "idle"])
          /\ Goes(FreeBlocks \o << <<"persist">> >>)
     ELSE /\ UNCHANGED memory
          /\ Goes(FreeBlocks \o << <<"persist">>, <<"nvm_txrecover">> >>)

RecoverBlock ==
  /\ Phase("recover block")
  /\ IF Blk(Arg).count # 0 THEN UNCHANGED memory /\ Goes(<<>>)
     ELSE /\ StoreFlush(BlkLine(Arg), [Blk(Arg) EXCEPT !.link = free])
          /\ free' = Arg
          /\ Then(<<>>)
          /\ UNCHANGED <<power, ghosts>>

(* A plausible mistake: a finished level is not ended. *)
TxrecoverNoEnd ==
  /\ Phase("nvm_txrecover")
  /\ UNCHANGED memory
  /\ Goes(CASE Tx.state = "idle" -> <<>>
            [] Tx.state # "idle" /\ State \in {"active", "rollback", "aborting"} ->
                 << <<"nvm_abort">>, Head(todo)>>
            [] Tx.state # "idle" /\ State = "committing" -> << <<"nvm_commit">>, Head(todo)>>
            [] OTHER -> <<Head(todo)>>)

(* nvm_txrecover ends level after level until the slot is idle. *)
nvm_txrecover ==
  /\ Phase("nvm_txrecover")
  /\ UNCHANGED memory
  /\ Goes(CASE Tx.state = "idle" -> <<>>
            [] Tx.state # "idle" /\ State \in {"active", "rollback", "aborting"} ->
                 << <<"nvm_abort">>, <<"nvm_txend">>, Head(todo)>>
            [] Tx.state # "idle" /\ State = "committing" ->
                 << <<"nvm_commit">>, <<"nvm_txend">>, Head(todo)>>
            [] OTHER -> << <<"nvm_txend">>, Head(todo)>>)

---------------------------------------------------------------------------
(* The client: any sequence of legal calls of its kind.                     *)

Ready(call) == todo = <<>> /\ ~broken /\ call \in client.calls

Calls(phases) ==
  /\ todo' = phases
  /\ UNCHANGED <<memory, power, free, client, want, broken>>

(* A call inside the current level, one of the bounded number of them. *)
InLevel(call, level, phases) ==
  /\ Ready(call) /\ intent # <<>> /\ State = "active"
  /\ used.ops < client.ops
  /\ used' = [used EXCEPT !.ops = @ + 1]
  /\ intent' = Append(Front(intent), level)
  /\ Calls(phases)

Level == Last(intent)

(* nvm_txbegin of a base transaction: cleared first, active then. *)
nvm_txbegin ==
  /\ Ready("begin") /\ intent = <<>> /\ used.tx < client.tx
  /\ used' = [used EXCEPT !.tx = @ + 1]
  /\ intent' = << [val |-> want["x"], saves |-> <<>>] >>
  /\ Calls(<< <<"begin">>, <<"state", "active">> >>)

ClearTx ==
  /\ Phase("begin")
  /\ StorePersist(TxLine, EmptyTx)
  /\ Goes(<<>>)

BeginNested ==
  /\ Ready("nested") /\ Len(intent) = 1 /\ State = "active" /\ used.ops < client.ops
  /\ used' = [used EXCEPT !.ops = @ + 1]
  /\ intent' = Append(intent, [val |-> want["y"], saves |-> <<>>])
  /\ Calls(nvm_txbegin_nested)

Write ==
  LET c == LevelCell(Len(intent))
  IN  InLevel("write", [Level EXCEPT !.val = @ + 1],
              (IF c = "x" THEN << <<"nvm_lock">> >> ELSE <<>>)
                \o nvm_undo(CellLine(c)) \o << <<"add", c>> >>)

Savepoint ==
  /\ Len(intent) = 1 \/ "nested savepoint" \in client.calls
  /\ InLevel("savepoint", [Level EXCEPT !.saves = Append(@, Level.val)], nvm_savepoint)

Rollback ==
  /\ intent # <<>> /\ Level.saves # <<>>
  /\ InLevel("rollback", [val |-> Last(Level.saves), saves |-> Front(Level.saves)],
             << <<"nvm_rollback">> >>)

OnCommit == InLevel("on_commit", Level, nvm_oncommit)

(* A client that does not let a callback record be the last of its block. *)
RoomForCall ==
  "full block" \notin client.calls /\ ~Full => Blk(Tx.undo).count + 1 < BlockCap

OnAbort == RoomForCall /\ InLevel("on_abort", Level, nvm_onabort)

OnUnlock == RoomForCall /\ InLevel("on_unlock", Level, nvm_onunlock)

(* Explicit nvm_commit or nvm_abort, or neither, before nvm_txend. *)
Commit ==
  /\ Ready("commit") /\ intent # <<>> /\ State = "active"
  /\ UNCHANGED <<used, intent>>
  /\ Calls(<< <<"nvm_commit">> >>)

Abort ==
  /\ Ready("abort") /\ intent # <<>> /\ State = "active"
  /\ UNCHANGED <<used, intent>>
  /\ Calls(<< <<"nvm_abort">> >>)

End ==
  /\ Ready("begin") /\ intent # <<>>
  /\ UNCHANGED <<used, intent>>
  /\ Calls(<< <<"nvm_txend">> >>)

---------------------------------------------------------------------------
Init ==
  /\ client \in Clients
  /\ power = client.power
  /\ InitMemory(Table)
  /\ free = NoBlk
  /\ todo = << <<"nvm_recover">> >>
  /\ used = [tx |-> 0, ops |-> 0, crashes |-> 0]
  /\ intent = <<>>
  /\ want = [c \in Cells |-> 0]
  /\ broken = FALSE

Library ==
  \/ nvm_add_undo \/ SetPointer \/ nvm_drop_undo \/ FreeBlock
  \/ nvm_add_oper \/ CountRecord \/ AddOne \/ ClearTx
  \/ nvm_lock \/ OwnMutex \/ nvm_unlock \/ nvm_unlock_callback \/ ClearFunc
  \/ nvm_commit \/ Discard \/ SetState \/ nvm_abort \/ nvm_rollback \/ Resume
  \/ EndNested \/ RemoveNested \/ nvm_persist \/ EndBase \/ EndActive
  \/ ApplyDone \/ ApplyEmptyBlock \/ ApplyRestore \/ ApplyLock \/ ApplySavepoint
  \/ ApplyNested \/ ApplyOnAbort \/ ApplyOnCommit \/ RemoveApplied
  \/ RecoverUnlink \/ RecoverState \/ RecoverBlock \/ nvm_txrecover

Application ==
  \/ nvm_txbegin \/ BeginNested \/ Write \/ Savepoint \/ Rollback
  \/ OnCommit \/ OnAbort \/ OnUnlock \/ Commit \/ Abort \/ End

Next == Library \/ Application \/ Crash

Spec == Init /\ [][Next]_vars

(* The library runs on; clients and crashes come as they like. *)
FairSpec == Spec /\ WF_vars(Library)

---------------------------------------------------------------------------
(* Properties.                                                              *)

Quiet == todo = <<>> /\ ~broken /\ intent = <<>>

(* All or nothing, exactly once: when no transaction is open, every word    *)
(* holds, and would keep in a power failure, what the committed levels      *)
(* stored; "k" counts one call for every on-commit and on-unlock record of  *)
(* a committed level and every on-abort and on-unlock record of an undone   *)
(* one, however many crashes came between.                                  *)
Atomicity ==
  Quiet => \A c \in Cells : hist[CellLine(c)] = {want[c]}

(* No nvms_assert_fail and no nvms_corruption is reached by legal calls,    *)
(* in recovery neither.                                                     *)
NoCorruption == ~broken

(* A word under a lock is never exposed: as long as an undo record of the   *)
(* open, uncommitted transaction would change "x", the mutex is held.       *)
LockCoversUndo ==
  (Tx.state \in {"active", "rollback", "aborting"}
    /\ \E i \in DOMAIN Log : Rec(Log[i]).op = "restore" /\ Rec(Log[i]).line = CellLine("x"))
  => mem[MutexLine] = 1

(* Undo blocks are neither lost nor shared: between transactions all of     *)
(* them are on the free list, each once.                                    *)
UndoBlocksConserved ==
  Quiet => /\ Tx.undo = NoBlk
           /\ IsInjective(ChainFrom(free))
           /\ Range(ChainFrom(free)) = Range(Blocks)

(* Recovery ends: from any crash the library gets back to a state in which  *)
(* no transaction is open, or crashes again.                                *)
Recovers == (todo # <<>>) ~> (todo = <<>>)

===========================================================================

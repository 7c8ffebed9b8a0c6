------------------------------ MODULE PosixPipe ------------------------------
(***************************************************************************)
(* One pipe of the POSIX runtime: the stream buffer and its event queue    *)
(* (runtime/POSIX/buffers.c), the two ends (pipes.c) and the descriptors   *)
(* that stand for them, with close, dup and select (fd.c).  Threads sleep  *)
(* in read, write and select while others close what they sleep in.        *)
(***************************************************************************)
EXTENDS Integers, Sequences, PthreadCalls

CONSTANTS
  Fds,        \* the descriptors the program may use; MAX_FDS bounds them
  Sizes,      \* the numbers of bytes that the program reads and writes
  MaxSize,    \* PIPE_BUFFER_SIZE
  MaxEvents   \* MAX_EVENTS

VARIABLES
  fds,      \* fds[fd] : the end of the pipe that fd stands for
  ends,     \* the two pipe_end_t
  buff,     \* the stream_buffer_t
  put,      \* history: bytes written
  got,      \* history: bytes read
  inOrder   \* history: the bytes that were read are those that were written

\* A byte is its position in the stream, modulo Wrap.
Wrap == MaxSize + 1

\* Freed, or not allocated yet
NoEnd == [refcount |-> 0, queued |-> 0, open |-> FALSE]
NoBuff ==
  [contents |-> [i \in 1 .. MaxSize |-> 0], start |-> 0, size |-> 0,
   evt_queue |-> [i \in 1 .. MaxEvents |-> 0], empty_wlist |-> 0, full_wlist |-> 0,
   queued |-> 0, closed |-> FALSE, destroying |-> FALSE]

Init ==
  /\ fds = [fd \in Fds |-> "none"]
  /\ ends = [e \in {"r", "w"} |-> NoEnd]
  /\ buff = NoBuff
  /\ put = 0 /\ got = 0 /\ inOrder = TRUE

\* A call makes several changes at once, on a copy p of the state.
Now == [fds |-> fds, ends |-> ends, buff |-> buff, sched |-> sched]
Becomes(p) == fds' = p.fds /\ ends' = p.ends /\ buff' = p.buff /\ sched' = p.sched

Reading(n) == [call |-> "read", count |-> n]
Writing(n) == [call |-> "write", count |-> n]
Selecting(r, w, wlist) == [call |-> "select", read |-> r, write |-> w, wlist |-> wlist]

Empty(p) == p.buff.size = 0
IsFull(p) == p.buff.size = MaxSize

(***************************************************************************)
(* Closing                                                                 *)
(***************************************************************************)
\* __notify_event: everybody in the lists and in the event queue, which is emptied
NotifyEvent(p, wlists) ==
  LET all == (wlists \cup {p.buff.evt_queue[i] : i \in 1 .. MaxEvents}) \ {0}
  IN  [p EXCEPT !.sched = FoldSet(LAMBDA w, s : NotifyAll(s, w), @, all),
                !.buff.evt_queue = [i \in 1 .. MaxEvents |-> 0]]

NotifyBoth(p) == NotifyEvent(p, {p.buff.empty_wlist, p.buff.full_wlist})

StreamClose(p) == [NotifyBoth(p) EXCEPT !.buff.closed = TRUE]

\* free(buff) unless a call is inside, which frees it when it leaves
FreeBuff(p) == [p EXCEPT !.buff = IF @.queued = 0 THEN NoBuff ELSE @]

StreamDestroyAtOnce(p) == [NotifyBoth(p) EXCEPT !.buff = NoBuff]
StreamDestroy(p) == FreeBuff([NotifyBoth(p) EXCEPT !.buff.destroying = TRUE])

FreeEnd(p, e) == [p EXCEPT !.ends[e] = IF @.queued = 0 THEN NoEnd ELSE @]

ClosePipe(p, e) ==
  LET closed == IF p.buff.closed THEN StreamDestroy(p) ELSE StreamClose(p)
  IN  FreeEnd([closed EXCEPT !.ends[e].open = FALSE], e)

CloseFd(p, fd) ==
  LET e == p.fds[fd]
      last == p.ends[e].refcount = 1
  IN  [IF last THEN ClosePipe(p, e) ELSE [p EXCEPT !.ends[e].refcount = @ - 1]
         EXCEPT !.fds[fd] = "none"]

Close(fd) ==
  /\ Calls(Self) /\ fds[fd] # "none"
  /\ Becomes(CloseFd(Now, fd))
  /\ UNCHANGED <<pc, put, got, inOrder>>

\* dup3, and dup2 and dup, which call it; an open newfd is closed first.
Dup3(oldfd, newfd) ==
  LET e == fds[oldfd]
      p == IF fds[newfd] = "none" THEN Now ELSE CloseFd(Now, newfd)
  IN  /\ Calls(Self) /\ e # "none" /\ newfd # oldfd
      /\ Becomes([p EXCEPT !.fds[newfd] = e, !.ends[e].refcount = @ + 1])
      /\ UNCHANGED <<pc, put, got, inOrder>>

\* The two lowest free descriptors.  The program has one pipe at a time.
Pipe ==
  LET free == {fd \in Fds : fds[fd] = "none"}
      fdr == Min(free)
      end == [NoEnd EXCEPT !.refcount = 1, !.open = TRUE]
  IN  /\ Calls(Self) /\ Cardinality(free) >= 2 /\ CanGetWaitingLists(sched)
      /\ buff = NoBuff /\ \A e \in {"r", "w"} : ends[e] = NoEnd
      /\ fds' = [fds EXCEPT ![fdr] = "r", ![Min(free \ {fdr})] = "w"]
      /\ ends' = [e \in {"r", "w"} |-> end]
      /\ buff' = [NoBuff EXCEPT !.empty_wlist = sched.wlistCounter,
                                !.full_wlist = sched.wlistCounter + 1]
      /\ sched' = GetWaitingList(GetWaitingList(sched))
      /\ put' = 0 /\ got' = 0
      /\ UNCHANGED <<pc, inOrder>>

(***************************************************************************)
(* Reading and writing                                                     *)
(***************************************************************************)
EnterEnd(p, e) == [p EXCEPT !.ends[e].queued = @ + 1]

LeaveEnd(p, e) ==
  LET left == [p EXCEPT !.ends[e].queued = @ - 1]
  IN  IF left.ends[e].open THEN left ELSE FreeEnd(left, e)

StreamSleep(p, wlist) ==
  [p EXCEPT !.buff.queued = @ + 1, !.sched = Sleep(@, wlist)]
StreamWoken(p) == [p EXCEPT !.buff.queued = @ - 1]

\* How many of n bytes from offset on lie before the end of the ring
BeforeWrap(offset, n) ==
  IF offset + n > MaxSize THEN n - ((offset + n) % MaxSize) ELSE n

BytesAt(b, n) ==
  LET k == BeforeWrap(b.start, n)
  IN  SubSeq(b.contents, b.start + 1, b.start + k) \o SubSeq(b.contents, 1, n - k)

WithoutBytes(b, n) == [b EXCEPT !.start = (@ + n) % MaxSize, !.size = @ - n]

WithBytesAtSize(b, bytes) ==
  [b EXCEPT !.contents = [i \in 1 .. MaxSize |->
                            IF i - b.size \in DOMAIN bytes THEN bytes[i - b.size] ELSE @[i]],
            !.size = @ + Len(bytes)]

\* The bytes go behind those that are there, and from the end of the ring to its
\* beginning.
WithBytes(b, bytes) ==
  LET offset == (b.start + b.size) % MaxSize
      k == BeforeWrap(offset, Len(bytes))
  IN  [b EXCEPT !.contents = [i \in 1 .. MaxSize |->
                                CASE i - offset \in 1 .. k      -> bytes[i - offset]
                                  [] i \in 1 .. Len(bytes) - k  -> bytes[k + i]
                                  [] OTHER                      -> @[i]],
                !.size = @ + Len(bytes)]

\* _stream_readv from the test of its loop on
StreamRead(t, p, n) ==
  LET k == Min({n, p.buff.size})
      next == [i \in 1 .. k |-> (got + i) % Wrap]
  IN  \/ /\ ~Empty(p)
         /\ Becomes(LeaveEnd(NotifyEvent([p EXCEPT !.buff = WithoutBytes(@, k)],
                                         {p.buff.full_wlist}), "r"))
         /\ pc' = [pc EXCEPT ![t] = Run]
         /\ got' = (got + k) % Wrap
         /\ inOrder' = (inOrder /\ BytesAt(p.buff, k) = next)
         /\ UNCHANGED put
      \/ /\ Empty(p) /\ p.buff.closed
         /\ Becomes(LeaveEnd(p, "r"))
         /\ pc' = [pc EXCEPT ![t] = Run]
         /\ UNCHANGED <<put, got, inOrder>>
      \/ /\ Empty(p) /\ ~p.buff.closed
         /\ Becomes(StreamSleep(p, p.buff.empty_wlist))
         /\ pc' = [pc EXCEPT ![t] = Reading(n)]
         /\ UNCHANGED <<put, got, inOrder>>

\* With O_NONBLOCK, a call that would sleep returns EAGAIN and changes nothing.
Read(t, fd, n) ==
  /\ Calls(t) /\ fds[fd] = "r"
  /\ StreamRead(t, EnterEnd(Now, "r"), n)

\* A call that wakes in a buffer that is being destroyed
Abandon(t, p, e) ==
  /\ p.buff.destroying
  /\ Becomes(LeaveEnd(FreeBuff(p), e))
  /\ pc' = [pc EXCEPT ![t] = Run]
  /\ UNCHANGED <<put, got, inOrder>>

ReadWakes(t) ==
  LET p == StreamWoken(Now)
  IN  /\ GoesOn(t, pc[t]) /\ pc[t].call = "read"
      /\ \/ Abandon(t, p, "r")
         \/ ~p.buff.destroying /\ StreamRead(t, p, pc[t].count)

\* _stream_writev from the test of its loop on
StreamWrite(t, p, n) ==
  LET k == Min({n, MaxSize - p.buff.size})
      bytes == [i \in 1 .. k |-> (put + i) % Wrap]
  IN  \/ /\ ~IsFull(p)
         /\ Becomes(LeaveEnd(NotifyEvent([p EXCEPT !.buff = WithBytes(@, bytes)],
                                         {p.buff.empty_wlist}), "w"))
         /\ pc' = [pc EXCEPT ![t] = Run]
         /\ put' = (put + k) % Wrap
         /\ UNCHANGED <<got, inOrder>>
      \/ /\ IsFull(p)
         /\ Becomes(StreamSleep(p, p.buff.full_wlist))
         /\ pc' = [pc EXCEPT ![t] = Writing(n)]
         /\ UNCHANGED <<put, got, inOrder>>

\* EPIPE changes nothing.
Write(t, fd, n) ==
  /\ Calls(t) /\ fds[fd] = "w" /\ ~buff.closed
  /\ StreamWrite(t, EnterEnd(Now, "w"), n)

WriteWakes(t) ==
  LET p == StreamWoken(Now)
  IN  /\ GoesOn(t, pc[t]) /\ pc[t].call = "write"
      /\ \/ Abandon(t, p, "w")
         \/ /\ ~p.buff.destroying /\ p.buff.closed
            /\ Becomes(LeaveEnd(p, "w"))
            /\ pc' = [pc EXCEPT ![t] = Run]
            /\ UNCHANGED <<put, got, inOrder>>
         \/ ~p.buff.destroying /\ ~p.buff.closed /\ StreamWrite(t, p, pc[t].count)

(***************************************************************************)
(* select                                                                  *)
(***************************************************************************)
\* A descriptor that was closed, or is of the other kind, does not block.
IsBlocking(p, fd, event) ==
  /\ ~p.buff.closed
  /\ \/ p.fds[fd] = "r" /\ event = "read" /\ Empty(p)
     \/ p.fds[fd] = "w" /\ event = "write" /\ IsFull(p)

Ready(p, r, w) ==
  \/ \E fd \in r : ~IsBlocking(p, fd, "read")
  \/ \E fd \in w : ~IsBlocking(p, fd, "write")

Lowest(set, n) == {i \in set : Cardinality({j \in set : j < i}) < n}

\* The queue with n entries old replaced, the first ones first
Replaced(queue, old, new, n) ==
  LET slots == Lowest({i \in 1 .. MaxEvents : queue[i] = old}, n)
  IN  [i \in 1 .. MaxEvents |-> IF i \in slots THEN new ELSE queue[i]]

RoomFor(p, n) == Cardinality({i \in 1 .. MaxEvents : p.buff.evt_queue[i] = 0}) >= n

Deregistered(p, r, w, wlist) ==
  [p EXCEPT !.buff.evt_queue =
     Replaced(@, wlist, 0, Cardinality({fd \in r \cup w : p.fds[fd] # "none"}))]

\* The loop of select; if the queue is full the entries made are taken back, and
\* the call fails with ENOMEM.
SelectLoop(t, p, r, w, wlist) ==
  LET n == Cardinality(r \cup w)
      registered == [p EXCEPT !.buff.evt_queue = Replaced(@, 0, wlist, n)]
  IN  /\ \/ /\ Ready(p, r, w) \/ ~RoomFor(p, n)
            /\ Becomes(p)
            /\ pc' = [pc EXCEPT ![t] = Run]
         \/ /\ ~Ready(p, r, w) /\ RoomFor(p, n)
            /\ Becomes([registered EXCEPT !.sched = Sleep(@, wlist)])
            /\ pc' = [pc EXCEPT ![t] = Selecting(r, w, wlist)]
      /\ UNCHANGED <<put, got, inOrder>>

\* A select that finds a descriptor ready, or one that is not open, changes nothing
\* but the sets it returns, which are left out.
Select(t, r, w) ==
  /\ Calls(t) /\ r \cup w # {} /\ ~Ready(Now, r, w)
  /\ CanGetWaitingLists(sched)
  /\ SelectLoop(t, [Now EXCEPT !.sched = GetWaitingList(@)], r, w, sched.wlistCounter)

SelectWakes(t) ==
  LET c == pc[t]
  IN  /\ GoesOn(t, c) /\ c.call = "select"
      /\ SelectLoop(t, Deregistered(Now, c.read, c.write, c.wlist), c.read, c.write, c.wlist)

Next ==
  \/ Pipe
  \/ \E fd \in Fds : Close(fd) \/ \E newfd \in Fds : Dup3(fd, newfd)
  \/ \E t \in Tids :
       \/ \E fd \in Fds, n \in Sizes : Read(t, fd, n) \/ Write(t, fd, n)
       \/ ReadWakes(t) \/ WriteWakes(t)
       \/ \E r, w \in SUBSET Fds : Select(t, r, w)
       \/ SelectWakes(t)

(***************************************************************************)
(* Properties                                                              *)
(***************************************************************************)
TypeOK ==
  /\ fds \in [Fds -> {"none", "r", "w"}]
  /\ DOMAIN ends = {"r", "w"}
  /\ buff.size \in 0 .. MaxSize /\ buff.start \in 0 .. MaxSize - 1
  /\ put \in 0 .. MaxSize /\ got \in 0 .. MaxSize /\ inOrder \in BOOLEAN

InCall(call) == {t \in Live(sched) : pc[t].call = call}

\* The buffer and the ends are counted in as often as threads are inside, and only
\* threads that sleep in select are in the event queue.
QueuesAgree ==
  /\ buff.queued = Cardinality(InCall("read")) + Cardinality(InCall("write"))
  /\ ends["r"].queued = Cardinality(InCall("read"))
  /\ ends["w"].queued = Cardinality(InCall("write"))
  /\ \A i \in 1 .. MaxEvents :
       buff.evt_queue[i] # 0 =>
         \E t \in InCall("select") \ Enabled(sched) : pc[t].wlist = buff.evt_queue[i]

\* What the bytes read are: the bytes written, in order, with nothing between the last
\* one read and the next one in the ring.
StreamIsFifo ==
  /\ inOrder
  /\ buff # NoBuff => /\ (got + buff.size) % Wrap = put
                      /\ BytesAt(buff, buff.size) = [i \in 1 .. buff.size |-> (got + i) % Wrap]

\* An end lives as long as a descriptor stands for it or a thread is inside a call on it,
\* the buffer as long as one of the ends is open or a thread is inside; then they are
\* freed, and nobody comes back to them.
PipeIsReleased ==
  LET inside(e) == InCall(IF e = "r" THEN "read" ELSE "write") # {}
      of(e) == {fd \in Fds : fds[fd] = e}
  IN  /\ \A e \in {"r", "w"} :
           /\ ends[e].open <=> of(e) # {}
           /\ ends[e].open => ends[e].refcount = Cardinality(of(e))
           /\ ends[e] # NoEnd <=> ends[e].open \/ inside(e)
      /\ buff # NoBuff <=> \E e \in {"r", "w"} : ends[e].open \/ inside(e)

\* t sleeps, and none of the descriptors it still has is ready.
WaitsInVain(t) ==
  \/ pc[t].call = "read" /\ Empty(Now) /\ ~buff.closed
  \/ pc[t].call = "write" /\ IsFull(Now) /\ ~buff.closed
  \/ /\ pc[t].call = "select"
     /\ \A fd \in pc[t].read : fds[fd] = "r" => IsBlocking(Now, fd, "read")
     /\ \A fd \in pc[t].write : fds[fd] = "w" => IsBlocking(Now, fd, "write")

\* Whoever sleeps in read, write or select waits in vain: a write, a read or a close
\* would have woken it.
NoLostWakeup ==
  \A t \in InCall("read") \cup InCall("write") \cup InCall("select") :
    t \notin Enabled(sched) => WaitsInVain(t)
=============================================================================

-------------------------------- MODULE Pipe --------------------------------
(***************************************************************************)
(* Anonymous pipes (lib/vfscore/pipe.c): a buffer with free-running        *)
(* producer and consumer indices, a reading and a writing end.             *)
(*                                                                         *)
(* vfs_read, vfs_write and vfs_ioctl hold the lock of the end's vnode      *)
(* during the call, also while it waits, so each end has at most one call  *)
(* in progress.  Threads are cooperative: a call keeps the processor until *)
(* it waits or returns, and rdlock and wrlock are never contended.         *)
(***************************************************************************)
EXTENDS Integers, Sequences

CONSTANTS Byte,
          Capacity,     \* of the buffer, a power of 2
          IdxMod,       \* 2^64: indices are unsigned long
          IntMod,       \* 2^32: a part to copy is an int
          ReadIov, WriteIov,  \* iovecs of the calls, as sequences of lengths
          NonBlocking,  \* values of O_NONBLOCK
          MayClose      \* whether ends are closed

ASSUME PipeAssumption ==
  /\ Capacity \in Nat \ {0} /\ IdxMod \in Nat \ {0}
  /\ IdxMod % Capacity = 0 /\ Capacity < IdxMod
  /\ IntMod \in Nat \ {0} /\ IntMod % Capacity = 0 /\ 2 * Capacity < IntMod
  /\ ReadIov \subseteq Seq(Nat) /\ WriteIov \subseteq Seq(Nat) /\ NonBlocking \subseteq BOOLEAN

VARIABLES data, prod, cons,
          w_refcount, r_refcount,
          rd, wr,   \* the calls in progress: what is left of the iovecs, and
                    \* where the call is
          active,     \* the call that has the processor
          bytes_in,   \* the bytes that the last pipe_buf_write was to copy
          bytes_out   \* the bytes that the last pipe_buf_read has copied

pipeVars ==
  <<data, prod, cons, w_refcount, r_refcount, rd, wr, active, bytes_in, bytes_out>>

Call == [pc : {"idle", "run", "wait", "fault"}, iov : Seq(Nat), nonblocking : BOOLEAN,
         runnable : BOOLEAN]
NoCall == [pc |-> "idle", iov |-> <<>>, nonblocking |-> FALSE, runnable |-> TRUE]

PipeInit ==
  /\ data \in [0 .. Capacity - 1 -> Byte]
  /\ prod = 0 /\ cons = 0
  /\ w_refcount = 1 /\ r_refcount = 1
  /\ rd = NoCall /\ wr = NoCall
  /\ active = "none" /\ bytes_in = <<>> /\ bytes_out = <<>>

-----------------------------------------------------------------------------
\* The buffer.  Bad... are wrong variants of the definitions that follow them.

Idx(n) == n % Capacity
Available == (prod - cons) % IdxMod
FreeSpace == Capacity - Available

\* pipe_buf_write: the bytes s go behind the others, around the end of the buffer.
BadWritten(s) == [i \in DOMAIN data |->  \* the second part is not copied
                    LET k == i - Idx(prod)
                    IN  IF k \in 0 .. Len(s) - 1 THEN s[k + 1] ELSE data[i]]
Written(s) == [i \in DOMAIN data |->
                 LET k == (i - Idx(prod)) % Capacity
                 IN  IF k < Len(s) THEN s[k + 1] ELSE data[i]]

\* The next n bytes of the buffer, around its end.
Bytes(n) == [k \in 1 .. n |-> data[Idx(cons + k - 1)]]

\* pipe_buf_read.  When the bytes go around the end of the buffer it copies them in two
\* parts, the first of which ends at the end of the buffer if its size is right.
InOnePiece(n) == Idx(cons) + n <= Capacity

\* The size is an int, computed from the index before this is reduced.
FirstCopy == LET d == (Capacity - cons) % IntMod
             IN  IF 2 * d >= IntMod THEN d - IntMod ELSE d

\* What the two parts leave in the n bytes of the caller: where the first is too long, its
\* rest comes from behind the buffer and is not known.
CopiedOut(o, n) ==
  LET first == IF InOnePiece(n) THEN n ELSE FirstCopy
  IN  \A k \in 1 .. n :
        /\ k <= first /\ Idx(cons) + k <= Capacity => o[k] = data[Idx(cons) + k - 1]
        /\ k > first => o[k] = data[k - first - 1]

Least(m, n) == IF m < n THEN m ELSE n
Remaining(iov, n) == IF iov[1] = n THEN Tail(iov) ELSE [iov EXCEPT ![1] = @ - n]

\* uk_waitq_wake_up
BadWake(call) == call
Wake(call) == [call EXCEPT !.runnable = TRUE]

Has(c) == active \in {"none", c}

-----------------------------------------------------------------------------
\* pipe_write begins; without readers it returns EPIPE and changes nothing.
WriteBegin(iov) ==
  /\ Has("wr") /\ wr.pc = "idle" /\ w_refcount > 0 /\ r_refcount > 0
  /\ wr' = [NoCall EXCEPT !.pc = "run", !.iov = iov]
  /\ active' = "wr"
  /\ UNCHANGED <<data, prod, cons, w_refcount, r_refcount, rd, bytes_in, bytes_out>>

\* One round of its loops: an iovec that is written is followed by the next, and a
\* full buffer is waited for.
WriteRound(s) ==
  LET n == Least(FreeSpace, wr.iov[1])
  IN  /\ wr.pc = "run" /\ active = "wr" /\ wr.iov # <<>>
      /\ wr.iov[1] > 0 => n > 0
      /\ Len(s) = n
      /\ data' = Written(s)
      /\ prod' = (prod + n) % IdxMod
      /\ wr' = [wr EXCEPT !.iov = Remaining(@, n)]
      /\ rd' = IF n > 0 THEN Wake(rd) ELSE rd
      /\ bytes_in' = IF n > 0 THEN s ELSE bytes_in
      /\ UNCHANGED <<cons, w_refcount, r_refcount, active, bytes_out>>

WriteWait ==
  /\ wr.pc = "run" /\ active = "wr" /\ wr.iov # <<>> /\ wr.iov[1] > 0
  /\ FreeSpace = 0
  /\ wr' = [wr EXCEPT !.pc = "wait", !.runnable = FALSE]
  /\ active' = "none"
  /\ UNCHANGED <<data, prod, cons, w_refcount, r_refcount, rd, bytes_in, bytes_out>>

\* uk_waitq_wait_event tests its condition when the thread has been woken.
WriteResume ==
  /\ wr.pc = "wait" /\ wr.runnable /\ Has("wr")
  /\ wr' = IF FreeSpace > 0 THEN [wr EXCEPT !.pc = "run"]
                            ELSE [wr EXCEPT !.runnable = FALSE]
  /\ active' = IF FreeSpace > 0 THEN "wr" ELSE "none"
  /\ UNCHANGED <<data, prod, cons, w_refcount, r_refcount, rd, bytes_in, bytes_out>>

WriteReturn ==
  /\ wr.pc = "run" /\ active = "wr" /\ wr.iov = <<>>
  /\ wr' = NoCall /\ active' = "none"
  /\ UNCHANGED <<data, prod, cons, w_refcount, r_refcount, rd, bytes_in, bytes_out>>

-----------------------------------------------------------------------------
\* pipe_read begins; without data a non-blocking one returns EAGAIN and changes nothing.
ReadBegin(iov, nonblocking) ==
  /\ Has("rd") /\ rd.pc = "idle" /\ r_refcount > 0
  /\ nonblocking => Available > 0
  /\ rd' = [NoCall EXCEPT !.pc = "run", !.iov = iov, !.nonblocking = nonblocking]
  /\ active' = "rd"
  /\ UNCHANGED <<data, prod, cons, w_refcount, r_refcount, wr, bytes_in, bytes_out>>

ReadRound(o) ==
  LET n == Least(Available, rd.iov[1])
  IN  /\ rd.pc = "run" /\ active = "rd" /\ rd.iov # <<>>
      /\ rd.iov[1] > 0 => n > 0
      /\ InOnePiece(n) \/ FirstCopy >= 0
      /\ Len(o) = n /\ CopiedOut(o, n)
      /\ bytes_out' = IF n > 0 THEN o ELSE bytes_out
      /\ cons' = (cons + n) % IdxMod
      /\ rd' = [rd EXCEPT !.iov = Remaining(@, n)]
      /\ wr' = IF n > 0 THEN Wake(wr) ELSE wr
      /\ UNCHANGED <<data, prod, w_refcount, r_refcount, active, bytes_in>>

\* A negative size is one of nearly 2^64 bytes to memcpy: the machine stops there.
ReadFault ==
  LET n == Least(Available, rd.iov[1])
  IN  /\ rd.pc = "run" /\ active = "rd" /\ rd.iov # <<>> /\ n > 0
      /\ ~InOnePiece(n) /\ FirstCopy < 0
      /\ rd' = [rd EXCEPT !.pc = "fault"]
      /\ UNCHANGED <<data, prod, cons, w_refcount, r_refcount, wr, active, bytes_in, bytes_out>>

ReadWait ==
  /\ rd.pc = "run" /\ active = "rd" /\ rd.iov # <<>> /\ rd.iov[1] > 0
  /\ Available = 0 /\ ~rd.nonblocking
  /\ rd' = [rd EXCEPT !.pc = "wait", !.runnable = FALSE]
  /\ active' = "none"
  /\ UNCHANGED <<data, prod, cons, w_refcount, r_refcount, wr, bytes_in, bytes_out>>

ReadResume ==
  /\ rd.pc = "wait" /\ rd.runnable /\ Has("rd")
  /\ rd' = IF Available > 0 THEN [rd EXCEPT !.pc = "run"]
                            ELSE [rd EXCEPT !.runnable = FALSE]
  /\ active' = IF Available > 0 THEN "rd" ELSE "none"
  /\ UNCHANGED <<data, prod, cons, w_refcount, r_refcount, wr, bytes_in, bytes_out>>

\* A non-blocking read returns what there is.
ReadReturn ==
  /\ rd.pc = "run" /\ active = "rd"
  /\ rd.iov # <<>> => rd.nonblocking /\ rd.iov[1] > 0 /\ Available = 0
  /\ rd' = NoCall /\ active' = "none"
  /\ UNCHANGED <<data, prod, cons, w_refcount, r_refcount, wr, bytes_in, bytes_out>>

-----------------------------------------------------------------------------
\* pipe_close, when the last descriptor and call of an end are gone.  Nobody is woken.
CloseRead ==
  /\ MayClose /\ Has("rd") /\ rd.pc = "idle" /\ r_refcount > 0
  /\ r_refcount' = r_refcount - 1
  /\ UNCHANGED <<data, prod, cons, w_refcount, rd, wr, active, bytes_in, bytes_out>>

CloseWrite ==
  /\ MayClose /\ Has("wr") /\ wr.pc = "idle" /\ w_refcount > 0
  /\ w_refcount' = w_refcount - 1
  /\ UNCHANGED <<data, prod, cons, r_refcount, rd, wr, active, bytes_in, bytes_out>>

Writing == WriteWait \/ WriteResume \/ WriteReturn
             \/ \E n \in 0 .. Capacity : \E s \in [1 .. n -> Byte] : WriteRound(s)
Reading == ReadFault \/ ReadWait \/ ReadResume \/ ReadReturn
             \/ \E n \in 0 .. Capacity : \E o \in [1 .. n -> Byte] : ReadRound(o)

PipeNext ==
  \/ \E iov \in WriteIov : WriteBegin(iov)
  \/ \E iov \in ReadIov, nb \in NonBlocking : ReadBegin(iov, nb)
  \/ Writing \/ Reading
  \/ CloseRead \/ CloseWrite

PipeSpec == PipeInit /\ [][PipeNext]_pipeVars

-----------------------------------------------------------------------------
PipeTypeOK ==
  /\ data \in [0 .. Capacity - 1 -> Byte]
  /\ prod \in 0 .. IdxMod - 1 /\ cons \in 0 .. IdxMod - 1
  /\ w_refcount \in 0 .. 1 /\ r_refcount \in 0 .. 1
  /\ rd \in Call /\ wr \in Call
  /\ active \in {"none", "rd", "wr"}
  /\ Available \in 0 .. Capacity

\* Nobody sleeps beside what it waits for: a waiting reader that has not been woken has
\* an empty buffer, a waiting writer a full one, and both never wait for each other.
PipeNoLostWakeup ==
  /\ rd.pc = "wait" /\ ~rd.runnable => Available = 0
  /\ wr.pc = "wait" /\ ~wr.runnable => FreeSpace = 0

\* The pipe holds at most what fits, with its types, and pipe_read and pipe_write lose no
\* wake-up; this is inductive.
PInv == PipeTypeOK /\ PipeNoLostWakeup

\* Bytes are read around the end of the buffer when the consumer index has passed the
\* capacity: from there on, but for one lap in 2^32 bytes, the size of the first part is
\* wrong.
LateRead == cons % IntMod >= Capacity /\ ~InOnePiece(Available - Available')

\* The pipe is a stream of bytes, across the end of the buffer and of the indices: each
\* byte is read once and in order, but for late reads, which take the bytes they should
\* and may return others.
Stream == INSTANCE ByteStream WITH stream <- Bytes(Available)
StreamOfBytes ==
  /\ Stream!StreamInit
  /\ [][Stream!Send \/ Stream!Receive \/ (LateRead /\ Stream!Garble)]_(Stream!streamVars)

\* What the code does not keep to: every read returns the bytes that were written, and
\* none stops the machine.
StreamAlways == Stream!StreamSpec
NoFault == rd.pc # "fault"

\* A reader for which there is data, and a writer for which there is room, stops waiting,
\* unless a late read stops the machine.
WaitersServed ==
  /\ (rd.pc = "wait" /\ Available > 0) ~> (rd.pc # "wait")
  /\ (wr.pc = "wait" /\ FreeSpace > 0) ~> (wr.pc # "wait" \/ rd.pc = "fault")
=============================================================================

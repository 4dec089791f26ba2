----------------------------- MODULE LibProofs ------------------------------
(***************************************************************************)
(* The libraries above the scheduler.  Mailboxes of every size are bounded *)
(* queues; and pipes of every capacity lose no wake-up and are streams of  *)
(* bytes.                                                                  *)
(***************************************************************************)
EXTENDS Mbox, Pipe, QueueLemmas, TLAPS

-----------------------------------------------------------------------------
(* Pipes.                                                                  *)

\* What is left of the iovecs stays a sequence of lengths.
LEMMA RemainingType ==
  ASSUME NEW iov \in Seq(Nat), iov # <<>>, NEW n \in Nat, n <= iov[1]
  PROVE  Remaining(iov, n) \in Seq(Nat)
<1>1. iov[1] \in Nat /\ Len(iov) \in Nat \ {0}
  OBVIOUS
<1>2. Tail(iov) \in Seq(Nat)
  OBVIOUS
<1>3. ASSUME NEW x \in Nat PROVE [iov EXCEPT ![1] = x] \in Seq(Nat)
  OBVIOUS
<1>4. CASE iov[1] = n
  BY <1>2, <1>4 DEF Remaining
<1>5. CASE iov[1] # n
  <2>1. iov[1] - n \in Nat
    BY <1>1
  <2> QED BY <1>3, <1>5, <2>1 DEF Remaining
<1> QED BY <1>4, <1>5

\* The bytes written are bytes, around the end of the buffer too.
LEMMA WrittenType ==
  ASSUME data \in [0 .. Capacity - 1 -> Byte], prod \in 0 .. IdxMod - 1,
         NEW n \in Nat, NEW s \in [1 .. n -> Byte], Len(s) = n
  PROVE  Written(s) \in [0 .. Capacity - 1 -> Byte]
<1> SUFFICES ASSUME NEW i \in 0 .. Capacity - 1 PROVE Written(s)[i] \in Byte
  BY DEF Written
<1> DEFINE k == (i - Idx(prod)) % Capacity
<1>1. Capacity \in Nat \ {0} /\ IdxMod \in Nat \ {0}
  BY PipeAssumption
<1>2. Idx(prod) \in Int
  BY <1>1, ModRange DEF Idx
<1>3. k \in 0 .. Capacity - 1
  <2>1. i - Idx(prod) \in Int
    BY <1>1, <1>2
  <2> QED BY <1>1, <2>1, ModRange, Zenon
<1>4. Written(s)[i] = IF k < Len(s) THEN s[k + 1] ELSE data[i]
  BY DEF Written
<1> HIDE DEF k
<1>5. k < n => k + 1 \in 1 .. n
  BY <1>1, <1>3
<1> QED BY <1>4, <1>5

LEMMA InitP == PipeInit => PInv
<1> SUFFICES ASSUME PipeInit PROVE PInv
  OBVIOUS
<1>1. Capacity \in Nat \ {0} /\ IdxMod \in Nat \ {0}
  BY PipeAssumption
<1>2. Available = 0
  BY <1>1, ModSmall DEF PipeInit, Available
<1> QED BY <1>1, <1>2 DEF PipeInit, PInv, PipeTypeOK, PipeNoLostWakeup, NoCall, Call

\* A step that leaves the buffer alone leaves what is available alone.
LEMMA SameBuffer ==
  ASSUME UNCHANGED <<prod, cons>>
  PROVE  Available' = Available /\ FreeSpace' = FreeSpace
BY DEF Available, FreeSpace

LEMMA WriteRoundP ==
  ASSUME PInv, NEW k \in 0 .. Capacity, NEW s \in [1 .. k -> Byte], WriteRound(s)
  PROVE  PInv'
<1> DEFINE n == Least(FreeSpace, wr.iov[1])
<1>1. /\ Capacity \in Nat \ {0} /\ IdxMod \in Nat \ {0} /\ Capacity < IdxMod
      /\ Available \in 0 .. Capacity
      /\ prod \in 0 .. IdxMod - 1 /\ cons \in 0 .. IdxMod - 1
      /\ rd \in Call /\ wr \in Call /\ wr.iov # <<>> /\ wr.iov \in Seq(Nat)
  BY PipeAssumption DEF PInv, PipeTypeOK, WriteRound, Call
<1>2. FreeSpace = Capacity - Available /\ wr.iov[1] \in Nat
  BY <1>1 DEF FreeSpace
<1>3. n \in Nat /\ n <= wr.iov[1] /\ n <= FreeSpace
  BY <1>1, <1>2 DEF Least
<1>4. prod' = (prod + n) % IdxMod /\ cons' = cons
  BY DEF WriteRound
<1> HIDE DEF n
<1>5. Available' = Available + n
  <2>1. n \in 0 .. IdxMod - 1 /\ Available + n < IdxMod
    BY <1>1, <1>2, <1>3
  <2> QED BY <1>1, <1>4, <2>1, Produce, Zenon DEF Available
<1>6. Available' \in 0 .. Capacity /\ prod' \in 0 .. IdxMod - 1
  BY <1>1, <1>2, <1>3, <1>4, <1>5, ModRange
<1>7. Remaining(wr.iov, n) \in Seq(Nat)
  BY <1>1, <1>3, RemainingType
<1>8. wr' = [wr EXCEPT !.iov = Remaining(@, n)] /\ rd' = IF n > 0 THEN Wake(rd) ELSE rd
  BY DEF WriteRound, n
<1>9. wr' \in Call /\ rd' \in Call /\ wr'.pc = "run"
  BY <1>1, <1>7, <1>8, ZenonT(40) DEF Call, Wake, WriteRound
<1>10. data' \in [0 .. Capacity - 1 -> Byte]
  <2>1. Len(s) = k
    BY <1>1
  <2> QED BY <2>1, WrittenType DEF WriteRound, PInv, PipeTypeOK
<1>11. PipeTypeOK'
  BY <1>6, <1>9, <1>10, <1>4, <1>1 DEF PInv, PipeTypeOK, WriteRound
<1>12. rd'.pc = "wait" /\ ~rd'.runnable => Available' = 0
  <2>1. CASE n > 0
    BY <1>1, <1>8, <2>1 DEF Wake, Call
  <2>2. CASE n = 0
    <3>1. rd' = rd /\ Available' = Available
      BY <1>1, <1>5, <1>8, <2>2
    <3> QED BY <3>1 DEF PInv, PipeNoLostWakeup
  <2> QED BY <1>3, <2>1, <2>2
<1> QED BY <1>9, <1>11, <1>12 DEF PInv, PipeNoLostWakeup

LEMMA ReadRoundP == ASSUME PInv, NEW o, ReadRound(o) PROVE PInv'
<1> DEFINE n == Least(Available, rd.iov[1])
<1>1. /\ Capacity \in Nat \ {0} /\ IdxMod \in Nat \ {0} /\ Capacity < IdxMod
      /\ Available \in 0 .. Capacity
      /\ prod \in 0 .. IdxMod - 1 /\ cons \in 0 .. IdxMod - 1
      /\ rd \in Call /\ wr \in Call /\ rd.iov # <<>> /\ rd.iov \in Seq(Nat)
  BY PipeAssumption DEF PInv, PipeTypeOK, ReadRound, Call
<1>2. rd.iov[1] \in Nat
  BY <1>1
<1>3. n \in Nat /\ n <= rd.iov[1] /\ n <= Available
  BY <1>1, <1>2 DEF Least
<1>4. cons' = (cons + n) % IdxMod /\ prod' = prod
  BY DEF ReadRound
<1> HIDE DEF n
<1>5. Available' = Available - n
  <2>1. n \in 0 .. IdxMod - 1
    BY <1>1, <1>3
  <2>2. n <= (prod - cons) % IdxMod
    BY <1>3 DEF Available
  <2>3. (prod - ((cons + n) % IdxMod)) % IdxMod = ((prod - cons) % IdxMod) - n
    BY <1>1, <2>1, <2>2, Consume, SMTT(30)
  <2>4. Available' = (prod - ((cons + n) % IdxMod)) % IdxMod
    BY <1>4, Zenon DEF Available
  <2>5. Available = (prod - cons) % IdxMod
    BY DEF Available
  <2> QED BY <2>3, <2>4, <2>5, Zenon
<1>6. Available' \in 0 .. Capacity /\ cons' \in 0 .. IdxMod - 1
  <2>1. cons + n \in Int
    BY <1>1, <1>3
  <2>2. cons' \in 0 .. IdxMod - 1
    BY <1>1, <1>4, <2>1, ModRange, Zenon
  <2> QED BY <1>1, <1>3, <1>5, <2>2
<1>7. Remaining(rd.iov, n) \in Seq(Nat)
  BY <1>1, <1>3, RemainingType
<1>8. rd' = [rd EXCEPT !.iov = Remaining(@, n)] /\ wr' = IF n > 0 THEN Wake(wr) ELSE wr
  BY DEF ReadRound, n
<1>9. wr' \in Call /\ rd' \in Call /\ rd'.pc = "run"
  BY <1>1, <1>7, <1>8, Zenon DEF Call, Wake, ReadRound
<1>11. PipeTypeOK'
  BY <1>6, <1>9, <1>4, <1>1 DEF PInv, PipeTypeOK, ReadRound
<1>12. wr'.pc = "wait" /\ ~wr'.runnable => FreeSpace' = 0
  <2>1. CASE n > 0
    BY <1>1, <1>8, <2>1 DEF Wake, Call
  <2>2. CASE n = 0
    <3>1. wr' = wr /\ Available' = Available
      BY <1>1, <1>5, <1>8, <2>2
    <3> QED BY <3>1 DEF PInv, PipeNoLostWakeup, FreeSpace
  <2> QED BY <1>3, <2>1, <2>2
<1> QED BY <1>9, <1>11, <1>12 DEF PInv, PipeNoLostWakeup

LEMMA NextP == PInv /\ [PipeNext]_pipeVars => PInv'
<1> SUFFICES ASSUME PInv, [PipeNext]_pipeVars PROVE PInv'
  OBVIOUS
<1>0. /\ Capacity \in Nat \ {0} /\ Available \in 0 .. Capacity
      /\ FreeSpace = Capacity - Available
      /\ rd \in Call /\ wr \in Call
  BY PipeAssumption DEF PInv, PipeTypeOK, FreeSpace
\* Every other step leaves the buffer and the bytes alone.
<1>1. ASSUME UNCHANGED <<data, prod, cons, bytes_out>>,
             r_refcount' \in 0 .. 1, w_refcount' \in 0 .. 1,
             active' \in {"none", "rd", "wr"}, rd' \in Call, wr' \in Call,
             rd'.pc = "wait" /\ ~rd'.runnable => Available = 0,
             wr'.pc = "wait" /\ ~wr'.runnable => FreeSpace = 0
      PROVE  PInv'
  <2>1. Available' = Available /\ FreeSpace' = FreeSpace
    BY <1>1, SameBuffer
  <2> QED BY <1>1, <2>1 DEF PInv, PipeTypeOK, PipeNoLostWakeup
<1>2. ASSUME NEW iov \in WriteIov, WriteBegin(iov) PROVE PInv'
  <2>1. iov \in Seq(Nat)
    BY PipeAssumption
  <2>2. wr' \in Call /\ wr'.pc = "run"
    BY <1>2, <2>1, Zenon DEF WriteBegin, NoCall, Call
  <2> QED BY <1>1, <1>2, <2>2 DEF WriteBegin, PInv, PipeTypeOK, PipeNoLostWakeup
<1>3. ASSUME NEW iov \in ReadIov, NEW nb \in NonBlocking, ReadBegin(iov, nb) PROVE PInv'
  <2>1. iov \in Seq(Nat) /\ nb \in BOOLEAN
    BY PipeAssumption
  <2>2. rd' \in Call /\ rd'.pc = "run"
    BY <1>3, <2>1, Zenon DEF ReadBegin, NoCall, Call
  <2> QED BY <1>1, <1>3, <2>2 DEF ReadBegin, PInv, PipeTypeOK, PipeNoLostWakeup
<1>4. CASE WriteWait
  <2>1. wr' \in Call
    BY <1>0, <1>4, Zenon DEF WriteWait, Call
  <2> QED BY <1>1, <1>4, <2>1 DEF WriteWait, PInv, PipeTypeOK, PipeNoLostWakeup
<1>5. CASE WriteResume
  <2>1. wr' \in Call
    BY <1>0, <1>5, Zenon DEF WriteResume, Call
  <2>2. wr'.pc = "wait" /\ ~wr'.runnable => FreeSpace = 0
    <3>1. CASE FreeSpace > 0
      BY <1>0, <1>5, <3>1 DEF WriteResume, Call
    <3>2. CASE ~(FreeSpace > 0)
      BY <1>0, <3>2
    <3> QED BY <3>1, <3>2
  <2> QED BY <1>1, <1>5, <2>1, <2>2 DEF WriteResume, PInv, PipeTypeOK, PipeNoLostWakeup
<1>6. CASE WriteReturn
  <2>1. wr' \in Call /\ wr'.pc = "idle"
    BY <1>6 DEF WriteReturn, NoCall, Call
  <2> QED BY <1>1, <1>6, <2>1 DEF WriteReturn, PInv, PipeTypeOK, PipeNoLostWakeup
<1>7. CASE ReadWait
  <2>1. rd' \in Call
    BY <1>0, <1>7, Zenon DEF ReadWait, Call
  <2> QED BY <1>1, <1>7, <2>1 DEF ReadWait, PInv, PipeTypeOK, PipeNoLostWakeup
<1>8. CASE ReadResume
  <2>1. rd' \in Call
    BY <1>0, <1>8, Zenon DEF ReadResume, Call
  <2>2. rd'.pc = "wait" /\ ~rd'.runnable => Available = 0
    <3>1. CASE Available > 0
      BY <1>0, <1>8, <3>1 DEF ReadResume, Call
    <3>2. CASE ~(Available > 0)
      BY <1>0, <3>2
    <3> QED BY <3>1, <3>2
  <2> QED BY <1>1, <1>8, <2>1, <2>2 DEF ReadResume, PInv, PipeTypeOK, PipeNoLostWakeup
<1>9. CASE ReadReturn
  <2>1. rd' \in Call /\ rd'.pc = "idle"
    BY <1>9 DEF ReadReturn, NoCall, Call
  <2> QED BY <1>1, <1>9, <2>1 DEF ReadReturn, PInv, PipeTypeOK, PipeNoLostWakeup
<1>10. CASE CloseRead
  BY <1>1, <1>10 DEF CloseRead, PInv, PipeTypeOK, PipeNoLostWakeup
<1>11. CASE CloseWrite
  BY <1>1, <1>11 DEF CloseWrite, PInv, PipeTypeOK, PipeNoLostWakeup
<1>12. CASE UNCHANGED pipeVars
  BY <1>1, <1>12 DEF pipeVars, PInv, PipeTypeOK, PipeNoLostWakeup
<1>13. CASE ReadFault
  <2>1. rd' \in Call /\ rd'.pc = "fault"
    BY <1>0, <1>13, Zenon DEF ReadFault, Call
  <2> QED BY <1>1, <1>13, <2>1 DEF ReadFault, PInv, PipeTypeOK, PipeNoLostWakeup
<1> QED
  BY <1>2, <1>3, <1>4, <1>5, <1>6, <1>7, <1>8, <1>9, <1>10, <1>11, <1>12, <1>13, WriteRoundP,
     ReadRoundP DEF PipeNext, Writing, Reading

\* A pipe of any capacity never holds more than fits, no reader sleeps beside data and no
\* writer beside room without having been woken: uk_waitq_wake_up after every copy is
\* enough.
THEOREM PipeInvariance == PipeSpec => []PInv
BY InitP, NextP, PTL DEF PipeSpec

-----------------------------------------------------------------------------
(* A pipe is a stream of bytes.                                            *)

\* The capacity divides the range of the indices, so that they keep their place in the
\* buffer when they wrap.
LEMMA IdxOfWrapped ==
  ASSUME NEW p \in 0 .. IdxMod - 1, NEW n \in 0 .. IdxMod - 1, NEW k \in Int
  PROVE  Idx(((p + n) % IdxMod) + k) = Idx(p + n + k)
<1>1. Capacity \in Nat \ {0} /\ IdxMod \in Nat \ {0} /\ IdxMod % Capacity = 0
  BY PipeAssumption
<1> DEFINE q == (p + n) % IdxMod
<1>2. q = IF p + n < IdxMod THEN p + n ELSE p + n - IdxMod
  BY <1>1, IndexStep, ZenonT(40)
<1> HIDE DEF q
<1>3. CASE p + n < IdxMod
  <2>1. q + k = p + n + k
    BY <1>1, <1>2, <1>3
  <2> QED BY <2>1 DEF q
<1>4. CASE p + n >= IdxMod
  <2>1. q + k \in Int /\ p + n + k = (q + k) + IdxMod
    BY <1>1, <1>2, <1>4
  <2>2. ((q + k) + IdxMod) % Capacity = (q + k) % Capacity
    BY <1>1, <2>1, Period
  <2> QED BY <2>1, <2>2 DEF Idx, q
<1> QED BY <1>1, <1>3, <1>4

\* The constants, and where the producer is.
LEMMA PipeFacts ==
  ASSUME PipeTypeOK
  PROVE  /\ Capacity \in Nat \ {0} /\ IdxMod \in Nat \ {0} /\ Capacity < IdxMod
         /\ prod \in 0 .. IdxMod - 1 /\ cons \in 0 .. IdxMod - 1
         /\ Available \in 0 .. Capacity /\ Available \in 0 .. IdxMod - 1
         /\ prod = (cons + Available) % IdxMod
         /\ data \in [0 .. Capacity - 1 -> Byte]
<1>1. /\ Capacity \in Nat \ {0} /\ IdxMod \in Nat \ {0} /\ Capacity < IdxMod
      /\ prod \in 0 .. IdxMod - 1 /\ cons \in 0 .. IdxMod - 1
      /\ Available \in 0 .. Capacity
      /\ data \in [0 .. Capacity - 1 -> Byte]
  BY PipeAssumption DEF PipeTypeOK
<1>2. Available \in 0 .. IdxMod - 1
  BY <1>1
<1>3. Available = IF cons <= prod THEN prod - cons ELSE prod - cons + IdxMod
  BY <1>1, Distance DEF Available
<1>4. (cons + Available) % IdxMod
        = IF cons + Available < IdxMod THEN cons + Available ELSE cons + Available - IdxMod
  BY <1>1, <1>2, IndexStep, Zenon
<1>5. prod = (cons + Available) % IdxMod
  BY <1>1, <1>3, <1>4
<1> QED BY <1>1, <1>2, <1>5

LEMMA BytesType ==
  ASSUME data \in [0 .. Capacity - 1 -> Byte], Capacity \in Nat \ {0}, cons \in Nat,
         NEW n \in Nat
  PROVE  Bytes(n) \in Seq(Byte) /\ Len(Bytes(n)) = n /\ \A k \in 1 .. n : Bytes(n)[k] = data[Idx(cons + k - 1)]
<1>1. \A k \in 1 .. n : data[Idx(cons + k - 1)] \in Byte
  <2> SUFFICES ASSUME NEW k \in 1 .. n PROVE data[Idx(cons + k - 1)] \in Byte
    OBVIOUS
  <2>1. cons + k - 1 \in Int
    OBVIOUS
  <2>2. Idx(cons + k - 1) \in 0 .. Capacity - 1
    BY <2>1, ModRange DEF Idx
  <2> QED BY <2>2
<1>2. Bytes(n) \in [1 .. n -> Byte]
  BY <1>1, Zenon DEF Bytes
<1>3. \A k \in 1 .. n : Bytes(n)[k] = data[Idx(cons + k - 1)]
  BY DEF Bytes
<1> QED BY <1>2, <1>3

\* pipe_buf_write leaves the bytes in the buffer as they are and puts the others behind.
LEMMA WrittenBytes ==
  ASSUME PipeTypeOK, NEW s \in Seq(Byte), Len(s) <= FreeSpace, NEW j \in 1 .. Available + Len(s)
  PROVE  Written(s)[Idx(cons + j - 1)]
           = IF j <= Available THEN data[Idx(cons + j - 1)] ELSE s[j - Available]
<1>0. /\ Capacity \in Nat \ {0} /\ IdxMod \in Nat \ {0}
      /\ cons \in 0 .. IdxMod - 1 /\ Available \in 0 .. Capacity /\ Available \in 0 .. IdxMod - 1
      /\ prod = (cons + Available) % IdxMod /\ data \in [0 .. Capacity - 1 -> Byte]
  BY PipeFacts
<1>1. Len(s) \in Nat /\ Available + Len(s) <= Capacity
  BY <1>0 DEF FreeSpace
<1> DEFINE i == Idx(cons + j - 1)
           k == (i - Idx(prod)) % Capacity
<1>2. i \in 0 .. Capacity - 1 /\ i \in DOMAIN data
  <2>1. cons + j - 1 \in Int
    BY <1>0, <1>1
  <2>2. i \in 0 .. Capacity - 1
    BY <1>0, <2>1, ModRange, Zenon DEF Idx
  <2> QED BY <1>0, <2>2
<1>3. Idx(prod) = (cons + Available) % Capacity
  <2>1. prod \in Int /\ prod + 0 = prod /\ cons + Available + 0 = cons + Available /\ 0 \in Int
    BY <1>0
  <2>2. Idx(prod + 0) = Idx(cons + Available + 0)
    BY <1>0, <2>1, IdxOfWrapped, Zenon
  <2> QED BY <2>1, <2>2 DEF Idx
<1>4. k = (j - 1 - Available) % Capacity
  <2>1. cons + j - 1 \in Int /\ cons + Available \in Int
    BY <1>0, <1>1
  <2>2. (((cons + j - 1) % Capacity) - ((cons + Available) % Capacity)) % Capacity
           = ((cons + j - 1) - (cons + Available)) % Capacity
    BY <1>0, <2>1, DistanceOfPlaces, Zenon
  <2>3. (cons + j - 1) - (cons + Available) = j - 1 - Available
    BY <1>0, <1>1
  <2> QED BY <1>3, <2>2, <2>3 DEF Idx
<1>5. Written(s)[i] = IF k < Len(s) THEN s[k + 1] ELSE data[i]
  BY <1>2 DEF Written
<1> HIDE DEF i, k
<1>6. CASE j <= Available
  <2>1. j - 1 - Available \in (-Capacity) .. (-1)
    BY <1>0, <1>1, <1>6
  <2>2. k = j - 1 - Available + Capacity
    BY <1>0, <1>4, <2>1, ModBelow, Zenon
  <2>3. ~(k < Len(s))
    BY <1>0, <1>1, <1>6, <2>2
  <2> QED BY <1>5, <1>6, <2>3 DEF i
<1>7. CASE ~(j <= Available)
  <2>1. j - 1 - Available \in 0 .. Capacity - 1
    BY <1>0, <1>1, <1>7
  <2>2. k = j - 1 - Available
    BY <1>0, <1>4, <2>1, ModSmall, Zenon
  <2>3. k < Len(s) /\ k + 1 = j - Available
    BY <1>0, <1>1, <1>7, <2>2
  <2> QED BY <1>5, <1>7, <2>3 DEF i
<1> QED BY <1>6, <1>7

\* What a pipe holds, in order; what ByteStream's stream stands for.
Held == Bytes(Available)

LEMMA WriteAppends ==
  ASSUME PipeTypeOK, NEW s \in Seq(Byte), Len(s) <= FreeSpace,
         data' = Written(s), prod' = (prod + Len(s)) % IdxMod, cons' = cons
  PROVE  Held' = Held \o s
<1>0. /\ Capacity \in Nat \ {0} /\ IdxMod \in Nat \ {0} /\ Capacity < IdxMod
      /\ prod \in 0 .. IdxMod - 1 /\ cons \in 0 .. IdxMod - 1 /\ cons \in Nat
      /\ Available \in 0 .. Capacity /\ Available \in Nat /\ data \in [0 .. Capacity - 1 -> Byte]
  BY PipeFacts
<1>1. Len(s) \in Nat /\ Available + Len(s) <= Capacity
  BY <1>0 DEF FreeSpace
<1>2. Available' = Available + Len(s)
  <2>1. Len(s) \in 0 .. IdxMod - 1 /\ ((prod - cons) % IdxMod) + Len(s) < IdxMod
    BY <1>0, <1>1 DEF Available
  <2> QED BY <1>0, <2>1, Produce, Zenon DEF Available
<1>3. Held \in Seq(Byte) /\ Len(Held) = Available
      /\ \A k \in 1 .. Available : Held[k] = data[Idx(cons + k - 1)]
  BY <1>0, BytesType DEF Held
<1>4. Held' = [k \in 1 .. Available + Len(s) |-> data'[Idx(cons + k - 1)]]
  BY <1>2 DEF Held, Bytes, Idx
<1>5. Held \o s \in Seq(Byte) /\ Len(Held \o s) = Available + Len(s)
      /\ \A k \in 1 .. Available + Len(s) :
           (Held \o s)[k] = IF k <= Available THEN Held[k] ELSE s[k - Available]
  BY <1>0, <1>1, <1>3, Concatenated, ZenonT(40)
<1>6. \A k \in 1 .. Available + Len(s) : data'[Idx(cons + k - 1)] = (Held \o s)[k]
  <2> SUFFICES ASSUME NEW k \in 1 .. Available + Len(s)
               PROVE  data'[Idx(cons + k - 1)] = (Held \o s)[k]
    BY Zenon
  <2>1. Written(s)[Idx(cons + k - 1)]
           = IF k <= Available THEN data[Idx(cons + k - 1)] ELSE s[k - Available]
    BY WrittenBytes
  <2>2. k <= Available => k \in 1 .. Available
    BY <1>0, <1>1
  <2> QED BY <1>3, <1>5, <2>1, <2>2
<1>7. Held' \in Seq(Byte) /\ Len(Held') = Available + Len(s)
  <2>1. \A k \in 1 .. Available + Len(s) : (Held \o s)[k] \in Byte
    BY <1>5, MemberOf
  <2>2. Held' \in [1 .. Available + Len(s) -> Byte]
    BY <1>4, <1>6, <2>1, Zenon
  <2> QED BY <1>0, <1>1, <2>2, SMTT(40)
<1>8. \A k \in 1 .. Len(Held') : Held'[k] = (Held \o s)[k]
  BY <1>4, <1>6, <1>7, Zenon
<1> QED BY <1>5, <1>7, <1>8, SameSequence, ZenonT(30)

LEMMA ReadTakes ==
  ASSUME PipeTypeOK, NEW n \in 0 .. Available, data' = data, prod' = prod,
         cons' = (cons + n) % IdxMod
  PROVE  /\ Bytes(n) = SubSeq(Held, 1, n)
         /\ Held' = SubSeq(Held, n + 1, Len(Held)) /\ Len(Held) = Available
         /\ Available' = Available - n
<1>0. /\ Capacity \in Nat \ {0} /\ IdxMod \in Nat \ {0} /\ Capacity < IdxMod
      /\ prod \in 0 .. IdxMod - 1 /\ cons \in 0 .. IdxMod - 1 /\ cons \in Nat
      /\ Available \in 0 .. Capacity /\ Available \in Nat /\ data \in [0 .. Capacity - 1 -> Byte]
      /\ n \in Nat /\ n \in 0 .. IdxMod - 1
  BY PipeFacts
<1>1. Available' = Available - n
  <2>1. n <= (prod - cons) % IdxMod
    BY <1>0 DEF Available
  <2>2. (prod - ((cons + n) % IdxMod)) % IdxMod = ((prod - cons) % IdxMod) - n
    BY <1>0, <2>1, Consume
  <2> QED BY <2>2, Zenon DEF Available
<1>2. Held \in Seq(Byte) /\ Len(Held) = Available
      /\ \A k \in 1 .. Available : Held[k] = data[Idx(cons + k - 1)]
  BY <1>0, BytesType DEF Held
<1>3. Bytes(n) \in Seq(Byte) /\ Len(Bytes(n)) = n
      /\ \A k \in 1 .. n : Bytes(n)[k] = data[Idx(cons + k - 1)]
  BY <1>0, BytesType
<1>4. Bytes(n) = SubSeq(Held, 1, n)
  <2>1. /\ SubSeq(Held, 1, n) \in Seq(Byte) /\ Len(SubSeq(Held, 1, n)) = n
        /\ \A k \in 1 .. n : SubSeq(Held, 1, n)[k] = Held[k]
    BY <1>0, <1>2
  <2>2. \A k \in 1 .. Len(Bytes(n)) : Bytes(n)[k] = SubSeq(Held, 1, n)[k]
    <3> SUFFICES ASSUME NEW k \in 1 .. n PROVE Bytes(n)[k] = SubSeq(Held, 1, n)[k]
      BY <1>3
    <3>1. k \in 1 .. Available
      BY <1>0
    <3> QED BY <3>1, <1>2, <1>3, <2>1, Zenon
  <2> QED BY <1>3, <2>1, <2>2, SameSequence, SMTT(40)
<1> DEFINE r == SubSeq(Held, n + 1, Len(Held))
<1>5. /\ r \in Seq(Byte) /\ Len(r) = Available - n
      /\ \A k \in 1 .. Available - n : r[k] = Held[n + k]
  BY <1>0, <1>2
<1> HIDE DEF r
<1>6. Held' = [k \in 1 .. Available - n |-> data[Idx(cons' + k - 1)]]
  BY <1>1 DEF Held, Bytes, Idx
<1>7. \A k \in 1 .. Available - n : data[Idx(cons' + k - 1)] = r[k]
  <2> SUFFICES ASSUME NEW k \in 1 .. Available - n PROVE data[Idx(cons' + k - 1)] = r[k]
    OBVIOUS
  <2>1. k - 1 \in Int /\ n + k \in 1 .. Available
    BY <1>0
  <2>2. Idx(((cons + n) % IdxMod) + (k - 1)) = Idx(cons + n + (k - 1))
    BY <1>0, <2>1, IdxOfWrapped, Zenon
  <2>3. (cons + n) % IdxMod \in Int
    BY <1>0, ModRange
  <2>4. cons' + k - 1 = ((cons + n) % IdxMod) + (k - 1) /\ cons + (n + k) - 1 = cons + n + (k - 1)
    BY <1>0, <2>3
  <2>5. Idx(cons' + k - 1) = Idx(cons + (n + k) - 1)
    BY <2>2, <2>4
  <2> QED BY <1>2, <1>5, <2>1, <2>5
<1>8. Held' \in Seq(Byte) /\ Len(Held') = Available - n
  <2>1. \A k \in 1 .. Available - n : r[k] \in Byte
    BY <1>5, MemberOf
  <2>2. Held' \in [1 .. Available - n -> Byte]
    BY <1>6, <1>7, <2>1
  <2> QED BY <1>0, <2>2
<1>9. Held' = r
  <2>1. \A k \in 1 .. Len(Held') : Held'[k] = r[k]
    BY <1>6, <1>7, <1>8, Zenon
  <2> QED BY <1>5, <1>8, <2>1, SameSequence
<1> QED BY <1>1, <1>2, <1>4, <1>9 DEF r

\* On the first lap of the indices, and wherever they are as far into a range of int, the
\* first part ends at the end of the buffer.
LEMMA FirstPartRight ==
  ASSUME cons \in Nat, cons % IntMod < Capacity
  PROVE  FirstCopy = Capacity - Idx(cons)
<1> DEFINE c == cons % IntMod
           q == cons \div IntMod
           m == IntMod \div Capacity
<1>1. /\ Capacity \in Nat \ {0} /\ IntMod \in Nat \ {0} /\ IntMod % Capacity = 0
      /\ 2 * Capacity < IntMod /\ IntMod \in Int /\ Capacity \in Int /\ cons \in Int
  BY PipeAssumption
<1>2. c \in 0 .. IntMod - 1 /\ q \in Int /\ cons = q * IntMod + c
  BY <1>1, Division
<1>3. m \in Int /\ IntMod = m * Capacity
  <2>1. IntMod = m * Capacity + (IntMod % Capacity) /\ m \in Int
    BY <1>1, Division, Zenon
  <2> HIDE DEF m
  <2> QED BY <1>1, <2>1
<1>4. c \in 0 .. Capacity - 1
  BY <1>1, <1>2
<1>5. (Capacity - cons) % IntMod = Capacity - c
  <2>1. Capacity % IntMod = Capacity
    BY <1>1, ModSmall
  <2>2. ((Capacity % IntMod) - (cons % IntMod)) % IntMod = (Capacity - cons) % IntMod
    BY <1>1, DistanceOfPlaces, Zenon
  <2> HIDE DEF c
  <2>3. Capacity - c \in 0 .. IntMod - 1
    BY <1>1, <1>4
  <2>4. (Capacity - c) % IntMod = Capacity - c
    BY <1>1, <2>3, ModSmall
  <2> QED BY <2>1, <2>2, <2>4 DEF c
<1> HIDE DEF c, q, m
<1>6. Idx(cons) = c
  <2>1. q * m \in Int /\ cons = (q * m) * Capacity + c
    BY <1>1, <1>2, <1>3, <1>4
  <2> QED BY <1>1, <1>4, <2>1, Remainder DEF Idx
<1> QED BY <1>1, <1>4, <1>5, <1>6 DEF FirstCopy

\* pipe_buf_read returns the next bytes, unless the read is a late one.
LEMMA ReadReturns ==
  ASSUME PipeTypeOK, NEW n \in 0 .. Available, NEW o \in [1 .. n -> Byte],
         CopiedOut(o, n), InOnePiece(n) \/ cons % IntMod < Capacity
  PROVE  o = Bytes(n)
<1>0. /\ Capacity \in Nat \ {0} /\ cons \in Nat /\ Available \in 0 .. Capacity
      /\ data \in [0 .. Capacity - 1 -> Byte] /\ n \in 0 .. Capacity
  BY PipeFacts
<1> DEFINE c == Idx(cons)
           first == IF InOnePiece(n) THEN n ELSE FirstCopy
<1>1. c \in 0 .. Capacity - 1
  BY <1>0, ModRange DEF Idx
<1>2. first = IF c + n <= Capacity THEN n ELSE Capacity - c
  BY FirstPartRight, <1>0 DEF InOnePiece
<1>3. \A k \in 1 .. n : /\ k <= first /\ c + k <= Capacity => o[k] = data[c + k - 1]
                        /\ k > first => o[k] = data[k - first - 1]
  BY DEF CopiedOut
<1>4. \A k \in 1 .. n : Idx(cons + k - 1) = IF c + k <= Capacity THEN c + k - 1
                                                                 ELSE c + k - 1 - Capacity
  <2> SUFFICES ASSUME NEW k \in 1 .. n
               PROVE  Idx(cons + k - 1) = IF c + k <= Capacity THEN c + k - 1
                                                               ELSE c + k - 1 - Capacity
    OBVIOUS
  <2> DEFINE d == cons \div Capacity
  <2>1. d \in Int /\ cons = d * Capacity + c
    BY <1>0, Division DEF Idx
  <2> HIDE DEF c, d
  <2>2. CASE c + k <= Capacity
    <3>1. c + k - 1 \in 0 .. Capacity - 1 /\ cons + k - 1 = d * Capacity + (c + k - 1)
      BY <1>0, <1>1, <2>1, <2>2
    <3>2. (d * Capacity + (c + k - 1)) % Capacity = c + k - 1
      BY <1>0, <2>1, <3>1, Remainder, Zenon
    <3> QED BY <2>2, <3>1, <3>2 DEF Idx
  <2>3. CASE ~(c + k <= Capacity)
    <3>1. c + k - 1 - Capacity \in 0 .. Capacity - 1 /\ d + 1 \in Int
          /\ cons + k - 1 = (d + 1) * Capacity + (c + k - 1 - Capacity)
      BY <1>0, <1>1, <2>1, <2>3
    <3>2. ((d + 1) * Capacity + (c + k - 1 - Capacity)) % Capacity = c + k - 1 - Capacity
      BY <1>0, <3>1, Remainder, Zenon
    <3> QED BY <2>3, <3>1, <3>2 DEF Idx
  <2> QED BY <2>2, <2>3
<1> HIDE DEF c, first
<1>5. \A k \in 1 .. n : o[k] = data[Idx(cons + k - 1)]
  <2> SUFFICES ASSUME NEW k \in 1 .. n PROVE o[k] = data[Idx(cons + k - 1)]
    OBVIOUS
  <2>1. CASE c + k <= Capacity
    <3>1. k <= first
      BY <1>0, <1>1, <1>2, <2>1
    <3> QED BY <1>3, <1>4, <2>1, <3>1
  <2>2. CASE ~(c + k <= Capacity)
    <3>1. k > first /\ k - first - 1 = c + k - 1 - Capacity
      BY <1>0, <1>1, <1>2, <2>2
    <3> QED BY <1>3, <1>4, <2>2, <3>1
  <2> QED BY <2>1, <2>2
<1> QED BY <1>5 DEF Bytes

PipeStep == Stream!Send \/ Stream!Receive \/ (LateRead /\ Stream!Garble)

\* Every step of the pipe is a step of the stream, or invisible.
LEMMA PipeStepRefines ==
  PInv /\ [PipeNext]_pipeVars => [PipeStep]_(Stream!streamVars)
<1> SUFFICES ASSUME PInv, [PipeNext]_pipeVars
             PROVE  [PipeStep]_(Stream!streamVars)
  OBVIOUS
<1>0. PipeTypeOK
  BY DEF PInv
<1>1. /\ Capacity \in Nat /\ Available \in 0 .. Capacity /\ IdxMod \in Nat \ {0}
      /\ prod \in 0 .. IdxMod - 1 /\ cons \in 0 .. IdxMod - 1
      /\ wr \in Call /\ rd \in Call /\ data \in [0 .. Capacity - 1 -> Byte]
  BY <1>0, PipeFacts DEF PipeTypeOK
<1>2. Len(Held) = Available
  BY <1>0, <1>1, PipeFacts, BytesType DEF Held
<1>3. ASSUME NEW c \in 0 .. Capacity, NEW s \in [1 .. c -> Byte], WriteRound(s)
      PROVE  [PipeStep]_(Stream!streamVars)
  <2> DEFINE n == Least(FreeSpace, wr.iov[1])
  <2>1. /\ Len(s) = n /\ data' = Written(s) /\ prod' = (prod + n) % IdxMod /\ cons' = cons
        /\ bytes_in' = IF n > 0 THEN s ELSE bytes_in
        /\ bytes_out' = bytes_out /\ wr.iov # <<>>
    BY <1>3 DEF WriteRound
  <2>2. s \in Seq(Byte) /\ Len(s) = c
    BY <1>3
  <2>3. wr.iov[1] \in Nat
    BY <1>1, <2>1, SMTT(40) DEF Call
  <2>4. n <= FreeSpace /\ n = c /\ FreeSpace = Capacity - Available
    BY <1>1, <2>1, <2>2, <2>3 DEF Least, FreeSpace
  <2> HIDE DEF n
  <2>5. Held' = Held \o s
    BY <1>0, <2>1, <2>2, <2>4, WriteAppends
  <2>6. CASE n > 0
    <3>1. n \in 1 .. Capacity - Len(Held) /\ s \in [1 .. n -> Byte] /\ bytes_in' = s
      BY <1>1, <1>2, <1>3, <2>1, <2>4, <2>6
    <3>2. Stream!Send
      BY <2>1, <2>5, <3>1, Zenon DEF Stream!Send, Held
    <3> QED BY <3>2 DEF PipeStep
  <2>7. CASE ~(n > 0)
    <3>1. n = 0 /\ s = <<>>
      BY <1>3, <2>2, <2>4, <2>7
    <3>2. Held' = Held
      BY <1>0, <1>1, <2>5, <3>1, PipeFacts, BytesType DEF Held
    <3> QED BY <2>1, <3>1, <3>2 DEF Stream!streamVars, Held
  <2> QED BY <2>6, <2>7
<1>4. ASSUME NEW c \in 0 .. Capacity, NEW o \in [1 .. c -> Byte], ReadRound(o)
      PROVE  [PipeStep]_(Stream!streamVars)
  <2> DEFINE n == Least(Available, rd.iov[1])
  <2>1. /\ data' = data /\ prod' = prod /\ cons' = (cons + n) % IdxMod
        /\ bytes_out' = IF n > 0 THEN o ELSE bytes_out
        /\ bytes_in' = bytes_in /\ rd.iov # <<>> /\ Len(o) = n /\ CopiedOut(o, n)
    BY <1>4 DEF ReadRound
  <2>2. rd.iov[1] \in Nat
    BY <1>1, <2>1 DEF Call
  <2>3. n \in 0 .. Available
    BY <1>1, <2>2 DEF Least
  <2> HIDE DEF n
  <2>4. n = c /\ o \in [1 .. n -> Byte]
    BY <1>4, <2>1
  <2>5. Bytes(n) = SubSeq(Held, 1, n) /\ Held' = SubSeq(Held, n + 1, Len(Held))
        /\ Available' = Available - n
    BY <1>0, <2>1, <2>3, ReadTakes
  <2>6. CASE n > 0
    <3>1. n \in 1 .. Len(Held) /\ bytes_out' = o
      BY <1>1, <1>2, <2>1, <2>3, <2>6
    <3>2. CASE InOnePiece(n) \/ cons % IntMod < Capacity
      <4>1. o = SubSeq(Held, 1, n)
        BY <1>0, <2>1, <2>3, <2>4, <2>5, <3>2, ReadReturns
      <4>2. Stream!Receive
        BY <2>1, <2>5, <3>1, <4>1 DEF Stream!Receive, Held
      <4> QED BY <4>2 DEF PipeStep
    <3>3. CASE ~(InOnePiece(n) \/ cons % IntMod < Capacity)
      <4>1. cons % IntMod \in Int /\ Available - Available' = n
        BY <1>1, <2>3, <2>5, PipeAssumption
      <4>2. LateRead
        BY <1>1, <3>3, <4>1 DEF LateRead
      <4>3. Stream!Garble
        BY <2>1, <2>4, <2>5, <3>1, Zenon DEF Stream!Garble, Held
      <4> QED BY <4>2, <4>3 DEF PipeStep
    <3> QED BY <3>2, <3>3
  <2>7. CASE ~(n > 0)
    <3>1. n = 0
      BY <1>1, <2>3, <2>7
    <3>2. cons' = cons
      BY <1>1, <2>1, <3>1, ModSmall
    <3>3. Held' = Held
      BY <2>1, <3>2 DEF Held, Bytes, Available, Idx
    <3> QED BY <2>1, <3>1, <3>3 DEF Stream!streamVars, Held
  <2> QED BY <2>6, <2>7
\* Every other step leaves the buffer and the bytes alone.
<1>5. ASSUME UNCHANGED <<data, prod, cons, bytes_in, bytes_out>>
      PROVE  [PipeStep]_(Stream!streamVars)
  <2>1. Held' = Held
    BY <1>5 DEF Held, Bytes, Available, Idx
  <2> QED BY <1>5, <2>1 DEF Stream!streamVars, Held
<1>6. ASSUME NEW iov, WriteBegin(iov) PROVE [PipeStep]_(Stream!streamVars)
  BY <1>5, <1>6 DEF WriteBegin
<1>7. ASSUME NEW iov, NEW nb, ReadBegin(iov, nb)
      PROVE  [PipeStep]_(Stream!streamVars)
  BY <1>5, <1>7 DEF ReadBegin
<1>8. CASE WriteWait \/ WriteResume \/ WriteReturn \/ ReadWait \/ ReadResume \/ ReadReturn
             \/ CloseRead \/ CloseWrite \/ ReadFault \/ UNCHANGED pipeVars
  <2>1. UNCHANGED <<data, prod, cons, bytes_in, bytes_out>>
    BY <1>8 DEF WriteWait, WriteResume, WriteReturn, ReadWait, ReadResume, ReadReturn,
                CloseRead, CloseWrite, ReadFault, pipeVars
  <2> QED BY <1>5, <2>1
<1> QED
  BY <1>3, <1>4, <1>6, <1>7, <1>8 DEF PipeNext, Writing, Reading

\* A pipe of any capacity takes bytes in the order in which they were written, each once,
\* across the end of the buffer and of the indices, and never more than the capacity are on
\* the way; and a read returns the bytes it takes, but for those that go around the end of
\* the buffer on a lap where the first part of the copy has the wrong size.
THEOREM PipeImplementsStream == PipeSpec => StreamOfBytes
<1>1. PipeInit => Stream!StreamInit
  <2> SUFFICES ASSUME PipeInit PROVE Stream!StreamInit
    OBVIOUS
  <2>1. PipeTypeOK
    BY InitP DEF PInv
  <2>2. Available = 0 /\ cons \in Nat
    BY <2>1, PipeFacts, ModSmall DEF PipeInit, Available
  <2>3. Len(Held) = 0 /\ Held \in Seq(Byte)
    BY <2>1, <2>2, PipeFacts, BytesType DEF Held
  <2>4. Held = <<>>
    BY <2>3
  <2> QED BY <2>4 DEF Stream!StreamInit, PipeInit, Held
<1> QED
  BY <1>1, PipeInvariance, PipeStepRefines, PTL DEF PipeSpec, StreamOfBytes, PipeStep

-----------------------------------------------------------------------------
(* Mailboxes.                                                              *)

\* The positions and the number of messages between them.
LEMMA UsedValue ==
  ASSUME Size \in Nat, NEW r \in 0..Size, NEW w \in 0..Size
  PROVE  (w + len - r) % len = IF r <= w THEN w - r ELSE w - r + len
<1>0. len \in Nat \ {0} /\ len = Size + 1
  BY DEF len
<1>1. CASE r <= w
  <2>1. w + len - r \in len .. 2 * len - 1
    BY <1>0, <1>1
  <2> QED BY <1>0, <1>1, <2>1, ModAbove
<1>2. CASE r > w
  <2>1. w + len - r \in 0 .. len - 1
    BY <1>0, <1>2
  <2> QED BY <1>0, <1>2, <2>1, ModSmall
<1> QED BY <1>1, <1>2

\* The slot that is n after position x.
LEMMA SlotValue ==
  ASSUME Size \in Nat, NEW x \in 0..Size, NEW n \in 0..Size
  PROVE  (x + n) % len = IF x + n < len THEN x + n ELSE x + n - len
<1>1. len \in Nat \ {0} /\ x \in 0 .. len - 1 /\ n \in 0 .. len - 1
  BY DEF len
<1> QED BY <1>1, IndexStep, Zenon

\* A ring with a free slot, after a message has been put into it, ...
LEMMA UsedPut ==
  ASSUME Size \in Nat, NEW r \in 0..Size, NEW w \in 0..Size, NEW v,
         v = (w + 1) % len, (w + len - r) % len < Size
  PROVE  v \in 0..Size /\ (v + len - r) % len = ((w + len - r) % len) + 1 /\ v # r
<1>0. len = Size + 1 /\ len \in Nat
  BY DEF len
<1>1. 1 \in 0..Size
  BY UsedValue, <1>0
<1>2. v = IF w + 1 < len THEN w + 1 ELSE w + 1 - len
  BY <1>1, SlotValue
<1>3. v \in 0..Size
  BY <1>0, <1>2
<1>4. (v + len - r) % len = IF r <= v THEN v - r ELSE v - r + len
  BY <1>3, UsedValue
<1>5. (w + len - r) % len = IF r <= w THEN w - r ELSE w - r + len
  BY UsedValue
<1> QED BY <1>0, <1>2, <1>3, <1>4, <1>5

\* ... and one with a message, after it has been taken.
LEMMA UsedGet ==
  ASSUME Size \in Nat, NEW r \in 0..Size, NEW w \in 0..Size, NEW v,
         v = (r + 1) % len, (w + len - r) % len > 0
  PROVE  v \in 0..Size /\ (w + len - v) % len = ((w + len - r) % len) - 1 /\ r # w
<1>0. len = Size + 1 /\ len \in Nat
  BY DEF len
<1>1. 1 \in 0..Size
  BY UsedValue, <1>0
<1>2. v = IF r + 1 < len THEN r + 1 ELSE r + 1 - len
  BY <1>1, SlotValue
<1>3. v \in 0..Size
  BY <1>0, <1>2
<1>4. (w + len - v) % len = IF v <= w THEN w - v ELSE w - v + len
  BY <1>3, UsedValue
<1>5. (w + len - r) % len = IF r <= w THEN w - r ELSE w - r + len
  BY UsedValue
<1> QED BY <1>0, <1>2, <1>3, <1>4, <1>5

\* Where the running thread is, as the number of tokens it has taken and not given back.
Here(p) == IF pc[running] = p THEN 1 ELSE 0

\* The invariant without counting.
Tokens ==
  /\ Used = readsem + Here("written") + Here("read")
  /\ Size = Used + writesem + Here("write") + Here("emptied")

RingInv == MboxTypeOK /\ Tokens /\ CallsExact

\* A mailbox begins empty, with all its tokens in writesem.
LEMMA MboxInitInv == MboxInit => RingInv
<1> SUFFICES ASSUME MboxInit PROVE MboxTypeOK /\ Tokens /\ CallsExact
  BY DEF RingInv
<1>1. Size \in Nat /\ 0 \in 0..Size
  BY MboxAssumption
<1>2. MboxTypeOK /\ CallsExact
  BY <1>1 DEF MboxInit, MboxTypeOK, CallsExact, ReadSem!AbsInit, WriteSem!AbsInit, Pcs
<1>3. Used = 0
  BY <1>1, UsedValue DEF Used, MboxInit
<1>4. pc[running] = "out"
  BY DEF MboxInit
<1> QED BY <1>1, <1>2, <1>3, <1>4 DEF Tokens, Here, MboxInit, ReadSem!AbsInit, WriteSem!AbsInit

\* A step of the running thread that leaves the ring alone.
LEMMA MboxCallStep ==
  ASSUME MboxTypeOK, Tokens, CallsExact, UNCHANGED <<ringVars, running>>,
         NEW p \in Pcs, pc' = [pc EXCEPT ![running] = p],
         readsem' \in Nat, writesem' \in Nat,
         {readcall', writecall'} \subseteq [Thread -> {"none", "down", "down_to"}],
         hand' = hand \/ \E m \in Msg \cup {NoMsg} : hand' = [hand EXCEPT ![running] = m],
         got' = got \/ got' = [got EXCEPT ![running] = NoMsg],
         p \in {"post", "write"} => hand'[running] \in Msg,
         readsem' + (IF p = "written" THEN 1 ELSE 0) + (IF p = "read" THEN 1 ELSE 0)
           = readsem + Here("written") + Here("read"),
         writesem' + (IF p = "write" THEN 1 ELSE 0) + (IF p = "emptied" THEN 1 ELSE 0)
           = writesem + Here("write") + Here("emptied")
  PROVE  RingInv'
<1>1. running \in Thread /\ pc \in [Thread -> Pcs] /\ hand \in [Thread -> Msg \cup {NoMsg}]
  BY DEF MboxTypeOK
<1>2. MboxTypeOK'
  BY <1>1 DEF MboxTypeOK, ringVars
<1>3. Used \in Int /\ Size \in Nat
  BY MboxAssumption, UsedValue DEF MboxTypeOK, Used, len
<1>4. Used' = Used
  BY DEF Used, ringVars, len
<1>5. pc'[running'] = p
  BY <1>1
<1>6. readsem \in Nat /\ writesem \in Nat
  BY DEF MboxTypeOK
<1>7. Tokens'
  <2>1. Used' = readsem' + Here("written")' + Here("read")'
    BY <1>4, <1>5 DEF Tokens, Here
  <2>2. Size = Used' + writesem' + Here("write")' + Here("emptied")'
    <3>1. Here("write")' = (IF p = "write" THEN 1 ELSE 0)
          /\ Here("emptied")' = (IF p = "emptied" THEN 1 ELSE 0)
      BY <1>5 DEF Here
    <3>2. Here("write") \in {0, 1} /\ Here("emptied") \in {0, 1}
      BY DEF Here
    <3>3. Size = Used + (writesem + Here("write") + Here("emptied"))
      BY <1>3, <1>6, <3>2 DEF Tokens
    <3> QED BY <1>3, <1>4, <1>6, <3>1, <3>2, <3>3
  <2> QED BY <2>1, <2>2 DEF Tokens
<1>8. \A t \in Thread : t # running => pc'[t] = pc[t] /\ hand'[t] = hand[t]
  BY <1>1
<1>9. CallsExact'
  BY <1>1, <1>8 DEF CallsExact
<1> QED BY <1>2, <1>7, <1>9 DEF RingInv

\* The section of _do_mbox_post: there is room, so the message goes into a free slot.
LEMMA PutStep ==
  ASSUME MboxTypeOK, Used < Size, NEW m, put(m)
  PROVE  /\ readpos' \in 0..Size /\ writepos' \in 0..Size
         /\ m \in Msg \cup {NoMsg} => msgs' \in [0..Size -> Msg \cup {NoMsg}]
         /\ Used' = Used + 1
<1>1. Size \in Nat /\ readpos \in 0..Size /\ writepos \in 0..Size
  BY MboxAssumption DEF MboxTypeOK
<1> QED BY <1>1, UsedPut DEF put, Used, MboxTypeOK

\* The section of _do_mbox_recv: there is a message.
LEMMA GetStep ==
  ASSUME MboxTypeOK, Used > 0, NEW c \in Thread \cup {Irq}, get(c)
  PROVE  /\ readpos' \in 0..Size /\ UNCHANGED <<writepos, msgs>>
         /\ got' \in [Thread \cup {Irq} -> Msg \cup {NoMsg}]
         /\ Used' = Used - 1
<1>1. Size \in Nat /\ readpos \in 0..Size /\ writepos \in 0..Size
  BY MboxAssumption DEF MboxTypeOK
<1>2. readpos' \in 0..Size /\ Used' = Used - 1
  BY <1>1, UsedGet DEF get, Used
<1>3. got' \in [Thread \cup {Irq} -> Msg \cup {NoMsg}]
  BY <1>1 DEF get, MboxTypeOK
<1> QED BY <1>2, <1>3 DEF get

\* Who holds a token for a slot finds one, who holds one for a message finds a message.
LEMMA TokenMeans ==
  ASSUME MboxTypeOK, Tokens
  PROVE  /\ Used \in Nat /\ Size \in Nat
         /\ pc[running] = "write" \/ writesem > 0 => Used < Size
         /\ pc[running] = "read" \/ readsem > 0 => Used > 0
<1>1. /\ Size \in Nat /\ readpos \in 0..Size /\ writepos \in 0..Size
      /\ readsem \in Nat /\ writesem \in Nat
  BY MboxAssumption DEF MboxTypeOK
<1>2. Used \in Nat
  BY <1>1, UsedValue DEF Used, len
<1>3. \A q \in Pcs : Here(q) \in {0, 1}
  BY DEF Here
<1>4. pc[running] = "write" => Here("write") = 1
  BY DEF Here
<1>5. pc[running] = "read" => Here("read") = 1
  BY DEF Here
<1> QED BY <1>1, <1>2, <1>3, <1>4, <1>5 DEF Tokens, Pcs

\* The steps of a post preserve the invariant.
LEMMA PostStepInv ==
  ASSUME MboxTypeOK, Tokens, CallsExact, NEW t \in Thread, PostStep(t)
  PROVE  RingInv'
<1> USE DEF Runs, Goto, readVars, writeVars
<1>0. /\ readsem \in Nat /\ writesem \in Nat /\ pc \in [Thread -> Pcs]
      /\ {readcall, writecall} \subseteq [Thread -> {"none", "down", "down_to"}]
      /\ hand \in [Thread -> Msg \cup {NoMsg}]
  BY DEF MboxTypeOK
<1>1. ASSUME NEW m \in Msg, PostTry(t, m) PROVE RingInv'
  <2>1. /\ Here("write") = 0 /\ Here("written") = 0 /\ Here("read") = 0 /\ Here("emptied") = 0
        /\ running = t /\ UNCHANGED <<ringVars, running, readsem, readcall, writecall, got>>
        /\ writesem' = writesem - 1 /\ writesem > 0 /\ pc' = [pc EXCEPT ![running] = "write"]
        /\ hand' = [hand EXCEPT ![running] = m]
    BY <1>1 DEF PostTry, WriteSem!Try, Here
  <2>2. /\ writesem' \in Nat
        /\ readsem' + (IF "write" = "written" THEN 1 ELSE 0) + (IF "write" = "read" THEN 1 ELSE 0)
             = readsem + Here("written") + Here("read")
        /\ writesem' + (IF "write" = "write" THEN 1 ELSE 0) + (IF "write" = "emptied" THEN 1 ELSE 0)
             = writesem + Here("write") + Here("emptied")
    BY <1>0, <2>1
  <2>3. hand'[running] \in Msg /\ \E x \in Msg \cup {NoMsg} : hand' = [hand EXCEPT ![running] = x]
    BY <1>0, <2>1, Zenon
  <2>4. "write" \in Pcs
    BY DEF Pcs
  <2>5. /\ {readcall', writecall'} \subseteq [Thread -> {"none", "down", "down_to"}]
        /\ readsem' \in Nat
    BY <1>0, <2>1
  <2> QED BY <2>1, <2>2, <2>3, <2>4, <2>5, MboxCallStep, Zenon
<1>2. ASSUME NEW m \in Msg, NEW k \in {"down", "down_to"}, Post(t, m, k) PROVE RingInv'
  <2>1. /\ Here("write") = 0 /\ Here("written") = 0 /\ Here("read") = 0 /\ Here("emptied") = 0
        /\ running = t /\ UNCHANGED <<ringVars, running, readsem, writesem, readcall, got>>
        /\ writecall' = [writecall EXCEPT ![t] = k] /\ pc' = [pc EXCEPT ![running] = "post"]
        /\ hand' = [hand EXCEPT ![running] = m]
    BY <1>2 DEF Post, WriteSem!Down, Here
  <2>2. /\ {readcall', writecall'} \subseteq [Thread -> {"none", "down", "down_to"}]
        /\ hand'[running] \in Msg /\ "post" \in Pcs
        /\ \E x \in Msg \cup {NoMsg} : hand' = [hand EXCEPT ![running] = x]
    BY <1>0, <2>1, Zenon DEF Pcs
  <2> QED BY <1>0, <2>1, <2>2, MboxCallStep, Zenon
<1>3. CASE PostTimeout(t)
  <2>1. /\ Here("write") = 0 /\ Here("written") = 0 /\ Here("read") = 0 /\ Here("emptied") = 0
        /\ running = t /\ UNCHANGED <<ringVars, running, readsem, writesem, readcall, got>>
        /\ writecall' = [writecall EXCEPT ![t] = "none"] /\ pc' = [pc EXCEPT ![running] = "out"]
        /\ hand' = [hand EXCEPT ![running] = NoMsg]
    BY <1>3 DEF PostTimeout, WriteSem!GiveUp, Here
  <2>2. {readcall', writecall'} \subseteq [Thread -> {"none", "down", "down_to"}]
    BY <1>0, <2>1
  <2> QED BY <1>0, <2>1, <2>2, MboxCallStep, Zenon DEF Pcs
<1>4. CASE PostGranted(t)
  <2>1. /\ Here("write") = 0 /\ Here("written") = 0 /\ Here("read") = 0 /\ Here("emptied") = 0
        /\ running = t /\ UNCHANGED <<ringVars, running, readsem, readcall, got, hand>>
        /\ writesem' = writesem - 1 /\ writesem > 0
        /\ writecall' = [writecall EXCEPT ![t] = "none"] /\ pc' = [pc EXCEPT ![running] = "write"]
    BY <1>4, SMTT(30) DEF PostGranted, WriteSem!Take, Here
  <2>2. hand[running] \in Msg
    BY <1>4 DEF CallsExact, PostGranted
  <2> QED BY <1>0, <2>1, <2>2, MboxCallStep DEF Pcs
<1>5. CASE PostWrite(t)
  <2>1. /\ running = t /\ pc[t] = "write" /\ put(hand[t]) /\ hand[t] \in Msg
        /\ hand' = [hand EXCEPT ![t] = NoMsg] /\ pc' = [pc EXCEPT ![t] = "written"]
        /\ UNCHANGED <<running, semVars, got>>
    BY <1>5 DEF PostWrite, CallsExact
  <2>2. Used < Size /\ Used \in Nat /\ Size \in Nat
    BY <2>1, TokenMeans
  <2>3. /\ readpos' \in 0..Size /\ writepos' \in 0..Size /\ Used' = Used + 1
        /\ msgs' \in [0..Size -> Msg \cup {NoMsg}]
    BY <2>1, <2>2, PutStep
  <2>4. MboxTypeOK'
    BY <2>1, <2>3 DEF MboxTypeOK, semVars, Pcs
  <2>5. Tokens'
    BY <1>0, <2>1, <2>2, <2>3 DEF Tokens, Here, semVars
  <2>6. CallsExact'
    BY <1>0, <2>1 DEF CallsExact
  <2> QED BY <2>4, <2>5, <2>6 DEF RingInv
<1>6. CASE PostUp(t)
  <2>1. /\ Here("write") = 0 /\ Here("written") = 1 /\ Here("read") = 0 /\ Here("emptied") = 0
        /\ running = t
        /\ UNCHANGED <<ringVars, running, writesem, readcall, writecall, got, hand>>
        /\ readsem' = readsem + 1 /\ pc' = [pc EXCEPT ![running] = "out"]
    BY <1>6 DEF PostUp, ReadSem!Up, Here
  <2> QED BY <1>0, <2>1, MboxCallStep DEF Pcs
<1> QED BY <1>1, <1>2, <1>3, <1>4, <1>5, <1>6 DEF PostStep

\* And so do those of a receive.
LEMMA RecvStepInv ==
  ASSUME MboxTypeOK, Tokens, CallsExact, NEW t \in Thread, RecvStep(t)
  PROVE  RingInv'
<1> USE DEF Runs, Goto, readVars, writeVars
<1>0. /\ readsem \in Nat /\ writesem \in Nat /\ pc \in [Thread -> Pcs]
      /\ {readcall, writecall} \subseteq [Thread -> {"none", "down", "down_to"}]
      /\ hand \in [Thread -> Msg \cup {NoMsg}]
  BY DEF MboxTypeOK
<1>1. CASE RecvTry(t)
  <2>1. /\ Here("write") = 0 /\ Here("written") = 0 /\ Here("read") = 0 /\ Here("emptied") = 0
        /\ running = t
        /\ UNCHANGED <<ringVars, running, writesem, readcall, writecall, hand, got>>
        /\ readsem' = readsem - 1 /\ readsem > 0 /\ pc' = [pc EXCEPT ![running] = "read"]
    BY <1>1 DEF RecvTry, ReadSem!Try, Here
  <2> QED BY <1>0, <2>1, MboxCallStep DEF Pcs
<1>2. ASSUME NEW k \in {"down", "down_to"}, Recv(t, k) PROVE RingInv'
  <2>1. /\ Here("write") = 0 /\ Here("written") = 0 /\ Here("read") = 0 /\ Here("emptied") = 0
        /\ running = t /\ UNCHANGED <<ringVars, running, readsem, writesem, writecall, hand>>
        /\ readcall' = [readcall EXCEPT ![t] = k] /\ pc' = [pc EXCEPT ![running] = "recv"]
        /\ got' = [got EXCEPT ![running] = NoMsg]
    BY <1>2 DEF Recv, ReadSem!Down, Here
  <2> QED BY <1>0, <2>1, MboxCallStep DEF Pcs
<1>3. CASE RecvTimeout(t)
  <2>1. /\ Here("write") = 0 /\ Here("written") = 0 /\ Here("read") = 0 /\ Here("emptied") = 0
        /\ running = t /\ UNCHANGED <<ringVars, running, readsem, writesem, writecall, hand>>
        /\ readcall' = [readcall EXCEPT ![t] = "none"] /\ pc' = [pc EXCEPT ![running] = "out"]
        /\ got' = [got EXCEPT ![running] = NoMsg]
    BY <1>3 DEF RecvTimeout, ReadSem!GiveUp, Here
  <2> QED BY <1>0, <2>1, MboxCallStep DEF Pcs
<1>4. CASE RecvGranted(t)
  <2>1. /\ Here("write") = 0 /\ Here("written") = 0 /\ Here("read") = 0 /\ Here("emptied") = 0
        /\ running = t /\ UNCHANGED <<ringVars, running, writesem, writecall, got, hand>>
        /\ readsem' = readsem - 1 /\ readsem > 0
        /\ readcall' = [readcall EXCEPT ![t] = "none"] /\ pc' = [pc EXCEPT ![running] = "read"]
    BY <1>4 DEF RecvGranted, ReadSem!Take, Here
  <2> QED BY <1>0, <2>1, MboxCallStep DEF Pcs
<1>5. CASE RecvRead(t)
  <2>1. /\ running = t /\ pc[t] = "read" /\ get(t) /\ pc' = [pc EXCEPT ![t] = "emptied"]
        /\ UNCHANGED <<running, semVars, hand>>
    BY <1>5 DEF RecvRead
  <2>2. Used > 0 /\ Used \in Nat /\ Size \in Nat
    BY <2>1, TokenMeans
  <2>3. /\ readpos' \in 0..Size /\ UNCHANGED <<writepos, msgs>> /\ Used' = Used - 1
        /\ got' \in [Thread \cup {Irq} -> Msg \cup {NoMsg}]
    BY <2>1, <2>2, GetStep
  <2>4. MboxTypeOK'
    BY <2>1, <2>3, Zenon DEF MboxTypeOK, semVars, Pcs
  <2>5. Tokens'
    BY <1>0, <2>1, <2>2, <2>3 DEF Tokens, Here, semVars
  <2>6. CallsExact'
    BY <1>0, <2>1 DEF CallsExact
  <2> QED BY <2>4, <2>5, <2>6 DEF RingInv
<1>6. CASE RecvUp(t)
  <2>1. /\ Here("write") = 0 /\ Here("written") = 0 /\ Here("read") = 0 /\ Here("emptied") = 1
        /\ running = t
        /\ UNCHANGED <<ringVars, running, readsem, readcall, writecall, got, hand>>
        /\ writesem' = writesem + 1 /\ pc' = [pc EXCEPT ![running] = "out"]
    BY <1>6 DEF RecvUp, WriteSem!Up, Here
  <2> QED BY <1>0, <2>1, MboxCallStep DEF Pcs
<1> QED BY <1>1, <1>2, <1>3, <1>4, <1>5, <1>6 DEF RecvStep

\* A step of a thread, of the scheduler or of an interrupt handler, which may come
\* between any two steps of a call, preserves the invariant.
LEMMA MboxNextInv == RingInv /\ [MboxNext]_mboxVars => RingInv'
<1> SUFFICES ASSUME MboxTypeOK, Tokens, CallsExact, [MboxNext]_mboxVars PROVE RingInv'
  BY DEF RingInv
<1>0. /\ readsem \in Nat /\ writesem \in Nat /\ pc \in [Thread -> Pcs]
  BY DEF MboxTypeOK
<1>1. ASSUME NEW t \in Thread, Dispatch(t) PROVE RingInv'
  <2>1. \A u \in Thread : pc[u] \notin {"write", "written", "read", "emptied"}
    BY <1>1 DEF Dispatch, CallsExact
  <2>2. MboxTypeOK' /\ CallsExact'
    BY <1>1, <2>1 DEF Dispatch, CallsExact, MboxTypeOK, semVars, ringVars
  <2>3. Used' = Used /\ \A p \in {"write", "written", "read", "emptied"} : Here(p)' = Here(p)
    BY <1>1, <2>1 DEF Dispatch, ringVars, Used, len, Here, MboxTypeOK
  <2>4. Tokens'
    BY <1>1, <2>3 DEF Dispatch, Tokens, semVars
  <2> QED BY <2>2, <2>4 DEF RingInv
<1>2. ASSUME NEW m \in Msg, IrqPost(m) PROVE RingInv'
  <2>1. /\ writesem > 0 /\ writesem' = writesem - 1 /\ readsem' = readsem + 1 /\ put(m)
        /\ UNCHANGED <<readcall, writecall, pc, hand, got, running>>
    BY <1>2 DEF IrqPost, WriteSem!Try, ReadSem!Up
  <2>2. Used < Size /\ Used \in Nat /\ Size \in Nat
    BY <2>1, TokenMeans
  <2>3. /\ readpos' \in 0..Size /\ writepos' \in 0..Size /\ Used' = Used + 1
        /\ msgs' \in [0..Size -> Msg \cup {NoMsg}]
    BY <2>1, <2>2, PutStep, SMTT(30)
  <2>7. readsem' \in Nat /\ writesem' \in Nat
    BY ONLY <1>0, <2>1
  <2>4. MboxTypeOK'
    BY <2>7, <2>1, <2>3, Zenon DEF MboxTypeOK
  <2>6. CallsExact'
    BY <2>1, Zenon DEF CallsExact
  <2>5. Tokens'
    BY <1>0, <2>1, <2>2, <2>3 DEF Tokens, Here
  <2> QED BY <2>4, <2>5, <2>6 DEF RingInv
<1>3. CASE IrqRecv
  <2>1. /\ readsem > 0 /\ readsem' = readsem - 1 /\ writesem' = writesem + 1 /\ get(Irq)
        /\ UNCHANGED <<readcall, writecall, pc, hand, running>>
    BY <1>3 DEF IrqRecv, ReadSem!Try, WriteSem!Up
  <2>2. Used > 0 /\ Used \in Nat /\ Size \in Nat
    BY <2>1, TokenMeans
  <2>3. /\ readpos' \in 0..Size /\ UNCHANGED <<writepos, msgs>> /\ Used' = Used - 1
        /\ got' \in [Thread \cup {Irq} -> Msg \cup {NoMsg}]
    BY <2>1, <2>2, GetStep, ZenonT(30)
  <2>7. readsem' \in Nat /\ writesem' \in Nat
    BY ONLY <1>0, <2>1
  <2>4. MboxTypeOK'
    BY <2>7, <2>1, <2>3, Zenon DEF MboxTypeOK
  <2>6. CallsExact'
    BY <2>1, Zenon DEF CallsExact
  <2>5. Tokens'
    BY <1>0, <2>1, <2>2, <2>3 DEF Tokens, Here
  <2> QED BY <2>4, <2>5, <2>6 DEF RingInv
<1>4. CASE UNCHANGED mboxVars
  <2>1. MboxTypeOK' /\ CallsExact' /\ Tokens'
    BY <1>4 DEF mboxVars, semVars, ringVars, MboxTypeOK, CallsExact, Tokens, Used, len, Here
  <2> QED BY <2>1 DEF RingInv
<1> QED BY <1>1, <1>2, <1>3, <1>4, PostStepInv, RecvStepInv DEF MboxNext

-----------------------------------------------------------------------------
(* A mailbox is a bounded FIFO queue.                                      *)

\* The messages in the ring, in order; what Fifo's queue stands for.
Contents == [i \in 1..Used |-> msgs[(readpos + i - 1) % len]]

\* The i-th slot after the reader, for every i that the ring has.
LEMMA SlotOf ==
  ASSUME Size \in Nat, NEW r \in 0..Size, NEW i \in 1 .. Size + 1
  PROVE  /\ (r + i - 1) % len = IF r + i - 1 < len THEN r + i - 1 ELSE r + i - 1 - len
         /\ (r + i - 1) % len \in 0..Size
<1>1. i - 1 \in 0..Size /\ r + (i - 1) = r + i - 1 /\ len = Size + 1
  BY DEF len
<1>2. (r + (i - 1)) % len = IF r + (i - 1) < len THEN r + (i - 1) ELSE r + (i - 1) - len
  BY <1>1, SlotValue, Zenon
<1> QED BY <1>1, <1>2

LEMMA ContentsType ==
  ASSUME MboxTypeOK
  PROVE  Contents \in Seq(Msg \cup {NoMsg}) /\ Len(Contents) = Used /\ Used \in 0..Size
<1>1. Size \in Nat /\ readpos \in 0..Size /\ writepos \in 0..Size
  BY MboxAssumption DEF MboxTypeOK
<1>2. Used \in 0..Size
  BY <1>1, UsedValue DEF Used, len
<1>3. ASSUME NEW i \in 1..Used PROVE msgs[(readpos + i - 1) % len] \in Msg \cup {NoMsg}
  <2>1. i \in 1 .. Size + 1
    BY <1>1, <1>2
  <2>2. (readpos + i - 1) % len \in 0..Size
    BY <1>1, <2>1, SlotOf, Zenon
  <2> QED BY <2>2 DEF MboxTypeOK
<1> QED BY <1>2, <1>3 DEF Contents

\* _do_mbox_post appends.
LEMMA PutAppends ==
  ASSUME MboxTypeOK, Used < Size, NEW m \in Msg, put(m)
  PROVE  Contents' = Append(Contents, m)
<1>1. Size \in Nat /\ readpos \in 0..Size /\ writepos \in 0..Size /\ len = Size + 1
  BY MboxAssumption DEF MboxTypeOK, len
<1>2. Used' = Used + 1 /\ Used \in 0 .. Size - 1
  BY <1>1, PutStep, ContentsType
<1>3. Used = IF readpos <= writepos THEN writepos - readpos ELSE writepos - readpos + len
  BY <1>1, UsedValue DEF Used
<1>4. readpos' = readpos /\ msgs' = [msgs EXCEPT ![writepos] = m]
  BY DEF put
<1>5. (readpos + (Used + 1) - 1) % len = writepos
  BY <1>1, <1>2, <1>3, SlotOf
<1>6. \A i \in 1..Used : (readpos + i - 1) % len \in 0..Size \ {writepos}
  BY <1>1, <1>2, <1>3, SlotOf
<1>7. Contents' = [i \in 1 .. Used + 1 |-> msgs'[(readpos + i - 1) % len]]
  BY <1>2, <1>4 DEF Contents, len
<1>8. msgs \in [0..Size -> Msg \cup {NoMsg}]
  BY DEF MboxTypeOK
<1>9. Contents \in Seq(Msg \cup {NoMsg}) /\ Len(Contents) = Used
  BY ContentsType
<1>10. /\ Append(Contents, m) \in Seq(Msg \cup {NoMsg})
       /\ Len(Append(Contents, m)) = Used + 1
       /\ Append(Contents, m)[Used + 1] = m
       /\ \A i \in 1..Used : Append(Contents, m)[i] = msgs[(readpos + i - 1) % len]
  BY <1>9, <1>2 DEF Contents
<1>11. ASSUME NEW i \in 1 .. Used + 1
       PROVE  msgs'[(readpos + i - 1) % len] = Append(Contents, m)[i]
  <2>1. CASE i = Used + 1
    BY <1>1, <1>4, <1>5, <1>8, <1>10, <2>1
  <2>2. CASE i # Used + 1
    <3>1. i \in 1..Used
      BY <1>2, <2>2
    <3> QED BY <1>4, <1>6, <1>8, <1>10, <3>1
  <2> QED BY <2>1, <2>2, Zenon
<1>12. Contents' \in Seq(Msg \cup {NoMsg}) /\ Len(Contents') = Used + 1
  <2>0. \A i \in 1 .. Used + 1 : Append(Contents, m)[i] \in Msg \cup {NoMsg}
    BY <1>2, <1>10
  <2>1. \A i \in 1 .. Used + 1 : msgs'[(readpos + i - 1) % len] \in Msg \cup {NoMsg}
    BY <1>11, <2>0, Zenon
  <2>2. Contents' \in [1 .. Used + 1 -> Msg \cup {NoMsg}]
    BY <1>7, <2>1
  <2> QED BY <1>2, <2>2
<1>13. \A i \in 1 .. Len(Contents') : Contents'[i] = Append(Contents, m)[i]
  BY <1>7, <1>11, <1>12, Zenon
<1> QED BY <1>10, <1>12, <1>13, SameSequence

\* _do_mbox_recv takes the first.
LEMMA GetTakesHead ==
  ASSUME MboxTypeOK, Used > 0, NEW c \in Thread \cup {Irq}, get(c)
  PROVE  /\ Contents # <<>> /\ Contents' = Tail(Contents)
         /\ got' = [got EXCEPT ![c] = Head(Contents)]
<1>1. Size \in Nat /\ readpos \in 0..Size /\ writepos \in 0..Size /\ len = Size + 1
  BY MboxAssumption DEF MboxTypeOK, len
<1>2. Used' = Used - 1 /\ Used \in 1 .. Size /\ readpos' \in 0..Size
  BY <1>1, GetStep, ContentsType
<1>3. Contents \in Seq(Msg \cup {NoMsg}) /\ Len(Contents) = Used
  BY ContentsType
<1>4. msgs' = msgs /\ readpos' = (readpos + 1) % len
  BY DEF get
<1>5. (readpos + 1 - 1) % len = readpos
  BY <1>1, SlotOf
<1>6. Contents # <<>> /\ Head(Contents) = msgs[readpos]
  <2>1. Contents[1] = msgs[readpos]
    BY <1>2, <1>5 DEF Contents
  <2> QED BY <1>2, <1>3, <2>1
<1>7. readpos' = IF readpos + 1 < len THEN readpos + 1 ELSE readpos + 1 - len
  BY <1>1, <1>2, <1>4, SlotValue
<1>8. ASSUME NEW i \in 1 .. Used - 1
      PROVE  (readpos' + i - 1) % len = (readpos + (i + 1) - 1) % len
  <2>1. /\ i \in 1 .. Size + 1 /\ i + 1 \in 1 .. Size + 1
    BY <1>1, <1>2
  <2>2. (readpos' + i - 1) % len = IF readpos' + i - 1 < len THEN readpos' + i - 1
                                   ELSE readpos' + i - 1 - len
    BY <1>1, <1>2, <2>1, SlotOf, Zenon
  <2>3. (readpos + (i + 1) - 1) % len =
          IF readpos + (i + 1) - 1 < len THEN readpos + (i + 1) - 1
          ELSE readpos + (i + 1) - 1 - len
    BY <1>1, <2>1, SlotOf
  <2> QED BY <1>1, <1>2, <1>7, <2>1, <2>2, <2>3
<1>9. Contents' = [i \in 1 .. Used - 1 |-> msgs[(readpos' + i - 1) % len]]
  BY <1>2, <1>4 DEF Contents, len
<1>10. /\ Tail(Contents) \in Seq(Msg \cup {NoMsg}) /\ Len(Tail(Contents)) = Used - 1
       /\ \A i \in 1 .. Used - 1 : Tail(Contents)[i] = msgs[(readpos + (i + 1) - 1) % len]
  <2>1. /\ Tail(Contents) \in Seq(Msg \cup {NoMsg}) /\ Len(Tail(Contents)) = Used - 1
        /\ \A i \in 1 .. Used - 1 : Tail(Contents)[i] = Contents[i + 1]
    BY <1>2, <1>3, <1>6, Rest
  <2>2. \A i \in 1 .. Used - 1 : Contents[i + 1] = msgs[(readpos + (i + 1) - 1) % len]
    BY <1>2 DEF Contents
  <2> QED BY <2>1, <2>2
<1>11. \A i \in 1 .. Used - 1 : msgs[(readpos' + i - 1) % len] = Tail(Contents)[i]
  BY <1>8, <1>10
<1>12. Contents' \in Seq(Msg \cup {NoMsg}) /\ Len(Contents') = Used - 1
  <2>1. Used - 1 \in Nat
    BY <1>1, <1>2
  <2>2. \A i \in 1 .. Used - 1 : msgs[(readpos' + i - 1) % len] \in Msg \cup {NoMsg}
    <3>1. \A i \in 1 .. Used - 1 : Tail(Contents)[i] \in Msg \cup {NoMsg}
      BY <1>10
    <3> QED BY <1>11, <3>1, Zenon
  <2>3. Contents' \in [1 .. Used - 1 -> Msg \cup {NoMsg}]
    BY <1>9, <2>2, Zenon
  <2> QED BY <2>1, <2>3
<1>13. Contents' = Tail(Contents)
  <2>1. \A i \in 1 .. Len(Contents') : Contents'[i] = Tail(Contents)[i]
    BY <1>9, <1>11, <1>12, Zenon
  <2> QED BY <1>10, <1>12, <2>1, SameSequence
<1> QED BY <1>6, <1>13, ZenonT(30) DEF get

\* A step that leaves the ring alone is invisible, or clears a result.
LEMMA RingKept ==
  ASSUME UNCHANGED ringVars, NEW t \in Thread,
         got' = got \/ got' = [got EXCEPT ![t] = NoMsg]
  PROVE  [Fifo!FifoNext]_(Fifo!fifoVars)
<1>1. Contents' = Contents
  BY DEF Contents, ringVars, Used, len
<1>2. CASE got' = got
  BY <1>1, <1>2 DEF Fifo!fifoVars, Contents
<1>3. CASE got' = [got EXCEPT ![t] = NoMsg]
  <2>1. Fifo!Clear(t)
    BY <1>1, <1>3 DEF Fifo!Clear, Contents
  <2> QED BY <2>1 DEF Fifo!FifoNext
<1> QED BY <1>2, <1>3

\* Every step of the mailbox is a step of the bounded queue, or invisible.
LEMMA MboxStepRefines == RingInv /\ [MboxNext]_mboxVars => [Fifo!FifoNext]_(Fifo!fifoVars)
<1> SUFFICES ASSUME RingInv, [MboxNext]_mboxVars PROVE [Fifo!FifoNext]_(Fifo!fifoVars)
  OBVIOUS
<1>0. /\ MboxTypeOK /\ Tokens /\ CallsExact
      /\ Len(Contents) = Used /\ running \in Thread
  BY ContentsType DEF RingInv, MboxTypeOK
<1>1. ASSUME Used < Size, NEW m \in Msg, put(m), UNCHANGED got
      PROVE  [Fifo!FifoNext]_(Fifo!fifoVars)
  <2>1. Fifo!Put(m)
    BY <1>0, <1>1, PutAppends, Zenon DEF Fifo!Put, Contents
  <2> QED BY <2>1 DEF Fifo!FifoNext
<1>2. ASSUME Used > 0, NEW c \in Thread \cup {Irq}, get(c)
      PROVE  [Fifo!FifoNext]_(Fifo!fifoVars)
  <2>1. Fifo!Get(c)
    BY <1>0, <1>2, GetTakesHead, Zenon DEF Fifo!Get, Contents
  <2> QED BY <2>1 DEF Fifo!FifoNext
<1>3. ASSUME NEW t \in Thread, PostStep(t) PROVE [Fifo!FifoNext]_(Fifo!fifoVars)
  <2>1. CASE PostWrite(t)
    <3>1. running = t /\ pc[t] = "write" /\ put(hand[t]) /\ UNCHANGED got /\ hand[t] \in Msg
      BY <1>0, <2>1 DEF PostWrite, Runs, CallsExact
    <3> QED BY <1>0, <1>1, <3>1, TokenMeans
  <2>2. CASE ~PostWrite(t)
    <3>1. UNCHANGED <<ringVars, got>>
      BY <1>3, <2>2 DEF PostStep, PostTry, Post, PostTimeout, PostGranted, PostUp
    <3> QED BY <3>1, RingKept
  <2> QED BY <2>1, <2>2, SMTT(30)
<1>4. ASSUME NEW t \in Thread, RecvStep(t) PROVE [Fifo!FifoNext]_(Fifo!fifoVars)
  <2>1. CASE RecvRead(t)
    <3>1. running = t /\ pc[t] = "read" /\ get(t)
      BY <2>1 DEF RecvRead, Runs
    <3> QED BY <1>0, <1>2, <3>1, TokenMeans
  <2>2. CASE ~RecvRead(t)
    <3>1. UNCHANGED ringVars /\ (got' = got \/ got' = [got EXCEPT ![t] = NoMsg])
      BY <1>4, <2>2 DEF RecvStep, RecvTry, Recv, RecvTimeout, RecvGranted, RecvUp
    <3> QED BY <3>1, RingKept
  <2> QED BY <2>1, <2>2
<1>5. ASSUME NEW m \in Msg, IrqPost(m) PROVE [Fifo!FifoNext]_(Fifo!fifoVars)
  <2>1. writesem > 0 /\ put(m) /\ UNCHANGED got
    BY <1>5 DEF IrqPost, WriteSem!Try
  <2> QED BY <1>0, <1>1, <2>1, TokenMeans
<1>6. CASE IrqRecv
  <2>1. readsem > 0 /\ get(Irq)
    BY <1>6 DEF IrqRecv, ReadSem!Try
  <2> QED BY <1>0, <1>2, <2>1, TokenMeans
<1>7. ASSUME NEW t \in Thread, Dispatch(t) PROVE [Fifo!FifoNext]_(Fifo!fifoVars)
  BY <1>7, RingKept DEF Dispatch
<1>8. CASE UNCHANGED mboxVars
  BY <1>0, <1>8, RingKept DEF mboxVars
<1> QED BY <1>3, <1>4, <1>5, <1>6, <1>7, <1>8 DEF MboxNext

\* A mailbox of any size implements the bounded queue: messages leave it in the order in
\* which they came, each once, and never more than size of them are inside, whichever
\* threads and interrupt handlers post and receive.
THEOREM MboxImplementsFifo == MboxSpec => FifoMailbox
<1>1. MboxInit => Fifo!FifoInit
  <2> SUFFICES ASSUME MboxInit PROVE Fifo!FifoInit
    OBVIOUS
  <2>1. MboxTypeOK /\ Size \in Nat /\ 0 \in 0..Size
    BY MboxInitInv, MboxAssumption DEF RingInv
  <2>2. Used = 0
    BY <2>1, UsedValue DEF Used, MboxInit
  <2>3. Contents = <<>>
    BY <2>1, <2>2, ContentsType
  <2> QED BY <2>3 DEF Fifo!FifoInit, MboxInit, Contents
<1>2. MboxSpec => []RingInv
  BY MboxInitInv, MboxNextInv, PTL DEF MboxSpec
<1> QED BY <1>1, <1>2, MboxStepRefines, PTL DEF MboxSpec, FifoMailbox, Fifo!FifoSpec

-----------------------------------------------------------------------------
INSTANCE FiniteSetTheorems

(* Tokens and calls of a mailbox.                                          *)

\* Only the running thread holds a token that it has not yet given back.
LEMMA OneHolds ==
  ASSUME NEW P \in [Thread -> Pcs], NEW run \in Thread,
         NEW p \in {"write", "written", "read", "emptied"},
         \A t \in Thread : P[t] \in {"write", "written", "read", "emptied"} => t = run
  PROVE  Cardinality({t \in Thread : P[t] = p}) = IF P[run] = p THEN 1 ELSE 0
<1>1. CASE P[run] = p
  <2>1. {t \in Thread : P[t] = p} = {run}
    BY <1>1
  <2> QED BY <1>1, <2>1, FS_Singleton, Zenon
<1>2. CASE P[run] # p
  <2>1. {t \in Thread : P[t] = p} = {}
    BY <1>2
  <2> QED BY <1>2, <2>1, FS_EmptySet
<1> QED BY <1>1, <1>2

LEMMA RingInvMeans == RingInv => MboxInv
<1>1. ASSUME MboxTypeOK, CallsExact, Tokens PROVE TokensExact
  <2>1. \A p \in {"write", "written", "read", "emptied"} : Threads(p) = Here(p)
    BY <1>1, OneHolds, Zenon DEF MboxTypeOK, CallsExact, Threads, Here
  <2> QED BY <1>1, <2>1 DEF TokensExact, Tokens
<1>2. ASSUME MboxTypeOK, CallsExact, Tokens PROVE MboxAsserts
  <2>0. /\ Size \in Nat /\ readpos \in 0..Size /\ writepos \in 0..Size
        /\ readsem \in Nat /\ writesem \in Nat
    BY <1>2, MboxAssumption DEF MboxTypeOK
  <2>1. Used \in Nat
    BY <2>0, UsedValue DEF Used, len
  <2>2. \A p \in Pcs : Here(p) \in {0, 1}
    BY DEF Here
  <2>3. ASSUME (\E t \in Thread : pc[t] = "write") \/ writesem > 0
        PROVE  (writepos + 1) % len # readpos
    <3>1. writesem + Here("write") > 0
      BY <1>2, <2>0, <2>3 DEF CallsExact, Here
    <3>2. Used < Size
      BY <1>2, <2>0, <2>1, <2>2, <3>1 DEF Tokens, Pcs
    <3> QED BY <2>0, <3>2, UsedPut DEF Used
  <2>4. ASSUME (\E t \in Thread : pc[t] = "read") \/ readsem > 0
        PROVE  readpos # writepos
    <3>1. readsem + Here("read") > 0
      BY <1>2, <2>0, <2>4 DEF CallsExact, Here
    <3>2. Used > 0
      BY <1>2, <2>0, <2>1, <2>2, <3>1 DEF Tokens, Pcs
    <3> QED BY <2>0, <3>2, UsedGet DEF Used
  <2> QED BY <2>3, <2>4 DEF MboxAsserts
<1> QED BY <1>1, <1>2 DEF MboxInv, RingInv

\* In a mailbox of any size every slot is accounted for by a token or by a call that has
\* taken one, and the assertions of _do_mbox_post and _do_mbox_recv on the positions
\* never fail, although interrupt handlers post and receive between a call's steps.
THEOREM MboxInvariance == MboxSpec => []MboxInv
BY MboxInitInv, MboxNextInv, RingInvMeans, PTL DEF MboxSpec

=============================================================================

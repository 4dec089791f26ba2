------------------------------ MODULE MCVirtio ------------------------------
(***************************************************************************)
(* The virtio drivers on small queues.  A behaviour is that of one part,   *)
(* chosen at the start: a queue with a driver that makes any legal         *)
(* sequence of calls, network reception, network transmission of single    *)
(* packets or of bursts, or block I/O with a dispatcher thread or with     *)
(* callbacks in interrupt context.                                         *)
(***************************************************************************)
EXTENDS Integers, Sequences, TLC

CONSTANTS Buffers,          \* buffers of the queue and of the transmit path
          Caller1, Caller2  \* callers of block I/O

VARIABLES part,
          vrq, avail_idx, no_interrupt, used_ring, used_idx, dev_idx, held, announce, irq,
          usr_en, intr_en, events, th, running,     \* of reception and block I/O
          any_layout, pool, sending, more, lost, ok, \* of transmission
          state, io, s, stale                       \* of block I/O

Null == "null"

\* Indices wrap after two laps of the ring.
Queue == INSTANCE VirtQueue
           WITH num <- 4, IdxMod <- 8, Cookie <- Buffers, NoCookie <- Null, Lens <- {"good"}

\* The allocator may be short of buffers.
Rx == INSTANCE VirtioNetRx
        WITH num <- 2, IdxMod <- 4, Cookie <- {"netbuf"}, NoCookie <- Null, Lens <- {"good"},
             Burst <- 2, ShortFill <- TRUE, MaxEvents <- 2

\* It never is, and a caller of recv asks for one packet at a time.
RxFull == INSTANCE VirtioNetRx
            WITH num <- 2, IdxMod <- 4, Cookie <- {"netbuf"}, NoCookie <- Null,
                 Lens <- {"good"}, Burst <- 1, ShortFill <- FALSE, MaxEvents <- 2

\* Both header layouts, and one packet in a call.
Tx == INSTANCE VirtioNetTx
        WITH num <- 4, IdxMod <- 8, Cookie <- Buffers, NoCookie <- Null, Lens <- {"good"},
             MaxBurst <- 1, Layouts <- BOOLEAN

\* Bursts that the ring has or has not room for.
TxBurst == INSTANCE VirtioNetTx
             WITH num <- 2, IdxMod <- 4, Cookie <- Buffers, NoCookie <- Null, Lens <- {"good"},
                  MaxBurst <- 2, Layouts <- BOOLEAN

Blk == INSTANCE VirtioBlk
         WITH num <- 4, IdxMod <- 8, Cookie <- {Caller1, Caller2}, NoCookie <- Null,
              Lens <- {"good"}, Segs <- {2, 3}, Threaded <- TRUE, MaxEvents <- 1

\* The callback in interrupt context; responses may lack a status.
BlkIrq == INSTANCE VirtioBlk
            WITH num <- 4, IdxMod <- 8, Cookie <- {Caller1, Caller2}, NoCookie <- Null,
                 Lens <- {"good", "bad"}, Segs <- {2}, Threaded <- FALSE, MaxEvents <- 2

ASSUME /\ Queue!VirtQueueAssumption /\ Rx!VirtQueueAssumption
       /\ RxFull!VirtQueueAssumption /\ Tx!VirtQueueAssumption /\ TxBurst!VirtQueueAssumption
       /\ Blk!VirtioBlkAssumption /\ BlkIrq!VirtioBlkAssumption

-----------------------------------------------------------------------------
\* A driver that owns the buffers that are not in use.

Owned == Buffers \ {vrq.info[h].cookie : h \in Queue!InUse}

Buf(c, n) == [cookie |-> c, n |-> n]

DriverEnqueue ==
  \/ \E c \in Owned, n \in 1..3 : Queue!EnqueueBurst(<<Buf(c, n)>>)
  \/ \E c \in Owned, n \in 1..2, m \in 1..2 :
       \E d \in Owned \ {c} : Queue!EnqueueBurst(<<Buf(c, n), Buf(d, m)>>)

\* The device's interrupts play no part here: the other parts have them.
QueueNext ==
  \/ DriverEnqueue
  \/ \E cnt \in 1..2 : Queue!DequeueBurst(cnt)
  \/ Queue!DevTake
  \/ \E h \in held : Queue!DevReturn(h, "good")

-----------------------------------------------------------------------------
rxOnly == <<usr_en, intr_en, events, th, running>>
txOnly == <<any_layout, pool, sending, more, lost, ok>>
blkOnly == <<state, io, s, stale>>

\* A part leaves the variables that it does not have alone.
RxOff ==
  usr_en = "off" /\ intr_en = "off" /\ events = "off" /\ th = "off" /\ running = "off"
TxOff ==
  any_layout = "off" /\ pool = "off" /\ sending = "off" /\ more = "off" /\ lost = "off"
  /\ ok = "off"
BlkOff == state = "off" /\ io = "off" /\ s = "off" /\ stale = "off"

Init ==
  \/ part = "queue" /\ Queue!VqStart(Queue!VringInit, FALSE) /\ RxOff /\ TxOff /\ BlkOff
  \/ part = "rx" /\ Rx!RxInit /\ TxOff /\ BlkOff
  \/ part = "rx_full" /\ RxFull!RxInit /\ TxOff /\ BlkOff
  \/ part = "tx" /\ Tx!TxInit /\ RxOff /\ BlkOff
  \/ part = "tx_burst" /\ TxBurst!TxInit /\ RxOff /\ BlkOff
  \/ part = "blk" /\ Blk!BlkInit /\ TxOff
  \/ part = "blk_irq" /\ BlkIrq!BlkInit /\ TxOff

Next ==
  /\ UNCHANGED part
  /\ \/ part = "queue" /\ QueueNext /\ UNCHANGED <<rxOnly, txOnly, blkOnly>>
     \/ part = "rx" /\ Rx!RxNext /\ UNCHANGED <<txOnly, blkOnly>>
     \/ part = "rx_full" /\ RxFull!RxNext /\ UNCHANGED <<txOnly, blkOnly>>
     \/ part = "tx" /\ Tx!TxNext /\ UNCHANGED <<rxOnly, blkOnly>>
     \/ part = "tx_burst" /\ TxBurst!TxNext /\ UNCHANGED <<rxOnly, blkOnly>>
     \/ part = "blk" /\ Blk!BlkNext /\ UNCHANGED txOnly
     \/ part = "blk_irq" /\ BlkIrq!BlkNext /\ UNCHANGED txOnly

Spec == Init /\ [][Next]_<<part, Queue!vqVars, rxOnly, txOnly, blkOnly>>

-----------------------------------------------------------------------------
\* No descriptor is lost or in two places, whatever chains a driver makes and in
\* whatever order the device returns them (virtqueue_buffer_enqueue_burst and
\* virtqueue_buffer_dequeue_burst).
DescPartition == part = "queue" => Queue!VqTypeOK /\ Queue!DescPartition

Abs == INSTANCE VirtQueueAbs
         WITH Cookie <- Buffers,
              device <- IF part = "queue" THEN Queue!WithDevice ELSE {},
              done <- IF part = "queue" THEN Queue!Done ELSE <<>>

\* Every buffer comes back to the driver once, after the device has returned it, in
\* the order of its return; wrap-around of the 16-bit indices does not matter.
BuffersComeBack == Abs!AbsSpec

\* Reception forgets no packet and no buffer (RxInv of VirtioNetRx): whenever all work is
\* done, the interrupt is armed and the ring is empty.
RxInv == /\ part = "rx" => Rx!RxInv
         /\ part = "rx_full" => RxFull!RxInv

\* Transmission never gives a buffer two uses; it forgets none and does not overrun the
\* ring, but where a burst of several packets finds too little room (TxInv of VirtioNetTx).
TxInv == /\ part = "tx" => Tx!TxInv
         /\ part = "tx_burst" => TxBurst!TxInv

\* Block requests are answered once, while their caller waits, and no descriptor is lost;
\* with callbacks in interrupt context, until a thread acts on what the handler changed
\* (BlkInv of VirtioBlk).
BlkInv == /\ part = "blk" => Blk!BlkInv
          /\ part = "blk_irq" => BlkIrq!BlkInv

-----------------------------------------------------------------------------
\* States are told apart by what can still be read: not by the slots of the two rings
\* outside the windows between their indices, nor, in the queue's own part, by the flags
\* of free descriptors.  The one step that reads a slot outside the window is that of a
\* thread whose response the handler has taken: it is the last, and of the state
\* after it BlkInv claims no more than the types.
Num == IF part \in {"rx", "rx_full", "tx_burst"} THEN 2 ELSE 4
Window(ring, first, last) ==
  [i \in 0..((last - first + 2 * Num) % (2 * Num)) - 1 |-> ring[(first + i) % Num]]

LiveUsed ==
  IF part = "blk_irq" /\ th["user"].pc = "take" THEN used_ring
  ELSE Window(used_ring, vrq.last_used, used_idx)

LiveDesc(desc) ==
  IF part # "queue" THEN desc
  ELSE LET free == {Queue!FreeList[i] : i \in DOMAIN Queue!FreeList}
       IN  [d \in DOMAIN desc |-> IF d \in free THEN desc[d].next ELSE desc[d]]

Live ==
  <<part, [vrq EXCEPT !.avail_ring = Window(@, dev_idx, avail_idx), !.desc = LiveDesc(@)],
    LiveUsed, avail_idx, used_idx, dev_idx, held,
    no_interrupt, announce, irq, rxOnly, txOnly, blkOnly>>

\* Buffers are interchangeable.
Symmetries == Permutations(Buffers)
=============================================================================

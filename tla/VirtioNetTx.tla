---------------------------- MODULE VirtioNetTx ----------------------------
(***************************************************************************)
(* Transmission with the virtio network driver: virtio_netdev_xmit on top  *)
(* of its virtqueue, and a caller that sends bursts from a pool of buffers *)
(* and repeats a burst that found no room (lwIP's uknetdev_output, the     *)
(* key-value server's use of uk_netdev_tx_burst).                          *)
(*                                                                         *)
(* The transmit queue's interrupts stay off: virtio_netdev_xmit itself     *)
(* takes back the buffers that have been sent.                             *)
(***************************************************************************)
EXTENDS VirtQueue

CONSTANTS MaxBurst,  \* packets in a call
          Layouts    \* the values of any_layout to consider

VARIABLES any_layout,
          pool,      \* buffers in the pool
          sending,   \* the burst the caller wants to send
          more,      \* UK_NETDEV_STATUS_MORE of the last successful call
          lost,      \* buffers reported as sent that are not in the ring; read by no action
          ok         \* the assertion of _virtnet_buffer_enqueue has held so far

txVars == <<vqVars, any_layout, pool, sending, more, lost, ok>>

TxInit ==
  /\ VqStart(VringInit, TRUE)
  /\ any_layout \in Layouts
  /\ pool = Cookie
  /\ sending = <<>>
  /\ more = TRUE
  /\ lost = {}
  /\ ok = TRUE

\* The caller takes buffers from the pool.
Prepare(bufs) ==
  /\ sending = <<>> /\ ok
  /\ IsInjective(bufs) /\ Range(bufs) \subseteq pool
  /\ pool' = pool \ Range(bufs)
  /\ sending' = bufs
  /\ UNCHANGED <<vqVars, any_layout, more, lost, ok>>

\* Descriptors for a packet.
PerPacket == IF any_layout THEN 1 ELSE 2

\* The ring after virtio_netdev_xmit_free.
Reclaimed(v) == DequeuedN(v, Completed)
Freed == {UsedCookie(i) : i \in 1..Completed}

\* desc_cnt of virtio_netdev_xmit.
Room(v) == v.desc_avail

\* Packets virtio_netdev_xmit puts into the ring: as many as there are descriptors, even
\* if a packet takes two.
Sent == LET n == Room(Reclaimed(vrq))
        IN  IF n < Len(sending) THEN n ELSE Len(sending)
Overrun == Sent * PerPacket > Room(Reclaimed(vrq))

\* The ring with them.
Filled == EnqueuedAll(Reclaimed(vrq),
                      [i \in 1..Sent |-> [cookie |-> sending[i], n |-> PerPacket]])

\* No descriptor is free: *cnt is 0 and the caller tries again.  A call without packets
\* takes sent buffers back, too.
XmitFull ==
  /\ Sent = 0 /\ ok
  /\ vrq' = Reclaimed(vrq)
  /\ pool' = pool \cup Freed
  /\ UNCHANGED <<avail_idx, no_interrupt, devVars, irq, any_layout, sending, more, lost, ok>>

BadMore(v) == TRUE  \* MORE whenever the burst was sent

\* MORE is set when descriptors are left.
More(v) == v.desc_avail > 0

\* Packets go into the ring.  UNDERRUN says that they are not all, but *cnt is left as it
\* was, and so the caller keeps nothing of the burst.
Xmit ==
  /\ ok
  /\ Sent > 0 /\ ~Overrun
  /\ vrq' = Filled
  /\ avail_idx' = Filled.vq_avail_idx
  /\ pool' = pool \cup Freed
  /\ sending' = <<>>
  /\ lost' = lost \cup Range(SubSeq(sending, Sent + 1, Len(sending)))
  /\ more' = More(Filled)
  /\ ok' = (Filled.desc_avail < num)
  /\ UNCHANGED <<no_interrupt, devVars, irq, any_layout>>

\* A packet is given descriptors from beyond the end of the free list, desc_avail wraps
\* and the assertion fails.
XmitOverrun ==
  /\ ok
  /\ Overrun
  /\ ok' = FALSE
  /\ UNCHANGED <<vqVars, any_layout, pool, sending, more, lost>>

Bursts == UNION {[1..n -> pool] : n \in 1..MaxBurst}

TxDevice == ok /\ Device /\ UNCHANGED <<any_layout, pool, sending, more, lost, ok>>

TxNext ==
  \/ \E bufs \in Bursts : Prepare(bufs)
  \/ XmitFull \/ Xmit \/ XmitOverrun
  \/ TxDevice

TxSpec == TxInit /\ [][TxNext]_txVars

-----------------------------------------------------------------------------
TxTypeOK ==
  /\ VqTypeOK
  /\ any_layout \in BOOLEAN /\ more \in BOOLEAN /\ ok \in BOOLEAN
  /\ pool \subseteq Cookie /\ lost \subseteq Cookie
  /\ sending \in Seq(Cookie) /\ Len(sending) <= MaxBurst

InRing == {vrq.info[h].cookie : h \in InUse}

\* A buffer is in the pool, with the caller, in the ring or lost, and in one of them only:
\* the device never works on a buffer that has another use, and no other buffer is forgotten.
BuffersKept ==
  /\ pool \cup Range(sending) \cup InRing \cup lost = Cookie
  /\ pool \cap (Range(sending) \cup InRing \cup lost) = {}
  /\ Range(sending) \cap (InRing \cup lost) = {}
  /\ InRing \cap lost = {}

\* What the code does not keep to when bursts have several packets: SUCCESS means that the
\* burst was put into the transmit queue, so that none of its buffers is forgotten,
NoneLost == lost = {}

\* and _virtnet_buffer_enqueue never takes more descriptors than there are: its assertion
\* that desc_avail is below the size of the ring holds.
TxAssert == ok

\* MORE tells the truth until the next call: a packet that follows it finds room.
MoreIsTrue == more /\ sending # <<>> => Sent > 0

\* Nothing of the transmit path is lost, and what its callers are told is true, but for
\* bursts of several packets: without any_layout one that finds fewer descriptors than it
\* needs fails the assertion, with it the packets that do not fit are lost.
TxInv ==
  /\ TxTypeOK /\ DescPartition /\ BuffersKept /\ MoreIsTrue
  /\ MaxBurst = 1 \/ any_layout => TxAssert
  /\ MaxBurst = 1 => NoneLost
=============================================================================

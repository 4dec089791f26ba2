----------------------------- MODULE VirtQueue -----------------------------
(***************************************************************************)
(* The split virtqueue of the virtio drivers (plat/drivers/virtio) and the *)
(* device on the other side of it.                                         *)
(*                                                                         *)
(* The driver's calls are atomic: the device sees what one of them did     *)
(* when avail->idx is written at its end, and an interrupt handler touches *)
(* nothing but the interrupt flag (a block driver's may do more: VirtioBlk *)
(* has the steps of the calls).  Re-enabling the interrupt and the         *)
(* device's decision to interrupt take the steps in which they read and    *)
(* write shared memory.                                                    *)
(***************************************************************************)
EXTENDS Integers, SequencesExt

CONSTANTS num,       \* vring.num, a power of two
          IdxMod,    \* indices are unsigned 16-bit: 2^16
          Cookie,    \* buffers
          NoCookie,  \* NULL
          Lens       \* what the device may report as the length of a buffer

VirtQueueAssumption ==
  /\ num \in Nat \ {0} /\ IdxMod \in Nat /\ IdxMod % num = 0 /\ IdxMod > num
  /\ NoCookie \notin Cookie

VARIABLES vrq,           \* struct virtqueue_vring and the tables the driver writes
          avail_idx,     \* avail->idx
          no_interrupt,  \* VRING_AVAIL_F_NO_INTERRUPT
          used_ring,     \* used->ring
          used_idx,      \* used->idx
          dev_idx,       \* the device's position in the available ring
          held,          \* heads of the chains the device is working on
          announce,      \* the device has to decide whether to interrupt
          irq            \* an interrupt is on its way

devVars == <<used_ring, used_idx, dev_idx, held, announce>>
vqVars == <<vrq, avail_idx, no_interrupt, devVars, irq>>

Desc == 0 .. num - 1
EndOfList == num   \* VIRTQUEUE_MAX_SIZE

Inc(i) == (i + 1) % IdxMod
Minus(i, j) == (i - j + IdxMod) % IdxMod

\* The driver's part after virtqueue_vring_init.
VringInit ==
  [desc           |-> [i \in Desc |-> [next |-> i + 1, more |-> FALSE]],
   info           |-> [i \in Desc |-> [cookie |-> NoCookie, desc_count |-> 0]],
   avail_ring     |-> [i \in Desc |-> 0],
   desc_avail     |-> num,
   head_free_desc |-> 0,
   last_used      |-> 0,
   vq_avail_idx   |-> 0]

-----------------------------------------------------------------------------
\* The calls of the driver, as functions on vrq.  Bad... are wrong variants of
\* the definitions that follow them; nothing uses them.

\* The n-th descriptor from d on.
Follow(desc, d, n) ==
  LET at[i \in 0..n] == IF i = 0 THEN d
                        ELSE IF at[i-1] = EndOfList THEN EndOfList ELSE desc[at[i-1]].next
  IN  at[n]

BadSegments(v, n) ==  \* the last descriptor keeps the flag of an earlier, longer chain
  LET at == [i \in 0..n |-> Follow(v.desc, v.head_free_desc, i)]
  IN  [d \in Desc |-> IF \E i \in 0..n-2 : at[i] = d
                        THEN [v.desc[d] EXCEPT !.more = TRUE] ELSE v.desc[d]]

\* virtqueue_buffer_enqueue_segments: the flags of the n descriptors from the head
\* of the free list on.
Segments(v, n) ==
  LET at == [i \in 0..n |-> Follow(v.desc, v.head_free_desc, i)]
  IN  [d \in Desc |-> IF \E i \in 0..n-1 : at[i] = d
                        THEN [v.desc[d] EXCEPT !.more = (d # at[n-1])]
                        ELSE v.desc[d]]

\* _virtqueue_buffer_enqueue and _virtnet_buffer_enqueue, once there are enough
\* descriptors (the latter does not ask).
Enqueued(v, c, n) ==
  LET head == v.head_free_desc
  IN  [v EXCEPT !.desc = Segments(v, n),
                !.info[head] = [cookie |-> c, desc_count |-> n],
                !.head_free_desc = Follow(v.desc, head, n),
                !.desc_avail = Minus(@, n),
                !.avail_ring[v.vq_avail_idx % num] = head,
                !.vq_avail_idx = Inc(@)]

\* A chain is the sequence of its descriptors.
Chain(v, head) ==
  LET rest[i \in 0..num-1] ==  \* from the i-th descriptor on
        LET d == Follow(v.desc, head, i)
        IN  IF i < num - 1 /\ v.desc[d].more THEN <<d>> \o rest[i+1] ELSE <<d>>
  IN  rest[0]

\* virtqueue_detach_desc, and the cookie is cleared.
Detached(v, head) ==
  LET chain == Chain(v, head)
  IN  [v EXCEPT !.desc_avail = (@ + v.info[head].desc_count) % IdxMod,
                !.info[head] = [cookie |-> NoCookie,
                                desc_count |-> @.desc_count - Len(chain)],
                !.desc[Last(chain)].next = v.head_free_desc,
                !.head_free_desc = head]

\* _virtqueue_buffer_dequeue.
Dequeued(v) == [Detached(v, used_ring[v.last_used % num].id) EXCEPT !.last_used = Inc(@)]

\* The i-th buffer that would be dequeued, from 1 on.
UsedElem(i) == used_ring[(vrq.last_used + i - 1) % num]
UsedCookie(i) == vrq.info[UsedElem(i).id].cookie

\* A burst applies one call after another.
EnqueuedAll(v, bufs) == FoldSeq(LAMBDA b, w : Enqueued(w, b.cookie, b.n), v, bufs)
DequeuedN(v, n) == FoldSeq(LAMBDA i, w : Dequeued(w), v, [i \in 1..n |-> i])

hasdata == vrq.last_used # used_idx
Completed == Minus(used_idx, vrq.last_used)

-----------------------------------------------------------------------------
\* The calls as actions.

\* Descriptors that a prefix of a burst needs.
Need(bufs, k) == FoldSeq(LAMBDA b, s : b.n + s, 0, SubSeq(bufs, 1, k))

\* virtqueue_buffer_enqueue_burst: buffers are enqueued while there are descriptors
\* for them; avail->idx is written once.  virtqueue_buffer_enqueue is the burst of
\* one buffer.
EnqueueBurst(bufs) ==
  \E k \in 1..Len(bufs) :
    /\ Need(bufs, k) <= vrq.desc_avail
    /\ k < Len(bufs) => Need(bufs, k + 1) > vrq.desc_avail
    /\ vrq' = EnqueuedAll(vrq, SubSeq(bufs, 1, k))
    /\ avail_idx' = vrq'.vq_avail_idx
    /\ UNCHANGED <<no_interrupt, devVars, irq>>

BadDequeueBurst(cnt) ==  \* the number of completed buffers is not a limit
  /\ vrq' = DequeuedN(vrq, cnt)
  /\ UNCHANGED <<avail_idx, no_interrupt, devVars, irq>>

\* virtqueue_buffer_dequeue_burst of up to cnt buffers, and virtqueue_buffer_dequeue
\* for cnt = 1.
DequeueBurst(cnt) ==
  /\ hasdata
  /\ vrq' = DequeuedN(vrq, IF Completed < cnt THEN Completed ELSE cnt)
  /\ UNCHANGED <<avail_idx, no_interrupt, devVars, irq>>

-----------------------------------------------------------------------------
\* The device, as the driver relies on it: it takes chains in the order of the
\* available ring, returns them in any order, and interrupts after it has returned
\* one unless the flag asks it not to.

DevTake ==
  /\ dev_idx # avail_idx
  /\ held' = held \cup {vrq.avail_ring[dev_idx % num]}
  /\ dev_idx' = Inc(dev_idx)
  /\ UNCHANGED <<vrq, avail_idx, no_interrupt, used_ring, used_idx, announce, irq>>

DevReturn(head, len) ==
  /\ head \in held
  /\ held' = held \ {head}
  /\ used_ring' = [used_ring EXCEPT ![used_idx % num] = [id |-> head, len |-> len]]
  /\ used_idx' = Inc(used_idx)
  /\ announce' = TRUE
  /\ UNCHANGED <<vrq, avail_idx, no_interrupt, dev_idx, irq>>

DevAnnounce ==
  /\ announce
  /\ announce' = FALSE
  /\ irq' = (irq \/ ~no_interrupt)
  /\ UNCHANGED <<vrq, avail_idx, no_interrupt, used_ring, used_idx, dev_idx, held>>

Device == DevTake \/ DevAnnounce \/ \E h \in held, l \in Lens : DevReturn(h, l)

\* A queue whose driver has put v into the ring; the device has seen nothing yet.
VqStart(v, noint) ==
  /\ vrq = v
  /\ avail_idx = v.vq_avail_idx
  /\ no_interrupt = noint
  /\ used_ring = [i \in Desc |-> [id |-> 0, len |-> CHOOSE l \in Lens : TRUE]]
  /\ used_idx = 0 /\ dev_idx = 0
  /\ held = {}
  /\ announce = FALSE /\ irq = FALSE

-----------------------------------------------------------------------------
VqTypeOK ==
  /\ vrq.desc \in [Desc -> [next : Desc \cup {EndOfList}, more : BOOLEAN]]
  /\ vrq.info \in [Desc -> [cookie : Cookie \cup {NoCookie}, desc_count : Int]]
  /\ vrq.avail_ring \in [Desc -> Desc]
  /\ vrq.desc_avail \in 0..num
  /\ vrq.head_free_desc \in Desc \cup {EndOfList}
  /\ {vrq.last_used, vrq.vq_avail_idx, avail_idx, used_idx, dev_idx} \subseteq 0..IdxMod-1
  /\ used_ring \in [Desc -> [id : Desc, len : Lens]]
  /\ held \subseteq Desc
  /\ {no_interrupt, announce, irq} \subseteq BOOLEAN

\* Heads the driver has published and the device has not seen, and heads the device
\* has returned and the driver has not seen.
Offered == {vrq.avail_ring[(dev_idx + i) % num] : i \in 0..Minus(avail_idx, dev_idx) - 1}
Returned == {UsedElem(i).id : i \in 1..Completed}

InUse == Offered \cup held \cup Returned

FreeList == [i \in 1..vrq.desc_avail |-> Follow(vrq.desc, vrq.head_free_desc, i - 1)]

\* No descriptor is lost or in two places: the free list has exactly desc_avail
\* descriptors, and it and the chains in use partition the table.  The counts of
\* the chains in use are exact, as virtqueue_detach_desc asserts.
DescPartition ==
  /\ IsInjective(FreeList)
  /\ Follow(vrq.desc, vrq.head_free_desc, vrq.desc_avail) = EndOfList
  /\ Range(FreeList) \cup UNION {Range(Chain(vrq, h)) : h \in InUse} = Desc
  /\ \A h \in InUse : /\ vrq.info[h].desc_count = Len(Chain(vrq, h))
                      /\ IsInjective(Chain(vrq, h))
                      /\ Range(Chain(vrq, h)) \cap Range(FreeList) = {}
  /\ \A h, g \in InUse : h # g => Range(Chain(vrq, h)) \cap Range(Chain(vrq, g)) = {}

\* The buffers the device may use, and those it has finished with, oldest first.
WithDevice == {vrq.info[h].cookie : h \in Offered \cup held}
Done == [i \in 1..Completed |-> UsedCookie(i)]
=============================================================================

---------------------------- MODULE VirtioNetRx ----------------------------
(***************************************************************************)
(* Reception with the virtio network driver: the receive queue of          *)
(* virtio_net.c on top of its virtqueue, the interrupt handler, the        *)
(* dispatcher thread of uknetdev, and lwIP's netif as the user.            *)
(*                                                                         *)
(* Threads are cooperative: another thread runs only where the running one *)
(* blocks, ends its work or yields.  An interrupt and the device's steps   *)
(* come between any two steps.  The ring uses one descriptor for a buffer  *)
(* (any_layout).                                                           *)
(***************************************************************************)
EXTENDS VirtQueue

CONSTANTS Burst,     \* *cnt, the packets a caller of recv asks for
          ShortFill, \* the allocator may provide fewer buffers than requested
          MaxEvents  \* bound on the events semaphore

VARIABLES usr_en, intr_en,  \* VTNET_INTR_USR_EN and VTNET_INTR_EN of intr_enabled
          events,           \* the semaphore of the event handler
          th,               \* what the threads do
          running           \* the thread that has the CPU

rxVars == <<vqVars, usr_en, intr_en, events, th, running>>

Thread == {"user", "dispatcher"}
Pc == {"idle", "recv", "fill", "test", "clear", "recheck", "more", "again", "set", "down",
       "deliver", "yielded", "crashed"}

\* call: inside rx_intr_enable or recv; got: buf_cnt; more: UK_NETDEV_STATUS_MORE;
\* round: recv's first or second pass
Idle == [pc |-> "idle", call |-> "none", round |-> 1, got |-> 0, more |-> FALSE]

At(t, pc) == running = t /\ th[t].pc = pc
Goto(t, pc) == th' = [th EXCEPT ![t].pc = pc]
Finish(t) == th' = [th EXCEPT ![t] = Idle] /\ running' = "none"

rxRest == <<usr_en, intr_en, events>>

-----------------------------------------------------------------------------
\* The user: netif up and down (uknetdev_updown).

\* rx_intr_enable up to its call of virtqueue_intr_enable.
Up ==
  /\ running = "none" /\ th["user"].pc = "idle"
  /\ ~intr_en
  /\ usr_en' = TRUE
  /\ th' = [th EXCEPT !["user"] = [Idle EXCEPT !.pc = "test", !.call = "enable"]]
  /\ running' = "user"
  /\ UNCHANGED <<vqVars, intr_en, events>>

\* rx_intr_enable, once virtqueue_intr_enable has returned 0.
SetEnabled ==
  /\ At("user", "set")
  /\ intr_en' = TRUE
  /\ Finish("user")
  /\ UNCHANGED <<vqVars, usr_en, events>>

\* rx_intr_disable: the flag of the ring, and then the bits.
Down ==
  /\ running = "none" /\ th["user"].pc = "idle" /\ usr_en
  /\ no_interrupt' = TRUE
  /\ Goto("user", "down") /\ running' = "user"
  /\ UNCHANGED <<vrq, avail_idx, devVars, irq, rxRest>>

DownBits ==
  /\ At("user", "down")
  /\ usr_en' = FALSE /\ intr_en' = FALSE
  /\ Finish("user")
  /\ UNCHANGED <<vqVars, events>>

\* _dispatcher: an event starts the receive loop (uknetdev_input).
Dispatch ==
  /\ running = "none" /\ th["dispatcher"].pc = "idle"
  /\ events > 0
  /\ events' = events - 1
  /\ Goto("dispatcher", "recv") /\ running' = "dispatcher"
  /\ UNCHANGED <<vqVars, usr_en, intr_en>>

-----------------------------------------------------------------------------
\* virtio_netdev_recv.

\* Completed buffers the call takes, and the ones among them with a packet of a legal
\* size (_virtio_pkt_hdr_process).
Take(t) == LET want == Burst - th[t].got IN IF Completed < want THEN Completed ELSE want
Good(n) == {i \in 1..n : UsedElem(i).len = "good"}

\* The assertion, and the first virtio_netdev_rxq_dequeue; without a good packet recv
\* returns at once, and its caller's loop ends.
Recv(t) ==
  /\ At(t, "recv")
  /\ IF intr_en
       THEN Goto(t, "crashed") /\ UNCHANGED <<vrq, running>>
       ELSE /\ vrq' = DequeuedN(vrq, Take(t))
            /\ IF Good(Take(t)) = {}
                 THEN Finish(t)
                 ELSE /\ th' = [th EXCEPT ![t] = [Idle EXCEPT !.pc = "fill", !.call = "recv",
                                                     !.got = Cardinality(Good(Take(t)))]]
                      /\ UNCHANGED running
  /\ UNCHANGED <<avail_idx, no_interrupt, devVars, irq, rxRest>>

\* The second virtio_netdev_rxq_dequeue.
RecvAgain(t) ==
  /\ At(t, "again")
  /\ vrq' = DequeuedN(vrq, Take(t))
  /\ th' = [th EXCEPT ![t].pc = "fill", ![t].round = 2,
                      ![t].got = @ + Cardinality(Good(Take(t)))]
  /\ UNCHANGED <<avail_idx, no_interrupt, devVars, irq, rxRest, running>>

\* k buffers of one descriptor each.
Filled(v, k) ==
  EnqueuedAll(v, [i \in 1..k |-> [cookie |-> CHOOSE c \in Cookie : TRUE, n |-> 1]])

\* virtio_netdev_rx_fillup with k buffers; then interrupts are enabled when the user
\* asked for them, else a full burst is taken to mean that there is more.
RxFillup(t, k) ==
  /\ At(t, "fill")
  /\ k = vrq.desc_avail \/ ShortFill
  /\ vrq' = Filled(vrq, k)
  /\ avail_idx' = vrq'.vq_avail_idx
  /\ th' = [th EXCEPT ![t].pc = IF usr_en \/ th[t].round = 2 THEN "test" ELSE "deliver",
                      ![t].more = ~usr_en /\ th[t].got = Burst]
  /\ UNCHANGED <<no_interrupt, devVars, irq, rxRest, running>>

\* virtqueue_intr_enable: the first test,
IntrEnable(t) ==
  /\ At(t, "test")
  /\ Goto(t, IF hasdata THEN "more" ELSE "clear")
  /\ UNCHANGED <<vqVars, rxRest, running>>

\* the flag,
IntrClear(t) ==
  /\ At(t, "clear")
  /\ no_interrupt' = FALSE
  /\ Goto(t, "recheck")
  /\ UNCHANGED <<vrq, avail_idx, devVars, irq, rxRest, running>>

\* What recv makes of the result rc of virtqueue_intr_enable, and its last test, with
\* which the flag is set again when there is data.
AfterEnable(t, rc) ==
  IF th[t].call = "enable" THEN [Idle EXCEPT !.pc = IF rc = 1 THEN "recv" ELSE "set"]
  ELSE IF th[t].round = 1 /\ rc = 1 /\ th[t].got < Burst THEN [th[t] EXCEPT !.pc = "again"]
  ELSE [th[t] EXCEPT !.pc = "deliver", !.more = (rc = 1)]

IntrRecheck(t) ==
  /\ At(t, "recheck")
  /\ th' = [th EXCEPT ![t] = AfterEnable(t, IF hasdata THEN 1 ELSE 0)]
  /\ no_interrupt' = (no_interrupt \/ hasdata)
  /\ UNCHANGED <<vrq, avail_idx, devVars, irq, rxRest, running>>

BadIntrMore(t) ==  \* the result is not passed on
  /\ At(t, "more")
  /\ th' = [th EXCEPT ![t] = AfterEnable(t, 0)]
  /\ UNCHANGED <<vqVars, rxRest, running>>

IntrMore(t) ==
  /\ At(t, "more")
  /\ th' = [th EXCEPT ![t] = AfterEnable(t, 1)]
  /\ UNCHANGED <<vqVars, rxRest, running>>

\* uknetdev_input passes the packets on and goes on while the status says MORE; it
\* yields when lwIP's queue is full.
Deliver(t) ==
  /\ At(t, "deliver")
  /\ IF th[t].more
       THEN th' = [th EXCEPT ![t] = [Idle EXCEPT !.pc = "recv"]] /\ UNCHANGED running
       ELSE Finish(t)
  /\ UNCHANGED <<vqVars, rxRest>>

YieldFull(t) ==
  /\ At(t, "deliver")
  /\ Goto(t, "yielded") /\ running' = "none"
  /\ UNCHANGED <<vqVars, rxRest>>

Resume(t) ==
  /\ running = "none" /\ th[t].pc = "yielded"
  /\ IF th[t].more
       THEN th' = [th EXCEPT ![t] = [Idle EXCEPT !.pc = "recv"]] /\ running' = t
       ELSE th' = [th EXCEPT ![t] = Idle] /\ UNCHANGED running
  /\ UNCHANGED <<vqVars, rxRest>>

-----------------------------------------------------------------------------
\* virtqueue_ring_interrupt and virtio_netdev_recv_done.
Interrupt ==
  /\ irq
  /\ irq' = FALSE
  /\ hasdata => events < MaxEvents
  /\ no_interrupt' = (no_interrupt \/ hasdata)
  /\ intr_en' = (intr_en /\ ~hasdata)
  /\ events' = events + (IF hasdata THEN 1 ELSE 0)
  /\ \A t \in Thread : th[t].pc # "crashed"
  /\ UNCHANGED <<vrq, avail_idx, devVars, usr_en, th, running>>

\* After virtio_net_start: the ring is full of buffers and interrupts are off.
RxInit ==
  /\ VqStart(Filled(VringInit, num), TRUE)
  /\ usr_en = FALSE /\ intr_en = FALSE
  /\ events = 0
  /\ th = [t \in Thread |-> Idle]
  /\ running = "none"

Enable(t) == IntrEnable(t) \/ IntrClear(t) \/ IntrRecheck(t) \/ IntrMore(t)
Fill(t) == \E k \in 0..num : k <= vrq.desc_avail /\ RxFillup(t, k)
Loop(t) == Recv(t) \/ RecvAgain(t) \/ Fill(t) \/ Enable(t) \/ Deliver(t)

RxDevice == Device /\ UNCHANGED <<rxRest, th, running>>

RxNext ==
  \/ Up \/ SetEnabled \/ Down \/ DownBits
  \/ Dispatch
  \/ \E t \in Thread : Loop(t) \/ YieldFull(t) \/ Resume(t)
  \/ Interrupt
  \/ RxDevice

RxSpec == RxInit /\ [][RxNext]_rxVars

-----------------------------------------------------------------------------
RxTypeOK ==
  /\ VqTypeOK
  /\ {usr_en, intr_en} \subseteq BOOLEAN
  /\ events \in 0..MaxEvents
  /\ th \in [Thread -> [pc : Pc, call : {"none", "enable", "recv"}, round : 1..2,
                        got : 0..Burst, more : BOOLEAN]]
  /\ running \in Thread \cup {"none"}

Crashed == \E t \in Thread : th[t].pc = "crashed"

\* Nothing is left to be done that could lead to another call of recv.
Quiet ==
  /\ running = "none" /\ \A t \in Thread : th[t].pc = "idle"
  /\ events = 0 /\ ~irq /\ ~announce

\* No packet is forgotten: when the user has enabled interrupts and all work is done,
\* the interrupt is armed and the ring holds no packet, whatever the order in which
\* the re-enabling in recv, the interrupt handler and the device took their steps.
Rearmed == usr_en /\ Quiet => ~no_interrupt /\ ~hasdata

\* "Queue interrupts have to be off when calling receive": the assertion of
\* virtio_netdev_recv holds.
RecvAssert == ~Crashed

\* The ring does not run dry: when all work is done and no packet waits, the device has
\* every buffer, provided the allocator never falls short.
Replenished == Quiet /\ ~hasdata /\ ~ShortFill => Offered \cup held = Desc

\* Nothing of the receive path is lost or forgotten.
RxInv == RxTypeOK /\ DescPartition /\ Rearmed /\ Replenished
=============================================================================

----------------------------- MODULE VirtioBlk -----------------------------
(***************************************************************************)
(* Synchronous block I/O: uk_blkdev_sync_io on a queue of virtio_blk.c and *)
(* its virtqueue, with the interrupt handler and the dispatcher thread of  *)
(* ukblkdev.  The request and the semaphore of a call are on the stack of  *)
(* its caller.                                                             *)
(*                                                                         *)
(* Threads are cooperative.  An interrupt and the steps of the device come *)
(* between any two steps of a thread.  Without dispatcher threads the      *)
(* callback of the queue, which calls uk_blkdev_queue_finish_reqs, runs in *)
(* the handler, and it changes the ring between two steps of a thread that *)
(* puts a request into it or takes one out of it.                          *)
(***************************************************************************)
EXTENDS VirtQueue

CONSTANTS Segs,       \* numbers of descriptors that requests need
          Threaded,   \* CONFIG_LIBUKBLKDEV_DISPATCHERTHREADS
          MaxEvents   \* bound on the events semaphore

VirtioBlkAssumption == VirtQueueAssumption /\ Segs \subseteq 1..num /\ Threaded \in BOOLEAN

VARIABLES state,            \* of the device: UK_BLKDEV_RUNNING or UK_BLKDEV_CONFIGURED
          usr_en, intr_en,  \* VTBLK_INTR_USR_EN and VTBLK_INTR_EN of intr_enabled
          events,           \* the semaphore of the event handler
          io,               \* calls of uk_blkdev_sync_io
          s,                \* their semaphores
          th,               \* what the other threads and the handler do
          running,          \* the thread that has the CPU
          stale             \* a thread has acted on what it had read of the ring before the
                            \* handler changed that; the model ends there

blkRest == <<state, usr_en, intr_en, events>>
blkVars == <<vqVars, blkRest, io, s, th, running, stale>>

Caller == Cookie  \* a caller's request is the cookie
Worker == {"user", "dispatcher", "handler"}
Pc == {"idle", "enter", "dequeue", "take", "link", "test", "clear", "recheck", "more", "set",
       "disable", "crashed"}

IoIdle == [pc |-> "idle", head |-> 0, next |-> 0, n |-> 0]
NoGot == [head |-> 0, next |-> 0, cookie |-> NoCookie, len |-> "good"]
Idle == [pc |-> "idle", call |-> "finish", got |-> NoGot]

NoHandler == th["handler"].pc = "idle"
CpuFree == running = "none" /\ NoHandler
At(t, pc) == th[t].pc = pc /\ (t = "handler" \/ (running = t /\ NoHandler))
Goto(t, pc) == th' = [th EXCEPT ![t].pc = pc]
Finish(t) ==
  /\ th' = [th EXCEPT ![t] = Idle]
  /\ running' = IF t = "handler" THEN running ELSE "none"

-----------------------------------------------------------------------------
\* uk_blkdev_sync_io.  Bad... are wrong variants of the definitions that follow them.

\* The request is initialised, and virtqueue_buffer_enqueue has read the head of the free
\* list and filled in the n descriptors from there.  When there are too few, or the driver
\* refuses the request, the call returns an error and nothing is sent.
Submit(c, n) ==
  /\ CpuFree /\ io[c].pc = "idle" /\ state = "running"
  /\ n <= vrq.desc_avail
  /\ LET e == Enqueued(vrq, c, n)
     IN  /\ vrq' = [vrq EXCEPT !.desc = e.desc, !.info = e.info]
         /\ io' = [io EXCEPT ![c] = [pc |-> "enqueue", head |-> vrq.head_free_desc,
                                     next |-> e.head_free_desc, n |-> n]]
  /\ s' = [s EXCEPT ![c] = 0]
  /\ running' = c
  /\ UNCHANGED <<avail_idx, no_interrupt, devVars, irq, blkRest, th, stale>>

\* The new head of the free list and the rings' indices are written, whatever the head has
\* become meanwhile; the host is notified, and the caller waits for its semaphore.
Enqueue(c) ==
  /\ running = c /\ NoHandler /\ io[c].pc = "enqueue"
  /\ vrq' = [vrq EXCEPT !.head_free_desc = io[c].next,
                        !.desc_avail = Minus(@, io[c].n),
                        !.avail_ring[vrq.vq_avail_idx % num] = io[c].head,
                        !.vq_avail_idx = Inc(@)]
  /\ avail_idx' = vrq'.vq_avail_idx
  /\ io' = [io EXCEPT ![c] = [IoIdle EXCEPT !.pc = "wait"]]
  /\ running' = "none"
  /\ stale' = (io[c].head # vrq.head_free_desc)
  /\ UNCHANGED <<no_interrupt, devVars, irq, blkRest, s, th>>

Return(c) ==
  /\ CpuFree /\ io[c].pc = "wait" /\ s[c] > 0
  /\ s' = [s EXCEPT ![c] = @ - 1]
  /\ io' = [io EXCEPT ![c] = IoIdle]
  /\ UNCHANGED <<vqVars, blkRest, th, running, stale>>

-----------------------------------------------------------------------------
\* virtio_blkdev_queue_intr_enable and _disable, called by a thread of the application.

IntrEnable ==
  /\ CpuFree /\ th["user"].pc = "idle" /\ state = "running"
  /\ ~intr_en
  /\ usr_en' = TRUE
  /\ th' = [th EXCEPT !["user"] = [Idle EXCEPT !.pc = "test", !.call = "enable"]]
  /\ running' = "user"
  /\ UNCHANGED <<vqVars, state, intr_en, events, io, s, stale>>

SetEnabled ==
  /\ At("user", "set")
  /\ intr_en' = TRUE
  /\ Finish("user")
  /\ UNCHANGED <<vqVars, state, usr_en, events, io, s, stale>>

IntrDisable ==
  /\ CpuFree /\ th["user"].pc = "idle" /\ usr_en
  /\ no_interrupt' = TRUE
  /\ Goto("user", "disable") /\ running' = "user"
  /\ UNCHANGED <<vrq, avail_idx, devVars, irq, blkRest, io, s, stale>>

DisableBits ==
  /\ At("user", "disable")
  /\ usr_en' = FALSE /\ intr_en' = FALSE
  /\ Finish("user")
  /\ UNCHANGED <<vqVars, state, events, io, s, stale>>

\* uk_blkdev_stop: the driver looks for responses it has not consumed, then it resets the
\* device, which forgets what it was working on.
Stop ==
  /\ CpuFree /\ th["user"].pc = "idle" /\ state = "running"
  /\ ~hasdata
  /\ state' = "configured"
  /\ held' = {} /\ announce' = FALSE /\ irq' = FALSE
  /\ UNCHANGED <<vrq, avail_idx, no_interrupt, used_ring, used_idx, dev_idx,
                 usr_en, intr_en, events, io, s, th, running, stale>>

\* _dispatcher.
Dispatch ==
  /\ CpuFree /\ th["dispatcher"].pc = "idle" /\ state = "running"
  /\ events > 0
  /\ events' = events - 1
  /\ Goto("dispatcher", "enter") /\ running' = "dispatcher"
  /\ UNCHANGED <<vqVars, state, usr_en, intr_en, io, s, stale>>

-----------------------------------------------------------------------------
\* virtio_blkdev_complete_reqs, by thread or handler t: its assertion,
Enter(t) ==
  /\ At(t, "enter")
  /\ Goto(t, IF intr_en THEN "crashed" ELSE "dequeue")
  /\ UNCHANGED <<vqVars, blkRest, io, s, running, stale>>

\* virtio_blkdev_queue_dequeue of one request: virtqueue_buffer_dequeue finds a response.
Found(t) ==
  /\ At(t, "dequeue") /\ hasdata
  /\ Goto(t, "take")
  /\ UNCHANGED <<vqVars, blkRest, io, s, running, stale>>

\* _virtqueue_buffer_dequeue and virtqueue_detach_desc up to the writing of the free list's
\* head.  The entry at last_used is taken, be it the response that was found, the next one,
\* or an old one if the handler has taken all there are; then the count of its chain may
\* fail the assertion.
Take(t) ==
  LET e == UsedElem(1)
  IN  /\ At(t, "take")
      /\ stale' = ~hasdata
      /\ IF vrq.info[e.id].desc_count = Len(Chain(vrq, e.id))
           THEN /\ vrq' = [Dequeued(vrq) EXCEPT !.head_free_desc = vrq.head_free_desc]
                /\ th' = [th EXCEPT ![t].pc = "link",
                                     ![t].got = [head |-> e.id, next |-> vrq.head_free_desc,
                                                 cookie |-> UsedCookie(1), len |-> e.len]]
           ELSE Goto(t, "crashed") /\ UNCHANGED vrq
      /\ UNCHANGED <<avail_idx, no_interrupt, devVars, irq, blkRest, io, s, running>>

BadComplete(t) ==  \* the callback is called for the last request only
  LET got == th[t].got
  IN  /\ At(t, "link")
      /\ vrq' = [vrq EXCEPT !.head_free_desc = got.head]
      /\ stale' = (got.next # vrq.head_free_desc)
      /\ s' = IF ~hasdata THEN [s EXCEPT ![got.cookie] = @ + 1] ELSE s
      /\ th' = [th EXCEPT ![t].pc = "dequeue", ![t].got = NoGot]
      /\ UNCHANGED <<avail_idx, no_interrupt, devVars, irq, blkRest, io, running>>

\* The head of the free list is written, whatever it has become meanwhile, and the callback
\* of the request called (__sync_io_callback).  After a response without a status the loop
\* is left.
Complete(t) ==
  LET got == th[t].got
  IN  /\ At(t, "link")
      /\ vrq' = [vrq EXCEPT !.head_free_desc = got.head]
      /\ stale' = (got.next # vrq.head_free_desc)
      /\ \/ /\ got.len = "good"
            /\ s' = [s EXCEPT ![got.cookie] = @ + 1]
            /\ th' = [th EXCEPT ![t].pc = "dequeue", ![t].got = NoGot]
            /\ UNCHANGED running
         \/ got.len = "bad" /\ Finish(t) /\ UNCHANGED s
      /\ UNCHANGED <<avail_idx, no_interrupt, devVars, irq, blkRest, io>>

\* There is none left: interrupts are enabled if the user had enabled them.
NoMore(t) ==
  /\ At(t, "dequeue") /\ ~hasdata
  /\ IF usr_en THEN Goto(t, "test") /\ UNCHANGED running ELSE Finish(t)
  /\ UNCHANGED <<vqVars, blkRest, io, s, stale>>

\* virtqueue_intr_enable: the first test, the flag, the second test.
Test(t) ==
  /\ At(t, "test")
  /\ Goto(t, IF hasdata THEN "more" ELSE "clear")
  /\ UNCHANGED <<vqVars, blkRest, io, s, running, stale>>

Clear(t) ==
  /\ At(t, "clear")
  /\ no_interrupt' = FALSE
  /\ Goto(t, "recheck")
  /\ UNCHANGED <<vrq, avail_idx, devVars, irq, blkRest, io, s, running, stale>>

\* What follows the result rc: the user's thread sets its bit or finishes the requests
\* there are; complete_reqs goes round again or returns.
AfterEnable(t, rc) ==
  CASE th[t].call = "enable" /\ rc = 0 -> Goto(t, "set") /\ UNCHANGED running
    [] th[t].call = "enable" /\ rc = 1 ->
         th' = [th EXCEPT ![t] = [Idle EXCEPT !.pc = "enter"]] /\ UNCHANGED running
    [] th[t].call = "finish" /\ rc = 0 -> Finish(t)
    [] th[t].call = "finish" /\ rc = 1 -> Goto(t, "dequeue") /\ UNCHANGED running

Recheck(t) ==
  /\ At(t, "recheck")
  /\ AfterEnable(t, IF hasdata THEN 1 ELSE 0)
  /\ no_interrupt' = (no_interrupt \/ hasdata)
  /\ UNCHANGED <<vrq, avail_idx, devVars, irq, blkRest, io, s, stale>>

More(t) ==
  /\ At(t, "more")
  /\ AfterEnable(t, 1)
  /\ UNCHANGED <<vqVars, blkRest, io, s, stale>>

\* virtqueue_ring_interrupt, virtio_blkdev_recv_done and uk_blkdev_drv_queue_event.
Interrupt ==
  /\ irq /\ NoHandler
  /\ irq' = FALSE
  /\ no_interrupt' = (no_interrupt \/ hasdata)
  /\ intr_en' = (intr_en /\ ~hasdata)
  /\ \/ ~hasdata /\ UNCHANGED <<events, th>>
     \/ hasdata /\ Threaded /\ events < MaxEvents /\ events' = events + 1 /\ UNCHANGED th
     \/ hasdata /\ ~Threaded /\ Goto("handler", "enter") /\ UNCHANGED events
  /\ UNCHANGED <<vrq, avail_idx, devVars, state, usr_en, io, s, running, stale>>

-----------------------------------------------------------------------------
Crashed == \E t \in Worker : th[t].pc = "crashed"

\* The queue is empty; interrupts are as virtio_blkdev_queue_setup leaves them.
BlkInit ==
  /\ VqStart(VringInit, FALSE)
  /\ state = "running"
  /\ usr_en = FALSE /\ intr_en = FALSE
  /\ events = 0
  /\ io = [c \in Caller |-> IoIdle]
  /\ s = [c \in Caller |-> 0]
  /\ th = [t \in Worker |-> Idle]
  /\ running = "none"
  /\ stale = FALSE

CompleteReqs(t) ==
  \/ Enter(t) \/ Found(t) \/ Take(t) \/ Complete(t) \/ NoMore(t)
  \/ Test(t) \/ Clear(t) \/ Recheck(t) \/ More(t)

BlkDevice(A) == A /\ state = "running" /\ UNCHANGED <<blkRest, io, s, th, running, stale>>

BlkNext ==
  /\ ~Crashed /\ ~stale
  /\ \/ \E c \in Caller : (\E n \in Segs : Submit(c, n)) \/ Enqueue(c) \/ Return(c)
     \/ IntrEnable \/ SetEnabled \/ IntrDisable \/ DisableBits \/ Stop
     \/ Dispatch
     \/ \E t \in Worker : CompleteReqs(t)
     \/ Interrupt
     \/ BlkDevice(Device)

BlkSpec == BlkInit /\ [][BlkNext]_blkVars

-----------------------------------------------------------------------------
BlkTypeOK ==
  /\ VqTypeOK
  /\ state \in {"running", "configured"}
  /\ {usr_en, intr_en} \subseteq BOOLEAN
  /\ events \in 0..MaxEvents
  /\ io \in [Caller -> [pc : {"idle", "enqueue", "wait"}, head : Desc \cup {EndOfList},
                        next : Desc \cup {EndOfList}, n : {0} \cup Segs]]
  /\ s \in [Caller -> 0..1]
  /\ th \in [Worker -> [pc : Pc, call : {"finish", "enable"},
                         got : [head : Desc, next : Desc \cup {EndOfList},
                                cookie : Cookie \cup {NoCookie}, len : {"good", "bad"}]]]
  /\ running \in Caller \cup {"none", "user", "dispatcher"}
  /\ stale \in BOOLEAN

Waits(c) == io[c].pc = "wait" /\ s[c] = 0

Detaching(t) == th[t].pc = "link"

\* No descriptor is lost or used twice until the device is reset; a chain that is being
\* detached is about to become free.
BlkPartition == state = "running" /\ (\A t \in Worker : ~Detaching(t)) => DescPartition

\* A callback never reaches the stack of a call that has returned: every request in the
\* rings is that of a caller that still waits, and no caller has two.
RequestsLive ==
  state = "running" =>
    /\ \A h \in InUse : Waits(vrq.info[h].cookie)
    /\ \A h, g \in InUse : vrq.info[h].cookie = vrq.info[g].cookie => h = g
    /\ \A t \in Worker : Detaching(t) => Waits(th[t].got.cookie)

\* A caller waits only for a request the rings still hold, or whose callback is about to
\* be called, as long as the device answers properly.
WaitsForRequest ==
  state = "running" /\ Lens = {"good"} =>
    \A c \in Caller : Waits(c) => \/ \E h \in InUse : vrq.info[h].cookie = c
                                 \/ \E t \in Worker : Detaching(t) /\ th[t].got.cookie = c

\* What the code does not keep to without dispatcher threads: no thread acts on what it has
\* read of the ring before somebody else changed it.
NothingStale == ~stale

\* When the user has enabled interrupts and all work is done, the interrupt is armed and
\* no response is left in the ring.
BlkRearmed ==
  /\ usr_en /\ state = "running" /\ Lens = {"good"}
  /\ CpuFree /\ \A t \in Worker : th[t].pc = "idle"
  /\ events = 0 /\ ~irq /\ ~announce
  => ~no_interrupt /\ ~hasdata

\* What the code does not keep to: the assertion of virtio_blkdev_complete_reqs, "Queue
\* interrupts have to be off when calling receive".
CompleteAssert == Crashed => stale

\* "If there are pending requests, this function will return -EBUSY because the queues
\* are not empty": after uk_blkdev_stop nobody waits for a request.
StoppedEmpty == state = "configured" => \A c \in Caller : ~Waits(c)

\* Nothing of the block driver's requests is lost or used after its end.  With dispatcher
\* threads this holds throughout; with callbacks in the handler until a thread acts on what
\* the handler has changed.
BlkInv ==
  /\ BlkTypeOK
  /\ Threaded => NothingStale
  /\ NothingStale => BlkPartition /\ RequestsLive /\ WaitsForRequest /\ BlkRearmed
=============================================================================

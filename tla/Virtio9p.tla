------------------------------ MODULE Virtio9p ------------------------------
(***************************************************************************)
(* The 9P client on the virtio transport (virtio_9p.c).  The virtqueue is  *)
(* used by its contract, VirtQueueAbs: buffers the device has, and buffers *)
(* it has returned.  A request holds its descriptors until it is dequeued. *)
(***************************************************************************)
EXTENDS Uk9p

CONSTANT Slots   \* requests for which the virtqueue has descriptors

VARIABLES device,  \* requests the device has
          done,    \* requests the device has returned
          virq,     \* an interrupt is on its way
          recv     \* virtio_9p_recv does not run, has begun, or has handled a request

queueVars == <<device, done, virq, recv>>
v9pVars == <<uk9pVars, queueVars>>

QueueInit == device = {} /\ done = <<>> /\ virq = FALSE /\ recv = "out"

V9pInit == Uk9pInit /\ QueueInit

InQueue == device \cup Range(done)
QueueRoom == Cardinality(InQueue) < Slots

\* virtio_9p_request: the virtqueue's reference is kept if the request was enqueued.
VirtioSend(t) ==
  LET r == call[t].req
  IN  /\ Runs(t, "xtest") \/ Runs(t, "xchk")
      /\ QueueRoom
      /\ req' = [req EXCEPT ![r].state = "SENT", ![r].ref = @ + 1]
      /\ device' = device \cup {r}
      /\ Goto(t, SendNext(call[t].pc))
      /\ UNCHANGED <<tag_bm, req_list, req_free_list, runVars, done, virq, recv>>

VirtioSendFull(t) == ~QueueRoom /\ NoRoom(t) /\ UNCHANGED <<reqVars, queueVars>>

\* virtqueue_ring_interrupt calls virtio_9p_recv if the device has returned something.
Interrupt ==
  /\ virq /\ recv = "out"
  /\ virq' = FALSE
  /\ recv' = IF done = <<>> THEN "out" ELSE "begun"
  /\ UNCHANGED <<uk9pVars, device, done>>

\* One round of virtio_9p_recv with a request that the device has returned.
RecvRound ==
  LET r == Head(done)
      p == ReqPut(Receive(req, r), req_free_list, r)
  IN  /\ recv # "out" /\ done # <<>>
      /\ req' = p.req /\ req_free_list' = p.free
      /\ blocked' = IF req[r].state = "SENT" THEN Woken({r}) ELSE blocked
      /\ done' = Tail(done)
      /\ recv' = "handled"
      /\ UNCHANGED <<tag_bm, req_list, call, waitq, cpu, device, virq>>

BadNotify == {}  \* threads that wait for room are not woken

\* The queues that virtio_9p_recv wakes at its end.
Notify == IF recv = "handled" THEN {xmit_wq} ELSE {}

\* The round that finds no more; when no descriptor is in use it is not made.
RecvEnd ==
  /\ recv # "out" /\ done = <<>>
  /\ blocked' = Woken(Notify)
  /\ recv' = "out"
  /\ UNCHANGED <<reqVars, call, waitq, cpu, device, done, virq>>

\* The device answers in any order, also while the handler runs, and interrupts.
Answer(r) ==
  /\ r \in device
  /\ device' = device \ {r}
  /\ done' = Append(done, r)
  /\ virq' = TRUE
  /\ UNCHANGED <<uk9pVars, recv>>

\* Threads run while the handler does not.
Step(t) ==
  /\ recv = "out"
  /\ \/ (CallerStep(t) \/ Schedule(t) \/ Yield(t)) /\ UNCHANGED queueVars
     \/ \E r \in Req : Create(t, r) /\ UNCHANGED queueVars
     \/ VirtioSend(t) \/ VirtioSendFull(t)

V9pNext ==
  \/ \E t \in Caller : Step(t)
  \/ Interrupt \/ RecvRound \/ RecvEnd
  \/ \E r \in Req : Answer(r)

V9pSpec == V9pInit /\ [][V9pNext]_v9pVars

-----------------------------------------------------------------------------
V9pTypeOK ==
  /\ device \subseteq Req /\ done \in Seq(Req) /\ IsInjective(done)
  /\ virq \in BOOLEAN /\ recv \in {"out", "begun", "handled"}

\* The virtqueue has each request that is SENT, once, and no other.
SentOnce ==
  /\ device \cap Range(done) = {}
  /\ InQueue = {r \in Req : req[r].state = "SENT"} /\ InQueue \subseteq HeldReqs

\* Every reference is accounted for: a caller's until it removes the request, and the
\* virtqueue's while the request is in it.  So a request in the virtqueue is never
\* reused; and a request without a reference is on the free list or was never used.
RefsExact ==
  \A r \in Req :
    /\ req[r].ref = (IF r \in HeldReqs THEN 1 ELSE 0) + (IF r \in InQueue THEN 1 ELSE 0)
    /\ req[r].ref = 0 => r \in Free \cup Fresh

\* A thread that sleeps is not forgotten: one that waits for room finds a request in the
\* virtqueue, whose return will wake it, or the handler is about to; one that waits for
\* its reply has not been answered yet; and an answer is announced by an interrupt.
SleepersHaveHope ==
  /\ \A t \in blocked \cap Caller : cpu # t =>
       \/ call[t].pc = "xenq" /\ (InQueue # {} \/ recv = "handled")
       \/ call[t].pc = "renq" /\ call[t].req \in InQueue
  /\ done # <<>> => virq \/ recv # "out"

\* The 9P client on virtio: tags, requests, references and waiting threads stay consistent
\* in every interleaving of callers, interrupt handler and device.
V9pInv == Uk9pInv /\ V9pTypeOK /\ SentOnce /\ RefsExact /\ SleepersHaveHope
=============================================================================

------------------------------ MODULE P9Front -------------------------------
(***************************************************************************)
(* The 9P client on the Xen transport (9pfront.c), with one ring pair.     *)
(* Requests and replies go through two rings; the event channel's handler  *)
(* wakes a bottom-half thread, which takes the replies off the ring.       *)
(***************************************************************************)
EXTENDS Uk9p

CONSTANT RingSize   \* messages for which a ring has room

VARIABLES out,        \* requests in the out ring
          backend,    \* requests the backend has
          in,         \* replies in the in ring
          event,      \* the event channel is pending
          data_avail,
          bh          \* where the bottom-half thread is

ringVars == <<out, backend, in, event>>
p9fVars == <<uk9pVars, ringVars, data_avail, bh>>

RingInit ==
  /\ out = <<>> /\ backend = {} /\ in = <<>>
  /\ event = FALSE /\ data_avail = FALSE
  /\ bh = "test"

P9fInit == Uk9pInit /\ RingInit

-----------------------------------------------------------------------------
\* p9front_request.  A message is the tag of a request; for is the request it is about.
Message(r) == [tag |-> req[r].tag, for |-> r]

RingRoom == Len(out) < RingSize

XenSend(t) ==
  /\ Runs(t, "xtest") \/ Runs(t, "xchk")
  /\ RingRoom
  /\ out' = Append(out, Message(call[t].req))
  /\ req' = [req EXCEPT ![call[t].req].state = "SENT"]
  /\ Goto(t, SendNext(call[t].pc))
  /\ UNCHANGED <<tag_bm, req_list, req_free_list, runVars, backend, in, event,
                 data_avail, bh>>

XenSendFull(t) ==
  ~RingRoom /\ NoRoom(t) /\ UNCHANGED <<reqVars, ringVars, data_avail, bh>>

BadHandlerWakes == {BhThread}  \* threads that wait for room are not woken

\* The queues p9front_handler wakes.
HandlerWakes == {xmit_wq, BhThread}

\* p9front_handler: the event channel's interrupt.
Handler ==
  /\ event
  /\ event' = FALSE
  /\ data_avail' = TRUE
  /\ blocked' = Woken(HandlerWakes)
  /\ UNCHANGED <<reqVars, call, waitq, cpu, out, backend, in, bh>>

-----------------------------------------------------------------------------
\* The bottom half.

BhAt(pc) == cpu = BhThread /\ bh = pc

\* p9front_bh_handler: wait_event on data_avail.
BhWait ==
  /\ \/ BhAt("test") /\ bh' = (IF data_avail THEN "recv" ELSE "enq") /\ UNCHANGED runVars
     \/ BhAt("enq") /\ Enqueue(BhThread, BhThread) /\ bh' = "chk"
     \/ BhAt("chk") /\ data_avail /\ bh' = "deq" /\ UNCHANGED runVars
     \/ BhAt("chk") /\ ~data_avail /\ bh' = "enq" /\ YieldCpu
     \/ BhAt("deq") /\ Dequeue(BhThread, BhThread) /\ bh' = "recv"
  /\ UNCHANGED <<reqVars, call, ringVars, data_avail>>

\* uk_9pdev_req_lookup: the first request of the list with the tag.
Matches(tag) == {k \in DOMAIN req_list : req[req_list[k]].tag = tag}
Lookup(tag) == req_list[CHOOSE k \in Matches(tag) : \A j \in Matches(tag) : k <= j]

\* One round of p9front_recv with a reply: the request found gets it, its waiter is woken.
\* The reference that the lookup takes is dropped in the same round.
RecvReply ==
  /\ BhAt("recv") /\ in # <<>>
  /\ LET r == Lookup(Head(in).tag)
     IN  IF Matches(Head(in).tag) # {} /\ req[r].state = "SENT"
           THEN req' = Receive(req, r) /\ blocked' = Woken({r})
           ELSE UNCHANGED <<req, blocked>>
  /\ in' = Tail(in)
  /\ UNCHANGED <<tag_bm, req_list, req_free_list, call, waitq, cpu, out, backend, event,
                 data_avail, bh>>

\* The round that finds the ring empty: the test, and then the write of data_avail.
RecvEmpty ==
  /\ \/ BhAt("recv") /\ in = <<>> /\ bh' = "clear" /\ UNCHANGED data_avail
     \/ BhAt("clear") /\ data_avail' = FALSE /\ bh' = "test"
  /\ UNCHANGED <<uk9pVars, ringVars>>

Bh == BhWait \/ RecvReply \/ RecvEmpty

-----------------------------------------------------------------------------
\* The backend takes requests in order, answers in any order while the in ring has room,
\* and sends an event.
BackendTake ==
  /\ out # <<>>
  /\ backend' = backend \cup {Head(out)} /\ out' = Tail(out)
  /\ UNCHANGED <<uk9pVars, in, event, data_avail, bh>>

BackendAnswer(m) ==
  /\ m \in backend /\ Len(in) < RingSize
  /\ backend' = backend \ {m} /\ in' = Append(in, m)
  /\ event' = TRUE
  /\ UNCHANGED <<uk9pVars, out, data_avail, bh>>

Others == UNCHANGED <<ringVars, data_avail, bh>>

P9fNext ==
  \/ \E t \in Caller :
       \/ XenSend(t) \/ XenSendFull(t)
       \/ (CallerStep(t) \/ Yield(t)) /\ Others
       \/ \E r \in Req : Create(t, r) /\ Others
  \/ \E t \in AnyThread : Schedule(t) /\ Others
  \/ Bh \/ Handler
  \/ BackendTake \/ \E m \in backend : BackendAnswer(m)

P9fSpec == P9fInit /\ [][P9fNext]_p9fVars

-----------------------------------------------------------------------------
P9fTypeOK ==
  /\ out \in Seq([tag : Tag, for : Req]) /\ in \in Seq([tag : Tag, for : Req])
  /\ backend \subseteq [tag : Tag, for : Req]
  /\ Len(out) <= RingSize /\ Len(in) <= RingSize
  /\ {event, data_avail} \subseteq BOOLEAN
  /\ bh \in {"test", "enq", "chk", "deq", "recv", "clear"}

\* The messages between p9front_request and p9front_recv.
InFlight == Range(out) \cup backend \cup Range(in)

\* A request is on its way, at the backend or on its way back exactly while its state is
\* SENT, once, and its message has the tag by which a lookup finds it and no other: a reply
\* reaches the request it answers, although tags and request structures are reused at once.
RepliesReachTheirRequest ==
  /\ {m.for : m \in InFlight} = {r \in Req : req[r].state = "SENT"}
  /\ IsInjective(out) /\ IsInjective(in)
  /\ Range(out) \cap backend = {} /\ Range(in) \cap (Range(out) \cup backend) = {}
  /\ \A m \in InFlight : m.tag = req[m.for].tag /\ m.for \in HeldReqs

\* A caller has the one reference of its request; p9front_recv gives up the one its lookup
\* takes.  A request without a reference is on the free list or was never used.
CallersHoldRefs ==
  \A r \in Req : /\ req[r].ref = IF r \in HeldReqs THEN 1 ELSE 0
                 /\ req[r].ref = 0 => r \in Free \cup Fresh

\* A thread that waits for room in the out ring is not forgotten: there is a request
\* whose reply will make p9front_handler wake it, or the event is already there.
SendersHaveHope ==
  \A t \in blocked \cap Caller :
    cpu # t /\ call[t].pc = "xenq" => event \/ out # <<>> \/ backend # {}

\* The bottom half does not go to sleep on a reply: if it sleeps while there is one in
\* the ring, the event that announces it is still to be handled.
NoReplyLost == BhThread \in blocked /\ cpu # BhThread /\ in # <<>> => event

\* The 9P client on Xen: requests, tags and replies stay consistent in every interleaving of
\* callers, bottom half, handler and backend, and no sender is forgotten.
P9fInv ==
  Uk9pInv /\ P9fTypeOK /\ RepliesReachTheirRequest /\ CallersHoldRefs /\ SendersHaveHope
=============================================================================

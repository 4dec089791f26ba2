------------------------------ MODULE XsComms ------------------------------
(***************************************************************************)
(* The connection of a Xen guest with the Xenstore                         *)
(* (plat/xen/xenbus/xs_comms.c): a pool of requests that threads wait for, *)
(* the thread that moves messages between the queue of requests and the    *)
(* page that is shared with the store, and watch events                    *)
(* (plat/xen/xenbus/client.c).                                             *)
(*                                                                         *)
(* Threads are cooperative: while the xenstore thread sends and receives   *)
(* no other thread runs, but the store and the event handler do.  Of a     *)
(* message its identifier, its length and the index of its first byte in   *)
(* the ring are kept.  The store answers each request once and with its    *)
(* type or an error, so that the mismatch of process_reply does not occur; *)
(* when there is no memory for a message xs_recv tries again, which is no  *)
(* step here.                                                              *)
(***************************************************************************)
EXTENDS Integers, Sequences, FiniteSets, Functions

CONSTANTS Thread,      \* callers of xs_msg_reply
          NoThread,
          Pool,        \* XS_REQ_POOL_SIZE
          Ring,        \* XENSTORE_RING_SIZE
          IdxMod,      \* values of a XENSTORE_RING_IDX
          Header,      \* size of a struct xsd_sockmsg
          ReqLen, RepLen,  \* lengths of the payloads of requests and of replies
          MaxEvents    \* bound on the watch events that are on their way

ASSUME XsAssumption ==
  /\ Pool \in Nat \ {0} /\ Ring \in Nat \ {0} /\ Header \in Nat \ {0}
  /\ IdxMod \in Nat /\ IdxMod > 2 * Ring /\ IdxMod % Ring = 0
  /\ ReqLen \subseteq Nat /\ RepLen \subseteq Nat /\ MaxEvents \in Nat
  /\ NoThread \notin Thread /\ IsFiniteSet(Thread)

VARIABLES bm,            \* entries_bm
          num_live, last_probed,
          queued,        \* requests to be sent
          entry,         \* length, reply and whether it has been received
          pc, len, id,   \* of a caller: where it waits, its payload, its request
          xs,            \* where the xenstore thread is
          req_prod, req_cons, rsp_prod, rsp_cons,
          reqs,          \* messages in the request ring
          taken,         \* bytes of the first of them that the store has taken
          rsps,          \* messages in the response ring
          shown,         \* bytes of the last of them that the store has shown
          todo,          \* requests the store has to answer
          awake,         \* the store has been notified
          irq,           \* the event channel of the guest is pending
          pending_events, watcher  \* of a watch: its events and the thread that waits for them

poolVars == <<bm, num_live, last_probed, queued, entry>>
callVars == <<pc, len, id>>
guestRing == <<req_prod, rsp_cons>>
storeVars == <<req_cons, rsp_prod, taken, shown, todo>>
watchVars == <<pending_events, watcher>>
xsVars == <<poolVars, callVars, xs, guestRing, reqs, rsps, storeVars, awake, irq, watchVars>>

Id == 0 .. Pool - 1
Back(a, b) == (a - b) % IdxMod   \* of 32-bit indices
Size(m) == Header + m.len

XsInit ==
  /\ bm = {} /\ num_live = 0 /\ last_probed = -1 /\ queued = <<>>
  /\ entry = [i \in Id |-> [len |-> 0, recvd |-> 0, reply |-> NoThread]]
  /\ pc = [t \in Thread |-> "idle"]
  /\ len = [t \in Thread |-> 0] /\ id = [t \in Thread |-> 0]
  /\ xs = "woken"
  /\ req_prod = 0 /\ req_cons = 0 /\ rsp_prod = 0 /\ rsp_cons = 0
  /\ reqs = <<>> /\ taken = 0 /\ rsps = <<>> /\ shown = 0 /\ todo = <<>>
  /\ awake = FALSE /\ irq = FALSE
  /\ pending_events = 0 /\ watcher = "idle"

CpuFree == xs \in {"asleep", "woken"}
WakeXs == xs' = IF xs = "asleep" THEN "woken" ELSE xs

-----------------------------------------------------------------------------
\* xs_msg_reply.  Bad... are wrong variants of the definitions that follow them.

\* The entry that is probed next: the first free one after the last probed, around the end.
IsProbed(i) == \A j \in Id \ bm : (i - last_probed - 1) % Pool <= (j - last_probed - 1) % Pool

BadFilled(i, l) == [entry EXCEPT ![i].len = l]  \* recvd is not cleared
Filled(i, l) == [entry EXCEPT ![i].len = l, ![i].recvd = 0]

\* xs_request_get with a free entry, and on to the wait for the reply.
Send(t, l) ==
  /\ num_live < Pool
  /\ \E i \in Id \ bm :
       /\ IsProbed(i)
       /\ bm' = bm \cup {i} /\ last_probed' = i
       /\ entry' = Filled(i, l)
       /\ queued' = Append(queued, i)
       /\ pc' = [pc EXCEPT ![t] = IF entry'[i].recvd # 0 THEN "replied" ELSE "reply"]
       /\ id' = [id EXCEPT ![t] = i]
  /\ num_live' = num_live + 1
  /\ len' = [len EXCEPT ![t] = l]
  /\ WakeXs
  /\ UNCHANGED <<guestRing, reqs, rsps, storeVars, awake, irq, watchVars>>

\* xs_request_get without one.
WaitForEntry(t, l) ==
  /\ num_live = Pool
  /\ pc' = [pc EXCEPT ![t] = "slot"] /\ len' = [len EXCEPT ![t] = l]
  /\ UNCHANGED <<poolVars, id, xs, guestRing, reqs, rsps, storeVars, awake, irq, watchVars>>

Call(t, l) == CpuFree /\ pc[t] = "idle" /\ (Send(t, l) \/ WaitForEntry(t, l))

Retry(t) == CpuFree /\ pc[t] = "freed" /\ (Send(t, len[t]) \/ WaitForEntry(t, len[t]))

BadFreed(t, live) ==  \* only when the pool becomes empty
  [u \in Thread |-> IF u = t THEN "idle"
                    ELSE IF pc[u] = "slot" /\ live = 0 THEN "freed" ELSE pc[u]]

\* xs_request_put wakes those who wait for an entry when the pool has been full.
Freed(t, live) ==
  [u \in Thread |-> IF u = t THEN "idle"
                    ELSE IF pc[u] = "slot" /\ live = Pool - 1 THEN "freed" ELSE pc[u]]

Cleared(i) == bm \ {i}

Return(t) ==
  /\ CpuFree /\ pc[t] = "replied"
  /\ bm' = Cleared(id[t])
  /\ num_live' = num_live - 1
  /\ pc' = Freed(t, num_live - 1)
  /\ id' = [id EXCEPT ![t] = 0] /\ len' = [len EXCEPT ![t] = 0]
  /\ UNCHANGED <<last_probed, queued, entry, xs, guestRing, reqs, rsps, storeVars,
                 awake, irq, watchVars>>

-----------------------------------------------------------------------------
\* The xenstore thread.

AvailToRead == rsp_prod # rsp_cons
AvailSpaceForRead(n) == Back(rsp_prod, rsp_cons) >= n
AvailToWrite == Back(req_prod, req_cons) # Ring /\ queued # <<>>
BadAvailSpaceForWrite(n) == Back(req_prod, req_cons) <= Ring  \* the size is not added
AvailSpaceForWrite(n) == (Back(req_prod, req_cons) + n) % IdxMod <= Ring
AvailWork == AvailToRead \/ AvailToWrite

XsTest ==
  /\ xs \in {"woken", "test"}
  /\ xs' = IF AvailWork THEN "send" ELSE "asleep"
  /\ UNCHANGED <<poolVars, callVars, guestRing, reqs, rsps, storeVars, awake, irq, watchVars>>

CallerOf(i) == CHOOSE t \in Thread : pc[t] \in {"reply", "replied"} /\ id[t] = i

\* One round of xs_send; without space for the request, or without a request, it ends.
CanWrite ==
  /\ queued # <<>>
  /\ LET n == Size(entry[Head(queued)]) IN n <= Ring /\ AvailSpaceForWrite(n)

XsSend ==
  /\ xs = "send"
  /\ \/ /\ CanWrite
        /\ LET i == Head(queued)
           IN  /\ reqs' = Append(reqs, [id |-> i, len |-> entry[i].len, from |-> CallerOf(i),
                                         at |-> req_prod])
               /\ req_prod' = (req_prod + Size(entry[i])) % IdxMod
        /\ awake' = TRUE
        /\ queued' = Tail(queued)
        /\ UNCHANGED xs
     \/ /\ ~CanWrite
        /\ xs' = "recv"
        /\ UNCHANGED <<queued, req_prod, reqs, awake>>
  /\ UNCHANGED <<bm, num_live, last_probed, entry, callVars, rsp_cons, rsps, storeVars, irq, watchVars>>

\* process_reply
Reply(m) ==
  /\ entry' = IF m.id \in bm
                THEN [entry EXCEPT ![m.id].recvd = 1, ![m.id].reply = m.from]
                ELSE entry
  /\ pc' = [t \in Thread |-> IF m.id \in bm /\ pc[t] = "reply" /\ id[t] = m.id
                               THEN "replied" ELSE pc[t]]
  /\ UNCHANGED watchVars

\* process_watch_event and xenbus_watch_notify_event
WatchEvent ==
  /\ pending_events' = pending_events + 1
  /\ watcher' = IF watcher = "asleep" THEN "woken" ELSE watcher
  /\ UNCHANGED <<entry, pc>>

CanRead == AvailSpaceForRead(Header) /\ AvailSpaceForRead(Size(Head(rsps)))

WasFull == Back(rsp_prod, rsp_cons) >= Ring

\* One round of xs_recv; without a complete message it ends.
XsRecv ==
  /\ xs = "recv"
  /\ \/ /\ CanRead
        /\ LET m == Head(rsps)
           IN  /\ rsp_cons' = (rsp_cons + Size(m)) % IdxMod
               /\ IF m.id = Pool THEN WatchEvent ELSE Reply(m)
        /\ rsps' = Tail(rsps)
        /\ awake' = (awake \/ WasFull)
        /\ UNCHANGED xs
     \/ /\ ~CanRead
        /\ xs' = "test"
        /\ UNCHANGED <<entry, pc, rsp_cons, rsps, awake, watchVars>>
  /\ UNCHANGED <<bm, num_live, last_probed, queued, len, id, req_prod, reqs, storeVars, irq>>

\* xs_evtchn_handler
Handler ==
  /\ irq /\ irq' = FALSE
  /\ WakeXs
  /\ UNCHANGED <<poolVars, callVars, guestRing, reqs, rsps, storeVars, awake, watchVars>>

\* xenbus_watch_wait_event
WatchWait ==
  /\ CpuFree /\ watcher \in {"idle", "woken"}
  /\ IF pending_events > 0
       THEN pending_events' = pending_events - 1 /\ watcher' = "idle"
       ELSE UNCHANGED pending_events /\ watcher' = "asleep"
  /\ UNCHANGED <<poolVars, callVars, xs, guestRing, reqs, rsps, storeVars, awake, irq>>

-----------------------------------------------------------------------------
\* The store.  It takes the bytes of a request and shows those of a message as they come,
\* and notifies the guest of both; it rests when it can do neither.

StoreTake(n) ==
  /\ awake /\ reqs # <<>>
  /\ n \in 1 .. Size(Head(reqs)) - taken
  /\ req_cons' = (req_cons + n) % IdxMod
  /\ irq' = TRUE
  /\ IF taken + n = Size(Head(reqs))
       THEN /\ taken' = 0 /\ reqs' = Tail(reqs)
            /\ todo' = Append(todo, [id |-> Head(reqs).id, from |-> Head(reqs).from])
       ELSE taken' = taken + n /\ UNCHANGED <<todo, reqs>>
  /\ UNCHANGED <<poolVars, callVars, xs, guestRing, rsps, rsp_prod, shown, awake, watchVars>>

Room == Ring - Back(rsp_prod, rsp_cons)
Complete == rsps # <<>> => shown = Size(rsps[Len(rsps)])

Show(n) ==
  /\ n <= Room
  /\ rsp_prod' = (rsp_prod + n) % IdxMod
  /\ irq' = TRUE
  /\ UNCHANGED <<poolVars, callVars, xs, guestRing, reqs, req_cons, taken, awake, watchVars>>

Begin(m, n) ==
  /\ awake /\ Complete
  /\ n \in 1 .. Size(m)
  /\ rsps' = Append(rsps, m) /\ shown' = n
  /\ Show(n)

StoreAnswer(l, n) ==
  /\ todo # <<>>
  /\ Begin([id |-> Head(todo).id, len |-> l, from |-> Head(todo).from, at |-> rsp_prod], n)
  /\ todo' = Tail(todo)

OnTheirWay == Len(SelectSeq(rsps, LAMBDA m : m.id = Pool)) + pending_events

StoreEvent(n) ==
  /\ OnTheirWay < MaxEvents
  /\ Begin([id |-> Pool, len |-> 0, from |-> NoThread, at |-> rsp_prod], n)
  /\ UNCHANGED todo

StoreContinue(n) ==
  /\ awake /\ ~Complete
  /\ n \in 1 .. Size(rsps[Len(rsps)]) - shown
  /\ shown' = shown + n
  /\ Show(n)
  /\ UNCHANGED <<rsps, todo>>

StoreRest ==
  /\ awake /\ reqs = <<>>
  /\ Room = 0 \/ (Complete /\ todo = <<>>)
  /\ awake' = FALSE
  /\ UNCHANGED <<poolVars, callVars, xs, guestRing, reqs, rsps, storeVars, irq, watchVars>>

\* A change in the store, and so an event, comes at any time.
StoreChange ==
  /\ ~awake /\ OnTheirWay < MaxEvents
  /\ awake' = TRUE
  /\ UNCHANGED <<poolVars, callVars, xs, guestRing, reqs, rsps, storeVars, irq, watchVars>>

Bytes == 1 .. Ring
Answering == \E l \in RepLen, n \in Bytes : StoreAnswer(l, n)
Continuing == \E n \in Bytes : StoreContinue(n)
Taking == \E n \in Bytes : StoreTake(n)

XsNext ==
  \/ \E t \in Thread : (\E l \in ReqLen : Call(t, l)) \/ Retry(t) \/ Return(t)
  \/ XsTest \/ XsSend \/ XsRecv \/ Handler \/ WatchWait
  \/ Taking \/ Answering \/ (\E n \in Bytes : StoreEvent(n)) \/ Continuing
  \/ StoreRest \/ StoreChange

XsSpec == XsInit /\ [][XsNext]_xsVars

-----------------------------------------------------------------------------
Index == 0 .. IdxMod - 1
Message == [id : 0..Pool, len : ReqLen \cup RepLen \cup {0},
            from : Thread \cup {NoThread}, at : Index]

XsTypeOK ==
  /\ bm \subseteq Id /\ num_live \in 0..Pool /\ last_probed \in Id \cup {-1}
  /\ queued \in Seq(Id)
  /\ entry \in [Id -> [len : ReqLen \cup {0}, recvd : {0, 1}, reply : Thread \cup {NoThread}]]
  /\ pc \in [Thread -> {"idle", "slot", "freed", "reply", "replied"}]
  /\ len \in [Thread -> ReqLen \cup {0}] /\ id \in [Thread -> Id]
  /\ xs \in {"asleep", "woken", "test", "send", "recv"}
  /\ {req_prod, req_cons, rsp_prod, rsp_cons} \subseteq Index
  /\ reqs \in Seq(Message) /\ rsps \in Seq(Message)
  /\ todo \in Seq([id : Id, from : Thread])
  /\ taken \in Nat /\ shown \in Nat
  /\ {awake, irq} \subseteq BOOLEAN
  /\ pending_events \in Nat /\ watcher \in {"idle", "asleep", "woken"}

-----------------------------------------------------------------------------
\* The pool of requests.

Held == {t \in Thread : pc[t] \in {"reply", "replied"}}

\* xs_request_get and xs_request_put keep bitmap, count and callers in step: the entries
\* whose bit is set are those that callers hold, each has one caller, and num_live is
\* their number.
PoolExact ==
  /\ bm = {id[t] : t \in Held}
  /\ num_live = Cardinality(bm) /\ num_live = Cardinality(Held)

\* No two callers hold the same entry.
OneCaller == \A t, u \in Held : id[t] = id[u] => t = u

\* No wake-up is lost: whoever waits for an entry waits on a full pool, whoever waits for a
\* reply has none, the watcher has no event, and the xenstore thread sleeps only when there
\* is nothing to do or the handler is about to wake it.
XsNoLostWakeup ==
  /\ \A t \in Thread : pc[t] = "slot" => num_live = Pool
  /\ \A t \in Thread : pc[t] = "reply" => entry[id[t]].recvd = 0
  /\ watcher = "asleep" => pending_events = 0
  /\ xs = "asleep" => ~AvailWork \/ irq

-----------------------------------------------------------------------------
\* The requests that are on their way.

\* Whose answer it is for: the caller t waits for the reply to its request i.
Awaits(t, i) == t \in Thread /\ pc[t] = "reply" /\ id[t] = i

IsRequest(m) == m.id # Pool

\* No identifier is used twice in a ring or among the requests the store has taken.
Once(s) == \A j, k \in DOMAIN s : IsRequest(s[j]) /\ s[j].id = s[k].id => j = k

Apart(s, r) == \A j \in DOMAIN s, k \in DOMAIN r : IsRequest(s[j]) => s[j].id # r[k].id

Unsent(s) == \A j \in DOMAIN s, k \in DOMAIN queued : s[j].id # queued[k]

FromCaller(s) == \A j \in DOMAIN s : IsRequest(s[j]) => Awaits(s[j].from, s[j].id)

ToBeSent == \A k \in DOMAIN queued : \E t \in Thread : Awaits(t, queued[k])

\* An identifier on its way is that of one caller, which still waits, and it is on its way
\* once: to be sent, in the ring of requests, with the store, or in the ring of responses.
\* This is what makes it safe to use identifiers again.
InFlight ==
  /\ IsInjective(queued)
  /\ ToBeSent
  /\ \A j \in DOMAIN reqs : IsRequest(reqs[j])
  /\ Once(reqs) /\ Once(todo) /\ Once(rsps)
  /\ Unsent(reqs) /\ Unsent(todo) /\ Unsent(rsps)
  /\ Apart(reqs, todo) /\ Apart(reqs, rsps) /\ Apart(todo, rsps)
  /\ FromCaller(reqs) /\ FromCaller(todo) /\ FromCaller(rsps)

\* Although identifiers are used again, the reply that a caller of xs_msg_reply is about to
\* return is the store's answer to its own request.
OwnReply == \A t \in Thread : pc[t] = "replied" => entry[id[t]].reply = t

-----------------------------------------------------------------------------
\* The bytes in the rings.

\* The messages of a ring follow one another, also where the indices wrap, and no two of
\* them share a byte.
End(m) == (m.at + Size(m)) % IdxMod
InARow(s, prod) ==
  /\ \A k \in DOMAIN s \ {1} : s[k].at = End(s[k - 1])
  /\ \A j, k \in DOMAIN s :
       j < k => Back(prod, s[j].at) >= Back(prod, s[k].at) + Size(s[j])

\* xs_msg_write never overruns what the store has not taken: what is between the indices
\* fits into the ring, and it is the messages in it, but for what the store has taken.
RequestBytes ==
  /\ Back(req_prod, req_cons) <= Ring
  /\ InARow(reqs, req_prod)
  /\ reqs = <<>> => req_prod = req_cons /\ taken = 0
  /\ reqs # <<>> => /\ taken < Size(Head(reqs))
                    /\ Back(req_prod, Head(reqs).at) = Back(req_prod, req_cons) + taken
                    /\ Back(req_prod, reqs[Len(reqs)].at) = Size(reqs[Len(reqs)])
  /\ \A k \in DOMAIN reqs : Size(reqs[k]) <= Ring

\* xs_recv reads messages where the store has put them, and none that is not complete.
ResponseBytes ==
  /\ Back(rsp_prod, rsp_cons) <= Ring
  /\ InARow(rsps, rsp_prod)
  /\ rsps = <<>> => rsp_prod = rsp_cons
  /\ rsps # <<>> => /\ Head(rsps).at = rsp_cons
                    /\ shown \in 1 .. Size(rsps[Len(rsps)])
                    /\ Back(rsp_prod, rsps[Len(rsps)].at) = shown

\* What xs_msg_write, the store and xs_recv make of the two rings.
XsRing == RequestBytes /\ ResponseBytes

-----------------------------------------------------------------------------
\* The inductive invariant: whatever the callers, the xenstore thread, the handler and the
\* store do, the pool is exact, no wake-up is lost, every request on its way has its one
\* caller, and the rings hold whole messages.
XsInv ==
  XsTypeOK /\ OneCaller /\ PoolExact /\ XsNoLostWakeup /\ InFlight /\ OwnReply /\ XsRing

\* The assertion of xs_msg_write on the producer index, when the message has been copied.
WriteAssert ==
  xs = "send" /\ CanWrite =>
    (req_prod + Size(entry[Head(queued)])) % IdxMod <= (req_cons + Ring) % IdxMod
=============================================================================

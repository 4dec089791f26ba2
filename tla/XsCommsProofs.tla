--------------------------- MODULE XsCommsProofs ----------------------------
(***************************************************************************)
(* Proofs about the Xenstore client as a whole: its pool of requests, the  *)
(* wake-ups of its callers, the replies they get and its two rings, for any *)
(* number of callers, any size of the pool and of the rings, and any width *)
(* of the indices.                                                         *)
(***************************************************************************)
EXTENDS XsComms, QueueLemmas, TLAPS

-----------------------------------------------------------------------------
(* The pool.  The part of the invariant that is about it is inductive on   *)
(* its own.                                                                *)

XsShape ==
  /\ num_live \in Nat /\ pending_events \in Nat
  /\ bm \subseteq Id
  /\ pc \in [Thread -> {"idle", "slot", "freed", "reply", "replied"}]
  /\ id \in [Thread -> Id]
  /\ entry = [i \in Id |-> entry[i]]
  /\ \A i \in Id : /\ entry[i] = [len |-> entry[i].len, recvd |-> entry[i].recvd,
                                  reply |-> entry[i].reply]
                   /\ entry[i].recvd \in {0, 1}

PoolInv == XsShape /\ OneCaller /\ PoolExact /\ XsNoLostWakeup

LEMMA TypesShape == XsTypeOK => XsShape
BY DEF XsTypeOK, XsShape

\* The entry of a request that is handed out.
LEMMA FilledEntry ==
  ASSUME XsShape, NEW i \in Id, NEW l
  PROVE  Filled(i, l) = [j \in Id |-> IF j = i
                                        THEN [len |-> l, recvd |-> 0, reply |-> entry[i].reply]
                                        ELSE entry[j]]
<1>1. [entry[i] EXCEPT !.len = l]
        = [len |-> l, recvd |-> entry[i].recvd, reply |-> entry[i].reply]
  BY DEF XsShape
<1>2. Filled(i, l) = [j \in Id |-> IF j = i
                                     THEN [[entry[i] EXCEPT !.len = l] EXCEPT !.recvd = 0]
                                     ELSE entry[j]]
  BY DEF Filled, XsShape
<1> QED
  BY <1>1, <1>2, Zenon

\* A caller that finds the pool full.
LEMMA WaitKeeps ==
  ASSUME PoolInv, NEW t \in Thread, NEW l, pc[t] \in {"idle", "freed"}, WaitForEntry(t, l)
  PROVE  PoolInv'
<1> USE DEF WaitForEntry, poolVars, watchVars, guestRing, storeVars
<1>1. Held' = Held
  BY DEF PoolInv, XsShape, Held
<1>2. XsShape'
  BY DEF PoolInv, XsShape
<1>3. OneCaller' /\ PoolExact'
  BY <1>1, Zenon DEF PoolInv, OneCaller, PoolExact
<1>4. XsNoLostWakeup'
  <2>1. AvailWork' = AvailWork
    BY DEF AvailWork, AvailToRead, AvailToWrite, Back
  <2> QED
    BY <2>1, Zenon DEF PoolInv, XsShape, XsNoLostWakeup
<1> QED
  BY <1>2, <1>3, <1>4 DEF PoolInv

\* The steps that leave the pool and its callers as they are.

LEMMA PoolUnchanged ==
  ASSUME PoolInv, UNCHANGED <<bm, num_live, entry, pc, id>>, pending_events' \in Nat
  PROVE  /\ XsShape' /\ OneCaller' /\ PoolExact'
         /\ \A t \in Thread : pc'[t] = "slot" => num_live' = Pool
         /\ \A t \in Thread : pc'[t] = "reply" => entry'[id'[t]].recvd = 0
<1>1. Held' = Held
  BY DEF Held
<1>2. XsShape'
  BY DEF PoolInv, XsShape
<1> QED
  BY <1>1, <1>2, Zenon DEF PoolInv, OneCaller, PoolExact, XsNoLostWakeup

LEMMA TestKeeps == ASSUME PoolInv, XsTest PROVE PoolInv'
<1> USE DEF XsTest, poolVars, callVars, watchVars
<1>1. AvailWork' = AvailWork
  BY DEF AvailWork, AvailToRead, AvailToWrite, Back, guestRing, storeVars
<1>2. xs' = "asleep" => ~AvailWork
  OBVIOUS
<1> QED
  BY <1>1, <1>2, PoolUnchanged, Zenon DEF PoolInv, XsShape, XsNoLostWakeup

LEMMA XsSendKeeps == ASSUME PoolInv, XsSend PROVE PoolInv'
<1> USE DEF XsSend, callVars, watchVars
<1>1. xs' # "asleep"
  OBVIOUS
<1> QED
  BY <1>1, PoolUnchanged, Zenon DEF PoolInv, XsShape, XsNoLostWakeup

LEMMA HandlerKeeps == ASSUME PoolInv, Handler PROVE PoolInv'
<1> USE DEF Handler, poolVars, callVars, watchVars
<1>1. xs' # "asleep"
  BY DEF WakeXs
<1> QED
  BY <1>1, PoolUnchanged, Zenon DEF PoolInv, XsShape, XsNoLostWakeup

LEMMA WatchWaitKeeps == ASSUME PoolInv, WatchWait PROVE PoolInv'
<1> USE DEF WatchWait, poolVars, callVars
<1>1. AvailWork' = AvailWork
  BY DEF AvailWork, AvailToRead, AvailToWrite, Back, guestRing, storeVars
<1>2. pending_events' \in Nat /\ (watcher' = "asleep" => pending_events' = 0)
  BY DEF PoolInv, XsShape
<1> QED
  BY <1>1, <1>2, PoolUnchanged DEF PoolInv, XsNoLostWakeup

\* The store: what it does is announced, and what is not is no work for the guest.
LEMMA AnnouncedKeeps ==
  ASSUME PoolInv, UNCHANGED <<poolVars, callVars, watchVars>>,
         irq' = TRUE \/ UNCHANGED <<xs, irq, guestRing, storeVars>>
  PROVE  PoolInv'
<1> USE DEF poolVars, callVars, watchVars
<1>1. /\ XsShape' /\ OneCaller' /\ PoolExact'
      /\ \A t \in Thread : pc'[t] = "slot" => num_live' = Pool
      /\ \A t \in Thread : pc'[t] = "reply" => entry'[id'[t]].recvd = 0
  BY PoolUnchanged, Zenon DEF PoolInv, XsShape
<1>2. watcher' = "asleep" => pending_events' = 0
  BY DEF PoolInv, XsNoLostWakeup
<1>3. xs' = "asleep" => ~AvailWork' \/ irq'
  <2>1. CASE irq' = TRUE
    BY <2>1, Zenon
  <2>2. CASE UNCHANGED <<xs, irq, guestRing, storeVars>>
    <3>1. AvailWork' = AvailWork
      BY <2>2 DEF AvailWork, AvailToRead, AvailToWrite, Back, guestRing, storeVars
    <3>2. xs = "asleep" => ~AvailWork \/ irq
      BY DEF PoolInv, XsNoLostWakeup
    <3> QED
      BY <2>2, <3>1, <3>2, Zenon
  <2> QED
    BY <2>1, <2>2
<1> QED
  BY <1>1, <1>2, <1>3 DEF PoolInv, XsNoLostWakeup

\* The entry of a request that has been answered.
LEMMA AnsweredEntry ==
  ASSUME NEW e, e = [len |-> e.len, recvd |-> e.recvd, reply |-> e.reply], NEW f
  PROVE  [[e EXCEPT !.recvd = 1] EXCEPT !.reply = f] = [len |-> e.len, recvd |-> 1, reply |-> f]
<1>1. [e EXCEPT !.recvd = 1] = [len |-> e.len, recvd |-> 1, reply |-> e.reply]
  OBVIOUS
<1> DEFINE g == [e EXCEPT !.recvd = 1]
<1>2. g = [len |-> e.len, recvd |-> 1, reply |-> e.reply]
  BY <1>1
<1> HIDE DEF g
<1>3. [g EXCEPT !.reply = f] = [len |-> e.len, recvd |-> 1, reply |-> f]
  BY <1>2
<1> QED
  BY <1>3 DEF g

\* process_reply: the caller of the request, if it still waits, is woken.
LEMMA ReplyKeeps ==
  ASSUME PoolInv, NEW m, Reply(m), UNCHANGED <<bm, num_live, id>>, xs' # "asleep"
  PROVE  PoolInv'
<1> USE DEF Reply, watchVars
<1>1. Held' = Held
  BY DEF PoolInv, XsShape, Held
<1>2. OneCaller' /\ PoolExact'
  BY <1>1 DEF PoolInv, OneCaller, PoolExact
<1>3. /\ entry' = [i \in Id |-> entry'[i]]
      /\ \A i \in Id : /\ entry'[i] = [len |-> entry'[i].len, recvd |-> entry'[i].recvd,
                                       reply |-> entry'[i].reply]
                       /\ entry'[i].recvd \in {0, 1}
                       /\ ~(m.id \in bm /\ i = m.id) => entry'[i] = entry[i]
  <2>1. CASE m.id \in bm
    <3>1. m.id \in Id
      BY <2>1 DEF PoolInv, XsShape
    <3>2. entry' = [i \in Id |-> IF i = m.id
                                   THEN [[entry[i] EXCEPT !.recvd = 1] EXCEPT !.reply = m.from]
                                   ELSE entry[i]]
      BY <2>1, <3>1, Zenon DEF PoolInv, XsShape
    <3>3. [[entry[m.id] EXCEPT !.recvd = 1] EXCEPT !.reply = m.from]
            = [len |-> entry[m.id].len, recvd |-> 1, reply |-> m.from]
      BY <3>1, AnsweredEntry, Zenon DEF PoolInv, XsShape
    <3> QED
      BY <3>1, <3>2, <3>3, ZenonT(30) DEF PoolInv, XsShape
  <2>2. CASE m.id \notin bm
    BY <2>2 DEF PoolInv, XsShape
  <2> QED
    BY <2>1, <2>2, Zenon
<1>4. XsShape'
  BY <1>3, Zenon DEF PoolInv, XsShape
<1>5. \A t \in Thread : pc'[t] = "reply" => entry'[id'[t]].recvd = 0
  <2> SUFFICES ASSUME NEW t \in Thread, pc'[t] = "reply" PROVE entry'[id'[t]].recvd = 0
    BY Zenon
  <2>1. pc[t] = "reply" /\ id[t] \in Id /\ ~(m.id \in bm /\ id[t] = m.id)
    BY DEF PoolInv, XsShape
  <2> QED
    BY <1>3, <2>1 DEF PoolInv, XsNoLostWakeup
<1>6. \A t \in Thread : pc'[t] = "slot" => num_live' = Pool
  BY DEF PoolInv, XsNoLostWakeup
<1> QED
  BY <1>2, <1>4, <1>5, <1>6, Zenon DEF PoolInv, XsNoLostWakeup

LEMMA XsRecvKeeps == ASSUME PoolInv, XsRecv PROVE PoolInv'
<1>1. xs' # "asleep" /\ UNCHANGED <<bm, num_live, id>>
  BY DEF XsRecv
<1>2. ASSUME NEW m, Reply(m) PROVE PoolInv'
  BY <1>1, <1>2, ReplyKeeps
<1>3. CASE WatchEvent
  <2>1. pending_events' \in Nat /\ watcher' # "asleep" /\ UNCHANGED <<entry, pc>>
    BY <1>3 DEF PoolInv, XsShape, WatchEvent
  <2> QED
    BY <1>1, <2>1, PoolUnchanged DEF PoolInv, XsNoLostWakeup
<1>4. CASE UNCHANGED <<entry, pc, watchVars>>
  BY <1>1, <1>4, PoolUnchanged, Zenon DEF PoolInv, XsShape, XsNoLostWakeup, watchVars
<1> QED
  BY <1>2, <1>3, <1>4 DEF XsRecv

\* A caller that gets an entry and waits for its reply, but for the counting.
LEMMA SendPool ==
  ASSUME PoolInv, NEW t \in Thread, NEW l, pc[t] \in {"idle", "freed"}, Send(t, l)
  PROVE  /\ XsShape' /\ OneCaller' /\ XsNoLostWakeup'
         /\ Held' = Held \cup {t} /\ t \notin Held /\ num_live' = num_live + 1
         /\ \E i \in Id \ bm : bm' = bm \cup {i}
         /\ bm' = {id'[u] : u \in Held'}
<1>p. PICK i \in Id \ bm :
        /\ bm' = bm \cup {i}
        /\ entry' = Filled(i, l)
        /\ pc' = [pc EXCEPT ![t] = IF entry'[i].recvd # 0 THEN "replied" ELSE "reply"]
        /\ id' = [id EXCEPT ![t] = i]
  BY ZenonT(30) DEF Send
<1>q. XsShape /\ OneCaller /\ PoolExact /\ XsNoLostWakeup
  BY Zenon DEF PoolInv
<1>r. /\ num_live < Pool /\ num_live' = num_live + 1 /\ WakeXs
      /\ UNCHANGED <<pending_events, watcher>>
  BY DEF Send, watchVars
<1>1. entry' = [j \in Id |-> IF j = i THEN [len |-> l, recvd |-> 0, reply |-> entry[i].reply]
                                        ELSE entry[j]]
  BY <1>p, <1>q, FilledEntry
<1>2. /\ entry' = [j \in Id |-> entry'[j]]
      /\ \A j \in Id : /\ entry'[j] = [len |-> entry'[j].len, recvd |-> entry'[j].recvd,
                                       reply |-> entry'[j].reply]
                       /\ entry'[j].recvd \in {0, 1}
      /\ entry'[i].recvd = 0
      /\ \A j \in Id \ {i} : entry'[j] = entry[j]
  BY <1>1, <1>q DEF XsShape
<1>3. pc' = [pc EXCEPT ![t] = "reply"]
  BY <1>p, <1>2, Zenon
<1>4. XsShape'
  <2>1. bm' \subseteq Id /\ id' \in [Thread -> Id]
    BY <1>p, <1>q DEF XsShape
  <2>2. pc' \in [Thread -> {"idle", "slot", "freed", "reply", "replied"}]
    BY <1>3, <1>q DEF XsShape
  <2>3. num_live' \in Nat /\ pending_events' \in Nat
    BY <1>r, <1>q DEF XsShape
  <2> QED
    BY <1>2, <2>1, <2>2, <2>3, Zenon DEF XsShape
<1>5. Held' = Held \cup {t} /\ t \notin Held
  BY <1>3, <1>q DEF XsShape, Held
<1>6. /\ id'[t] = i
      /\ \A u \in Held : id'[u] = id[u] /\ id[u] \in bm /\ u \in Thread
  <2>1. id'[t] = i /\ \A u \in Thread \ {t} : id'[u] = id[u]
    BY <1>p, <1>q DEF XsShape
  <2>2. \A u \in Held : u \in Thread \ {t} /\ id[u] \in bm
    BY <1>5, <1>q, Zenon DEF PoolExact, Held
  <2> QED
    BY <2>1, <2>2, Zenon
<1>7. OneCaller'
  BY <1>5, <1>6, <1>q, Zenon DEF OneCaller
<1>8. bm' = {id'[u] : u \in Held'}
  BY <1>p, <1>5, <1>6, <1>q DEF PoolExact
<1>10. XsNoLostWakeup'
  <2>1. \A u \in Thread : pc'[u] # "slot"
    <3>1. \A u \in Thread : pc[u] # "slot"
      BY <1>q, <1>r, XsAssumption DEF XsNoLostWakeup, XsShape
    <3> QED
      BY <1>3, <1>q, <3>1 DEF XsShape
  <2>2. \A u \in Thread : pc'[u] = "reply" => entry'[id'[u]].recvd = 0
    <3>1. \A u \in Thread \ {t} : pc'[u] = "reply" =>
             id'[u] = id[u] /\ id[u] \in Id \ {i} /\ entry[id[u]].recvd = 0
      BY <1>3, <1>6, <1>q, Zenon DEF XsShape, XsNoLostWakeup, Held
    <3> QED
      BY <1>2, <1>6, <3>1
  <2>3. watcher' = "asleep" => pending_events' = 0
    BY <1>q, <1>r, Zenon DEF XsNoLostWakeup
  <2>4. xs' # "asleep"
    BY <1>r DEF WakeXs
  <2> QED
    BY <2>1, <2>2, <2>3, <2>4, Zenon DEF XsNoLostWakeup
<1>11. \E j \in Id \ bm : bm' = bm \cup {j}
  BY <1>p, Zenon
<1> QED
  BY <1>4, <1>5, <1>7, <1>8, <1>10, <1>11, <1>r, Zenon

\* A caller that returns with its reply, but for the counting.
LEMMA ReturnPool ==
  ASSUME PoolInv, NEW t \in Thread, Return(t)
  PROVE  /\ num_live' \in Nat => XsShape'
         /\ OneCaller' /\ XsNoLostWakeup'
         /\ t \in Held /\ Held' = Held \ {t} /\ num_live' = num_live - 1
         /\ id[t] \in bm /\ bm' = bm \ {id[t]}
         /\ bm' = {id'[u] : u \in Held'}
<1>q. XsShape /\ OneCaller /\ PoolExact /\ XsNoLostWakeup
  BY Zenon DEF PoolInv
<1>r. /\ pc[t] = "replied" /\ bm' = bm \ {id[t]} /\ num_live' = num_live - 1
      /\ pc' = Freed(t, num_live - 1) /\ id' = [id EXCEPT ![t] = 0]
      /\ UNCHANGED <<queued, entry, xs, irq, pending_events, watcher>>
      /\ UNCHANGED <<req_prod, rsp_cons, req_cons, rsp_prod>>
  BY DEF Return, Cleared, watchVars, guestRing, storeVars
<1>0. /\ pc'[t] = "idle"
      /\ \A u \in Thread \ {t} : /\ id'[u] = id[u]
                                 /\ \/ pc'[u] = pc[u]
                                    \/ pc[u] = "slot" /\ pc'[u] = "freed"
  BY <1>q, <1>r DEF Freed, XsShape
<1>1. t \in Held /\ Held' = Held \ {t}
  BY <1>0, <1>r DEF Held
<1>2. \A u \in Held \ {t} : id'[u] = id[u] /\ id[u] # id[t]
  BY <1>0, <1>1, <1>q, Zenon DEF OneCaller, Held
<1>3. OneCaller'
  BY <1>1, <1>2, <1>q, ZenonT(30) DEF OneCaller
<1>4. bm' = {id'[u] : u \in Held'} /\ id[t] \in bm
  BY <1>1, <1>2, <1>q, <1>r, ZenonT(30) DEF PoolExact
<1>6. num_live' \in Nat => XsShape'
  <2>1. id' \in [Thread -> Id] /\ bm' \subseteq Id
    BY <1>q, <1>r, XsAssumption DEF XsShape, Id
  <2>2. pc' \in [Thread -> {"idle", "slot", "freed", "reply", "replied"}]
    BY <1>q, <1>r DEF XsShape, Freed
  <2> QED
    BY <1>q, <1>r, <2>1, <2>2, Zenon DEF XsShape
<1>7. XsNoLostWakeup'
  <2>1. AvailWork' = AvailWork
    BY <1>r DEF AvailWork, AvailToRead, AvailToWrite, Back
  <2>2. \A u \in Thread : pc'[u] # "slot"
    <3>1. \A u \in Thread : pc[u] = "slot" => pc'[u] # "slot"
      BY <1>q, <1>r, XsAssumption DEF Freed, XsNoLostWakeup, XsShape
    <3> QED
      BY <1>0, <3>1
  <2>3. \A u \in Thread : pc'[u] = "reply" => pc[u] = "reply" /\ id'[u] = id[u]
    BY <1>0
  <2> QED
    BY <1>q, <1>r, <2>1, <2>2, <2>3, Zenon DEF XsNoLostWakeup
<1> QED
  BY <1>1, <1>3, <1>4, <1>6, <1>7, <1>r, Zenon

-----------------------------------------------------------------------------
(* The requests that are on their way.                                     *)

Request == [id : Id, from : Thread]

LEMMA InitFlight == XsInit => InFlight
<1> SUFFICES ASSUME XsInit PROVE InFlight
  OBVIOUS
<1>1. queued = <<>> /\ reqs = <<>> /\ todo = <<>> /\ rsps = <<>>
  BY DEF XsInit
<1>2. DOMAIN queued = {} /\ DOMAIN reqs = {} /\ DOMAIN todo = {} /\ DOMAIN rsps = {}
  BY <1>1
<1> QED
  BY <1>2 DEF InFlight, ToBeSent, Once, Apart, Unsent, FromCaller, IsInjective

\* The identifiers on their way are in use.
LEMMA FlightInUse ==
  ASSUME PoolInv, NEW t, NEW i, Awaits(t, i)
  PROVE  i \in bm
BY SMTT(30) DEF PoolInv, PoolExact, Held, Awaits

\* The steps that move no request: the callers that wait go on waiting.
LEMMA SameFlight ==
  ASSUME InFlight, UNCHANGED <<queued, reqs, todo, rsps>>,
         \A t, i : Awaits(t, i) => Awaits(t, i)'
  PROVE  InFlight'
<1>1. FromCaller(reqs)' /\ FromCaller(todo)' /\ FromCaller(rsps)'
  BY DEF InFlight, FromCaller
<1>2. ToBeSent'
  BY SMTT(30) DEF InFlight, ToBeSent, Awaits
<1> QED
  BY <1>1, <1>2 DEF InFlight, Unsent

LEMMA SendFlight ==
  ASSUME XsTypeOK, PoolInv, InFlight,
         NEW t \in Thread, NEW l, pc[t] \in {"idle", "freed"}, Send(t, l)
  PROVE  InFlight'
<1>p. PICK i \in Id \ bm :
        /\ entry' = Filled(i, l)
        /\ queued' = Append(queued, i)
        /\ pc' = [pc EXCEPT ![t] = IF entry'[i].recvd # 0 THEN "replied" ELSE "reply"]
        /\ id' = [id EXCEPT ![t] = i]
  BY ZenonT(30) DEF Send
<1>0. UNCHANGED <<reqs, todo, rsps>>
  BY DEF Send, storeVars
<1>1. entry'[i].recvd = 0
  BY <1>p, FilledEntry DEF PoolInv
<1>2. Awaits(t, i)'
  BY <1>p, <1>1 DEF XsTypeOK, Awaits
<1>3. \A u, j : Awaits(u, j) => Awaits(u, j)' /\ j # i
  BY <1>p, FlightInUse DEF XsTypeOK, Awaits
<1>q. /\ IsInjective(queued) /\ ToBeSent
      /\ FromCaller(reqs) /\ FromCaller(todo) /\ FromCaller(rsps)
      /\ Unsent(reqs) /\ Unsent(todo) /\ Unsent(rsps)
  BY Zenon DEF InFlight
<1>4. /\ DOMAIN queued = 1 .. Len(queued) /\ Len(queued) \in Nat
      /\ DOMAIN queued' = 1 .. Len(queued) + 1
      /\ \A k \in 1 .. Len(queued) : queued'[k] = queued[k] /\ queued[k] # i
      /\ queued'[Len(queued) + 1] = i
  <2>1. \A k \in DOMAIN queued : queued[k] # i
    BY <1>3, <1>q, Zenon DEF ToBeSent
  <2>2. queued \in Seq(Id)
    BY DEF XsTypeOK
  <2> QED
    BY <1>p, <2>1, <2>2, Longer
<1>5. IsInjective(queued')
  BY ONLY <1>4, <1>q DEF IsInjective
<1>6. ToBeSent'
  <2>1. \A k \in 1 .. Len(queued) + 1 : k \in DOMAIN queued \/ k = Len(queued) + 1
    BY ONLY <1>4
  <2>2. \A k \in DOMAIN queued' : \E u \in Thread : Awaits(u, queued[k])'
    BY <1>2, <1>3, <1>4, <1>q, <2>1 DEF ToBeSent, Awaits
  <2> QED
    BY <2>2, Zenon DEF ToBeSent
<1>7. FromCaller(reqs)' /\ FromCaller(todo)' /\ FromCaller(rsps)'
  BY <1>0, <1>3, <1>q, Zenon DEF FromCaller
<1>8. i # Pool
  BY XsAssumption DEF Id
<1>9. \A s \in {reqs, todo, rsps} : Unsent(s) /\ FromCaller(s) => Unsent(s)'
  BY <1>3, <1>4, <1>8 DEF Unsent, FromCaller, IsRequest
<1>10. Unsent(reqs)' /\ Unsent(todo)' /\ Unsent(rsps)'
  BY <1>0, <1>9, <1>q DEF Unsent
<1> QED
  BY <1>0, <1>5, <1>6, <1>7, <1>10 DEF InFlight

LEMMA ReturnFlight ==
  ASSUME XsTypeOK, InFlight, NEW t \in Thread, Return(t)
  PROVE  InFlight'
<1>1. \A u, j : Awaits(u, j) => Awaits(u, j)'
  BY DEF Return, Freed, Awaits, XsTypeOK
<1> QED
  BY <1>1, SameFlight DEF Return, storeVars

\* The caller of the first of the requests to be sent.
LEMMA HeadCaller ==
  ASSUME XsTypeOK, OneCaller, InFlight, queued # <<>>
  PROVE  /\ Awaits(CallerOf(Head(queued)), Head(queued))
         /\ CallerOf(Head(queued)) \in Thread
<1>1. Head(queued) = queued[1] /\ 1 \in DOMAIN queued
  BY Rest DEF XsTypeOK
<1>2. PICK t \in Thread : Awaits(t, Head(queued))
  BY <1>1, SMTT(30) DEF InFlight, ToBeSent
<1>3. \E u \in Thread : pc[u] \in {"reply", "replied"} /\ id[u] = Head(queued)
  BY <1>2, Zenon DEF Awaits
<1>4. /\ CallerOf(Head(queued)) \in Thread
      /\ pc[CallerOf(Head(queued))] \in {"reply", "replied"}
      /\ id[CallerOf(Head(queued))] = Head(queued)
  BY <1>3, Zenon DEF CallerOf
<1>5. CallerOf(Head(queued)) = t
  BY <1>2, <1>4 DEF OneCaller, Held, Awaits
<1> QED
  BY <1>2, <1>5

LEMMA XsSendFlight ==
  ASSUME XsTypeOK, OneCaller, InFlight, XsSend
  PROVE  InFlight'
<1>0. UNCHANGED <<pc, id, todo, rsps>>
  BY DEF XsSend, callVars, storeVars
<1>1. \A t, i : Awaits(t, i)' = Awaits(t, i)
  BY <1>0 DEF Awaits
<1>2. CASE ~CanWrite
  BY <1>0, <1>1, <1>2, SameFlight DEF XsSend
<1>3. CASE CanWrite
  <2> DEFINE i == Head(queued)
             m == [id |-> i, len |-> entry[i].len, from |-> CallerOf(i), at |-> req_prod]
  <2>1. queued # <<>> /\ reqs' = Append(reqs, m) /\ queued' = Tail(queued)
    BY <1>3 DEF XsSend, CanWrite
  <2>2. /\ queued \in Seq(Id) /\ Len(queued) \in Nat \ {0} /\ DOMAIN queued = 1 .. Len(queued)
        /\ DOMAIN queued' = 1 .. Len(queued) - 1
        /\ \A k \in 1 .. Len(queued) - 1 : queued'[k] = queued[k + 1]
        /\ i = queued[1] /\ i \in Id
    BY <2>1, Rest DEF XsTypeOK
  <2>3. /\ Len(reqs) \in Nat /\ DOMAIN reqs = 1 .. Len(reqs)
        /\ DOMAIN reqs' = 1 .. Len(reqs) + 1
        /\ \A k \in 1 .. Len(reqs) : reqs'[k] = reqs[k]
        /\ reqs'[Len(reqs) + 1] = m
    <3>1. reqs \in Seq(Message \cup {m})
      BY DEF XsTypeOK
    <3> QED
      BY <2>1, <3>1, Longer
  <2>4. m.id = i /\ Awaits(m.from, i) /\ IsRequest(m)
    BY <2>1, <2>2, HeadCaller, XsAssumption DEF IsRequest, Id
  <2> HIDE DEF i, m
  <2>5. IsInjective(queued)' /\ \A k \in DOMAIN queued' : queued'[k] # i
    <3>1. \A j, k \in 1 .. Len(queued) : queued[j] = queued[k] => j = k
      BY <2>2 DEF InFlight, IsInjective
    <3>2. \A j, k \in 1 .. Len(queued) - 1 : queued'[j] = queued'[k] => j = k
      BY <2>2, <3>1
    <3> QED
      BY <2>2, <3>1, <3>2 DEF IsInjective
  <2>6. ToBeSent'
    BY <1>0, <2>2 DEF InFlight, ToBeSent, Awaits
  <2>7. ASSUME NEW s, Unsent(s)
        PROVE  /\ \A j \in DOMAIN s : s[j].id # i
               /\ \A j \in DOMAIN s, k \in DOMAIN queued' : s[j].id # queued'[k]
    <3>1. \A j \in DOMAIN s, k \in 1 .. Len(queued) : s[j].id # queued[k]
      BY <2>2, <2>7, SMTT(30) DEF Unsent
    <3> QED
      BY <2>2, <3>1
  <2>8. /\ Unsent(todo)' /\ Unsent(rsps)'
        /\ \A j \in DOMAIN reqs : reqs[j].id # i
        /\ \A j \in DOMAIN todo : todo[j].id # i
        /\ \A j \in DOMAIN rsps : rsps[j].id # i
        /\ \A j \in DOMAIN reqs, k \in DOMAIN queued' : reqs[j].id # queued'[k]
    BY <1>0, <2>7 DEF InFlight, Unsent
  <2>9. Unsent(reqs)'
    BY <2>3, <2>4, <2>5, <2>8, SMTT(30) DEF Unsent
  <2>10. Once(reqs') /\ \A j \in DOMAIN reqs' : IsRequest(reqs'[j])
    BY <2>3, <2>4, <2>8, SMTT(30) DEF InFlight, Once
  <2>q. Once(reqs) /\ Apart(reqs, todo) /\ Apart(reqs, rsps)
    BY Zenon DEF InFlight
  <2>11. Apart(reqs', todo) /\ Apart(reqs', rsps)
    BY ONLY <2>3, <2>4, <2>8, <2>q DEF Apart
  <2>12. FromCaller(reqs)' /\ FromCaller(todo)' /\ FromCaller(rsps)'
    <3>1. FromCaller(reqs) /\ FromCaller(todo) /\ FromCaller(rsps)
      BY Zenon DEF InFlight
    <3> QED
      BY ONLY <1>0, <1>1, <2>3, <2>4, <3>1 DEF FromCaller
  <2> QED
    BY <1>0, <2>5, <2>6, <2>8, <2>9, <2>10, <2>11, <2>12 DEF InFlight
<1> QED
  BY <1>2, <1>3

\* What is left of a sequence of messages when the first has been taken, ...
LEMMA TailFlight ==
  ASSUME NEW S, NEW s \in Seq(S), s # <<>>, Once(s), NEW x, x = Head(s)
  PROVE  /\ Once(Tail(s))
         /\ IsRequest(x) => \A k \in DOMAIN Tail(s) : Tail(s)[k].id # x.id
         /\ Unsent(s) => Unsent(Tail(s)) /\ \A k \in DOMAIN queued : x.id # queued[k]
         /\ FromCaller(s) => FromCaller(Tail(s)) /\ (IsRequest(x) => Awaits(x.from, x.id))
         /\ \A r : Apart(s, r) => /\ Apart(Tail(s), r)
                                  /\ IsRequest(x) => \A k \in DOMAIN r : x.id # r[k].id
         /\ \A r : Apart(r, s) => /\ Apart(r, Tail(s))
                                  /\ \A k \in DOMAIN r : IsRequest(r[k]) => x.id # r[k].id
<1>1. /\ Len(s) \in Nat \ {0} /\ DOMAIN s = 1 .. Len(s) /\ DOMAIN Tail(s) = 1 .. Len(s) - 1
      /\ \A k \in 1 .. Len(s) - 1 : Tail(s)[k] = s[k + 1]
      /\ x = s[1]
  BY Rest
<1>2. \A k \in DOMAIN Tail(s) : k + 1 \in DOMAIN s /\ k + 1 # 1 /\ Tail(s)[k] = s[k + 1]
  BY <1>1
<1>3. 1 \in DOMAIN s /\ \A j, k \in DOMAIN Tail(s) : j + 1 = k + 1 => j = k
  BY <1>1
<1>4. Once(Tail(s))
  BY <1>2, <1>3 DEF Once
<1>5. IsRequest(x) => \A k \in DOMAIN Tail(s) : Tail(s)[k].id # x.id
  BY <1>1, <1>2, <1>3 DEF Once
<1>6. Unsent(s) => Unsent(Tail(s)) /\ \A k \in DOMAIN queued : x.id # queued[k]
  BY <1>1, <1>2, <1>3 DEF Unsent
<1>7. FromCaller(s) => FromCaller(Tail(s)) /\ (IsRequest(x) => Awaits(x.from, x.id))
  BY <1>1, <1>2, <1>3 DEF FromCaller
<1>8. \A r : Apart(s, r) => /\ Apart(Tail(s), r)
                            /\ IsRequest(x) => \A k \in DOMAIN r : x.id # r[k].id
  BY <1>1, <1>2, <1>3 DEF Apart
<1>9. \A r : Apart(r, s) => /\ Apart(r, Tail(s))
                            /\ \A k \in DOMAIN r : IsRequest(r[k]) => x.id # r[k].id
  BY <1>1, <1>2, <1>3, SMTT(30) DEF Apart
<1> QED
  BY <1>4, <1>5, <1>6, <1>7, <1>8, <1>9

\* ... and when one is added whose identifier is not among theirs.
LEMMA AppendFlight ==
  ASSUME NEW S, NEW s \in Seq(S), NEW x \in S, Once(s),
         IsRequest(x) => \A k \in DOMAIN s : s[k].id # x.id
  PROVE  /\ Once(Append(s, x))
         /\ Unsent(s) /\ (\A k \in DOMAIN queued : x.id # queued[k]) => Unsent(Append(s, x))
         /\ FromCaller(s) /\ (IsRequest(x) => Awaits(x.from, x.id)) => FromCaller(Append(s, x))
         /\ \A r : Apart(s, r) /\ (IsRequest(x) => \A k \in DOMAIN r : x.id # r[k].id)
                     => Apart(Append(s, x), r)
         /\ \A r : Apart(r, s) /\ (\A k \in DOMAIN r : IsRequest(r[k]) => x.id # r[k].id)
                     => Apart(r, Append(s, x))
<1>1. /\ Len(s) \in Nat /\ DOMAIN s = 1 .. Len(s) /\ DOMAIN Append(s, x) = 1 .. Len(s) + 1
      /\ \A k \in 1 .. Len(s) : Append(s, x)[k] = s[k]
      /\ Append(s, x)[Len(s) + 1] = x
  BY Longer
<1>2. \A k \in DOMAIN Append(s, x) : \/ k \in DOMAIN s /\ Append(s, x)[k] = s[k]
                                     \/ k = Len(s) + 1 /\ Append(s, x)[k] = x
  BY <1>1
<1>3. Once(Append(s, x))
  BY <1>2 DEF Once, IsRequest
<1>4. Unsent(s) /\ (\A k \in DOMAIN queued : x.id # queued[k]) => Unsent(Append(s, x))
  BY <1>2 DEF Unsent
<1>5. FromCaller(s) /\ (IsRequest(x) => Awaits(x.from, x.id)) => FromCaller(Append(s, x))
  BY <1>2 DEF FromCaller
<1>6. \A r : Apart(s, r) /\ (IsRequest(x) => \A k \in DOMAIN r : x.id # r[k].id)
               => Apart(Append(s, x), r)
  BY <1>2 DEF Apart
<1>7. \A r : Apart(r, s) /\ (\A k \in DOMAIN r : IsRequest(r[k]) => x.id # r[k].id)
               => Apart(r, Append(s, x))
  BY <1>2, SMTT(30) DEF Apart
<1> QED
  BY <1>3, <1>4, <1>5, <1>6, <1>7

\* When the callers and the requests to be sent stay as they are, so do these.
LEMMA SameCallers ==
  ASSUME UNCHANGED <<pc, id, queued>>
  PROVE  /\ ToBeSent' = ToBeSent
         /\ Unsent(reqs)' = Unsent(reqs') /\ Unsent(todo)' = Unsent(todo')
         /\ Unsent(rsps)' = Unsent(rsps')
         /\ FromCaller(reqs)' = FromCaller(reqs') /\ FromCaller(todo)' = FromCaller(todo')
         /\ FromCaller(rsps)' = FromCaller(rsps')
BY DEF ToBeSent, Unsent, FromCaller, Awaits

LEMMA TakeFlight ==
  ASSUME XsTypeOK, InFlight, NEW n, StoreTake(n)
  PROVE  InFlight'
<1>0. UNCHANGED <<pc, id, queued, rsps>>
  BY DEF StoreTake, poolVars, callVars
<1>1. CASE UNCHANGED <<todo, reqs>>
  BY <1>0, <1>1, SameFlight, SMTT(30) DEF Awaits
<1>2. CASE ~UNCHANGED <<todo, reqs>>
  <2> DEFINE x == Head(reqs)
             y == [id |-> x.id, from |-> x.from]
  <2>1. reqs # <<>> /\ reqs' = Tail(reqs) /\ todo' = Append(todo, y)
    BY <1>2 DEF StoreTake
  <2>2. reqs \in Seq(Message) /\ todo \in Seq(Request \cup {y}) /\ y \in Request \cup {y}
    <3>1. reqs \in Seq(Message) /\ todo \in Seq(Request)
      BY DEF XsTypeOK, Request
    <3>2. Request \subseteq Request \cup {y}
      BY SMTT(30)
    <3> HIDE DEF y
    <3> QED
      BY <3>1, <3>2
  <2>3. IsRequest(x) /\ IsRequest(y) /\ y.id = x.id /\ y.from = x.from
    <3>1. IsRequest(x)
      BY <2>1, <2>2, Rest DEF InFlight
    <3> QED
      BY <3>1 DEF IsRequest
  <2> HIDE DEF x, y
  <2>4. x = Head(reqs)
    BY SMTT(30) DEF x
  <2>5. /\ Once(reqs') /\ Unsent(reqs') /\ FromCaller(reqs')
        /\ Apart(reqs', todo) /\ Apart(reqs', rsps)
        /\ \A k \in DOMAIN reqs' : reqs'[k].id # x.id
        /\ \A k \in DOMAIN queued : x.id # queued[k]
        /\ Awaits(x.from, x.id)
        /\ \A k \in DOMAIN todo : x.id # todo[k].id
        /\ \A k \in DOMAIN rsps : x.id # rsps[k].id
    BY <2>1, <2>2, <2>3, <2>4, TailFlight DEF InFlight
  <2>6. \A j \in DOMAIN reqs' : IsRequest(reqs'[j])
    BY <2>1, <2>2, Rest, SMTT(30) DEF InFlight
  <2>7. Once(todo) /\ \A k \in DOMAIN todo : todo[k].id # y.id
    BY <2>3, <2>5 DEF InFlight
  <2>8. /\ Once(todo') /\ Unsent(todo') /\ FromCaller(todo')
        /\ Apart(todo', rsps) /\ Apart(reqs', todo')
    BY <2>1, <2>2, <2>3, <2>5, <2>7, AppendFlight, Zenon DEF InFlight
  <2> QED
    BY <1>0, <2>5, <2>6, <2>8, SameCallers DEF InFlight
<1> QED
  BY <1>1, <1>2

\* A message that the store begins with.
LEMMA BeginFlight ==
  ASSUME XsTypeOK, InFlight, NEW x, NEW n, Begin(x, n), UNCHANGED todo, ~IsRequest(x)
  PROVE  InFlight'
<1>0. UNCHANGED <<pc, id, queued, reqs>> /\ rsps' = Append(rsps, x)
  BY DEF Begin, Show, poolVars, callVars
<1>1. rsps \in Seq(Message \cup {x})
  BY DEF XsTypeOK
<1>2. \A k \in DOMAIN queued : x.id # queued[k]
  <2>1. \A k \in DOMAIN queued : queued[k] \in Id
    BY DEF XsTypeOK
  <2> QED
    BY <2>1, XsAssumption DEF IsRequest, Id
<1>3. \A r : \A k \in DOMAIN r : IsRequest(r[k]) => x.id # r[k].id
  BY SMTT(30) DEF IsRequest
<1>4. /\ Once(rsps') /\ Unsent(rsps') /\ FromCaller(rsps')
      /\ Apart(reqs, rsps') /\ Apart(todo, rsps')
  <2>1. x \in Message \cup {x}
    OBVIOUS
  <2> QED
    BY <1>0, <1>1, <1>2, <1>3, <2>1, AppendFlight, ZenonT(30) DEF InFlight
<1> QED
  BY <1>0, <1>4, SameCallers DEF InFlight

LEMMA AnswerFlight ==
  ASSUME XsTypeOK, InFlight, NEW l, NEW n, StoreAnswer(l, n)
  PROVE  InFlight'
<1> DEFINE x == Head(todo)
           y == [id |-> x.id, len |-> l, from |-> x.from, at |-> rsp_prod]
<1>0. /\ UNCHANGED <<pc, id, queued, reqs>> /\ rsps' = Append(rsps, y)
      /\ todo # <<>> /\ todo' = Tail(todo)
  BY DEF StoreAnswer, Begin, Show, poolVars, callVars
<1>1. rsps \in Seq(Message \cup {y}) /\ todo \in Seq(Request) /\ y \in Message \cup {y}
  <2>1. rsps \in Seq(Message) /\ todo \in Seq(Request)
    BY DEF XsTypeOK, Request
  <2> HIDE DEF y
  <2> QED
    BY <2>1
<1>2. IsRequest(x) /\ IsRequest(y) /\ y.id = x.id /\ y.from = x.from
  <2>1. x \in Request
    BY <1>0, <1>1, Rest
  <2>2. x.id \in Id
    BY <2>1 DEF Request
  <2>3. y.id = x.id /\ y.from = x.from
    OBVIOUS
  <2> HIDE DEF x, y
  <2> QED
    BY <2>2, <2>3, XsAssumption DEF IsRequest, Id
<1> HIDE DEF x, y
<1>3. x = Head(todo)
  BY SMTT(30) DEF x
<1>4. /\ Once(todo') /\ Unsent(todo') /\ FromCaller(todo')
      /\ Apart(reqs, todo') /\ Apart(todo', rsps)
      /\ \A k \in DOMAIN todo' : todo'[k].id # x.id
      /\ \A k \in DOMAIN queued : x.id # queued[k]
      /\ Awaits(x.from, x.id)
      /\ \A k \in DOMAIN rsps : x.id # rsps[k].id
      /\ \A k \in DOMAIN reqs : IsRequest(reqs[k]) => x.id # reqs[k].id
  BY <1>0, <1>1, <1>2, <1>3, TailFlight DEF InFlight
<1>5. Once(rsps) /\ \A k \in DOMAIN rsps : rsps[k].id # y.id
  BY <1>2, <1>4, Zenon DEF InFlight
<1>6. /\ Once(rsps') /\ Unsent(rsps') /\ FromCaller(rsps')
      /\ Apart(reqs, rsps') /\ Apart(todo', rsps')
  BY <1>0, <1>1, <1>2, <1>4, <1>5, AppendFlight, ZenonT(30) DEF InFlight
<1> QED
  BY <1>0, <1>4, <1>6, SameCallers, Zenon DEF InFlight

\* process_reply: the message leaves the ring, and its caller no longer waits.
LEMMA ReplyFlight ==
  ASSUME XsTypeOK, InFlight, NEW x, Reply(x), rsps # <<>>, x = Head(rsps), IsRequest(x),
         rsps' = Tail(rsps), UNCHANGED <<id, queued, reqs, todo>>
  PROVE  InFlight'
<1>1. rsps \in Seq(Message)
  BY SMTT(30) DEF XsTypeOK
<1>2. /\ Once(rsps') /\ Unsent(rsps') /\ FromCaller(rsps')
      /\ Apart(reqs, rsps') /\ Apart(todo, rsps')
      /\ \A k \in DOMAIN rsps' : rsps'[k].id # x.id
      /\ \A k \in DOMAIN queued : x.id # queued[k]
      /\ \A k \in DOMAIN reqs : IsRequest(reqs[k]) => x.id # reqs[k].id
      /\ \A k \in DOMAIN todo : IsRequest(todo[k]) => x.id # todo[k].id
  BY <1>1, TailFlight DEF InFlight
<1>3. \A t, i : Awaits(t, i) /\ i # x.id => Awaits(t, i)'
  BY DEF Awaits, Reply
<1>4. ToBeSent'
  <2>1. \A k \in DOMAIN queued : \E t \in Thread : Awaits(t, queued[k])'
    BY <1>2, <1>3 DEF InFlight, ToBeSent
  <2> QED
    BY <2>1, SMTT(30) DEF ToBeSent, Awaits
<1>5. FromCaller(reqs)' /\ FromCaller(todo)'
  BY <1>2, <1>3, Zenon DEF InFlight, FromCaller
<1>6. FromCaller(rsps)'
  <2>1. \A k \in DOMAIN rsps' : IsRequest(rsps'[k]) => Awaits(rsps'[k].from, rsps'[k].id)
    BY <1>2, Zenon DEF FromCaller
  <2> QED
    BY <1>2, <2>1, SMTT(30) DEF FromCaller, Awaits, Reply
<1>7. Unsent(reqs)' /\ Unsent(todo)' /\ Unsent(rsps)'
  BY <1>2 DEF InFlight, Unsent
<1> QED
  BY <1>2, <1>4, <1>5, <1>6, <1>7 DEF InFlight

\* A watch event leaves the ring.
LEMMA EventFlight ==
  ASSUME XsTypeOK, InFlight, rsps # <<>>, rsps' = Tail(rsps),
         UNCHANGED <<pc, id, queued, reqs, todo>>
  PROVE  InFlight'
<1>1. rsps \in Seq(Message)
  BY DEF XsTypeOK
<1>2. /\ Once(rsps') /\ Unsent(rsps') /\ FromCaller(rsps')
      /\ Apart(reqs, rsps') /\ Apart(todo, rsps')
  BY <1>1, TailFlight DEF InFlight
<1> QED
  BY <1>2, SameCallers DEF InFlight

-----------------------------------------------------------------------------
(* Replies.                                                                *)

LEMMA SameReplies ==
  ASSUME OwnReply, UNCHANGED <<entry, pc, id>>
  PROVE  OwnReply'
BY DEF OwnReply

LEMMA SendReplies ==
  ASSUME XsTypeOK, PoolInv, OwnReply,
         NEW t \in Thread, NEW l, pc[t] \in {"idle", "freed"}, Send(t, l)
  PROVE  OwnReply'
<1> PICK i \in Id \ bm :
       /\ entry' = Filled(i, l)
       /\ pc' = [pc EXCEPT ![t] = IF entry'[i].recvd # 0 THEN "replied" ELSE "reply"]
       /\ id' = [id EXCEPT ![t] = i]
  BY Zenon DEF Send
<1>1. entry'[i].recvd = 0 /\ \A j \in Id \ {i} : entry'[j] = entry[j]
  BY FilledEntry DEF PoolInv
<1>2. \A u \in Thread : pc'[u] = "replied" =>
         u # t /\ pc[u] = "replied" /\ id'[u] = id[u] /\ id[u] \in bm /\ id[u] \in Id
  BY <1>1 DEF XsTypeOK, PoolInv, PoolExact, Held
<1> QED
  BY <1>1, <1>2 DEF OwnReply

LEMMA ReturnReplies ==
  ASSUME XsTypeOK, OwnReply, NEW t \in Thread, Return(t)
  PROVE  OwnReply'
<1>1. \A u \in Thread : pc'[u] = "replied" => u # t /\ pc[u] = "replied" /\ id'[u] = id[u]
  BY DEF XsTypeOK, Return, Freed
<1> QED
  BY <1>1 DEF OwnReply, Return

\* process_reply: the reply goes to the caller that the message is from.
LEMMA ReplyReplies ==
  ASSUME XsTypeOK, OneCaller, OwnReply, NEW x, IsRequest(x), Awaits(x.from, x.id), Reply(x),
         id' = id, x.id \in bm
  PROVE  OwnReply'
<1>1. x.id \in Id
  BY DEF XsTypeOK
<1>2. /\ entry'[x.id].reply = x.from
      /\ \A j \in Id \ {x.id} : entry'[j] = entry[j]
  BY <1>1 DEF Reply, XsTypeOK
<1> SUFFICES ASSUME NEW t \in Thread, pc'[t] = "replied" PROVE entry'[id[t]].reply = t
  BY DEF OwnReply
<1>3. id[t] \in Id /\ pc[t] \in {"reply", "replied"}
  BY DEF XsTypeOK, Reply
<1>4. CASE id[t] = x.id
  <2>1. t = x.from
    BY <1>3, <1>4 DEF OneCaller, Held, Awaits
  <2> QED
    BY <1>2, <1>4, <2>1
<1>5. CASE id[t] # x.id
  BY <1>2, <1>3, <1>5, Zenon DEF OwnReply, Reply
<1> QED
  BY <1>4, <1>5

-----------------------------------------------------------------------------
(* The types.                                                              *)

LEMMA InitTypes == XsInit => XsTypeOK
<1> SUFFICES ASSUME XsInit PROVE XsTypeOK
  OBVIOUS
<1>1. 0 \in Index /\ 0 \in Id /\ 0 \in 0 .. Pool
  BY XsAssumption DEF Index, Id
<1> QED
  <2>1. entry \in [Id -> [len : ReqLen \cup {0}, recvd : {0, 1}, reply : Thread \cup {NoThread}]]
    BY DEF XsInit
  <2>2. pc \in [Thread -> {"idle", "slot", "freed", "reply", "replied"}]
    BY DEF XsInit
  <2>3. len \in [Thread -> ReqLen \cup {0}] /\ id \in [Thread -> Id]
    BY <1>1 DEF XsInit
  <2>4. queued \in Seq(Id) /\ reqs \in Seq(Message) /\ rsps \in Seq(Message)
    BY DEF XsInit
  <2>5. todo \in Seq([id : Id, from : Thread])
    BY DEF XsInit
  <2> QED
    BY <1>1, <2>1, <2>2, <2>3, <2>4, <2>5, Zenon DEF XsInit, XsTypeOK

LEMMA SendTypes ==
  ASSUME XsTypeOK, PoolInv, PoolInv',
         NEW t \in Thread, NEW l \in ReqLen \cup {0}, pc[t] \in {"idle", "freed"}, Send(t, l)
  PROVE  XsTypeOK'
<1>p. PICK i \in Id \ bm :
        /\ bm' = bm \cup {i} /\ last_probed' = i
        /\ entry' = Filled(i, l)
        /\ queued' = Append(queued, i)
  BY Zenon DEF Send
<1>1. entry' \in [Id -> [len : ReqLen \cup {0}, recvd : {0, 1}, reply : Thread \cup {NoThread}]]
  BY <1>p, FilledEntry DEF PoolInv, XsTypeOK
<1>2. num_live' \in 0 .. Pool
  <2>1. num_live < Pool /\ num_live' = num_live + 1
    BY Zenon DEF Send
  <2>2. num_live \in 0 .. Pool
    BY Zenon DEF XsTypeOK
  <2> QED
    BY ONLY <2>1, <2>2, XsAssumption
<1>3. queued' \in Seq(Id)
  <2>1. queued \in Seq(Id)
    BY DEF XsTypeOK
  <2> QED
    BY <1>p, <2>1, Longer
<1>4. xs' \in {"asleep", "woken", "test", "send", "recv"}
  BY DEF XsTypeOK, Send, WakeXs
<1>5. pc' \in [Thread -> {"idle", "slot", "freed", "reply", "replied"}] /\ id' \in [Thread -> Id]
  BY Zenon DEF PoolInv, XsShape
<1>6. len' \in [Thread -> ReqLen \cup {0}]
  BY DEF XsTypeOK, Send
<1> QED
  BY <1>p, <1>1, <1>2, <1>3, <1>4, <1>5, <1>6
     DEF XsTypeOK, Send, guestRing, storeVars, watchVars

LEMMA WaitTypes ==
  ASSUME XsTypeOK, NEW t \in Thread, NEW l \in ReqLen \cup {0}, WaitForEntry(t, l)
  PROVE  XsTypeOK'
BY SMTT(30) DEF XsTypeOK, WaitForEntry, poolVars, guestRing, storeVars, watchVars

LEMMA ReturnTypes ==
  ASSUME XsTypeOK, PoolInv', NEW t \in Thread, Return(t)
  PROVE  XsTypeOK'
<1>1. num_live' \in 0 .. Pool
  BY XsAssumption DEF XsTypeOK, PoolInv, XsShape, Return
<1>2. len' \in [Thread -> ReqLen \cup {0}]
  BY DEF XsTypeOK, Return
<1> QED
  BY <1>1, <1>2, SMTT(30)
     DEF XsTypeOK, PoolInv, XsShape, Return, guestRing, storeVars, watchVars

\* The types of the pool and of the callers stay.
LEMMA SamePoolTypes ==
  ASSUME XsTypeOK, UNCHANGED <<bm, num_live, last_probed, entry, callVars>>,
         queued' \in Seq(Id), xs' \in {"asleep", "woken", "test", "send", "recv"},
         {req_prod', req_cons', rsp_prod', rsp_cons'} \subseteq Index,
         reqs' \in Seq(Message), rsps' \in Seq(Message), todo' \in Seq(Request),
         taken' \in Nat, shown' \in Nat, {awake', irq'} \subseteq BOOLEAN,
         pending_events' \in Nat, watcher' \in {"idle", "asleep", "woken"}
  PROVE  XsTypeOK'
BY DEF XsTypeOK, callVars, Request

LEMMA TakeTypes ==
  ASSUME XsTypeOK, InFlight, NEW n \in Bytes, StoreTake(n)
  PROVE  XsTypeOK'
<1> DEFINE x == Head(reqs)
           y == [id |-> x.id, from |-> x.from]
<1>1. /\ reqs # <<>> /\ req_cons' = (req_cons + n) % IdxMod /\ irq' = TRUE
      /\ IF taken + n = Size(x)
           THEN taken' = 0 /\ reqs' = Tail(reqs) /\ todo' = Append(todo, y)
           ELSE taken' = taken + n /\ UNCHANGED <<todo, reqs>>
  BY DEF StoreTake
<1>2. /\ UNCHANGED <<bm, num_live, last_probed, entry, callVars, queued>>
      /\ UNCHANGED <<xs, req_prod, rsp_cons, rsps, rsp_prod, shown, awake, pending_events, watcher>>
  BY DEF StoreTake, poolVars, guestRing, watchVars
<1>3. /\ {req_prod, req_cons, rsp_prod, rsp_cons} \subseteq Index /\ rsps \in Seq(Message)
      /\ todo \in Seq(Request) /\ taken \in Nat /\ shown \in Nat /\ {awake} \subseteq BOOLEAN
      /\ pending_events \in Nat /\ watcher \in {"idle", "asleep", "woken"}
      /\ reqs \in Seq(Message) /\ queued \in Seq(Id) /\ n \in Nat
      /\ xs \in {"asleep", "woken", "test", "send", "recv"}
  BY DEF XsTypeOK, Request, Bytes
<1>4. req_cons' \in Index
  <2>1. req_cons + n \in Int /\ IdxMod \in Nat \ {0}
    BY <1>3, XsAssumption, SMTT(30) DEF Index
  <2> QED
    BY <1>1, <2>1, ModRange, Zenon DEF Index
<1>5. y \in Request
  <2>1. 1 \in DOMAIN reqs /\ x = reqs[1] /\ x \in Message
    BY <1>1, <1>3, Rest, SMTT(30)
  <2>2. Awaits(x.from, x.id) /\ IsRequest(x)
    BY <2>1, Zenon DEF InFlight, FromCaller
  <2>3. x.from \in Thread /\ x.id \in Id
    BY <2>2 DEF Awaits, XsTypeOK
  <2> QED
    BY <2>3 DEF Request
<1> HIDE DEF x, y
<1>6. Tail(reqs) \in Seq(Message) /\ Append(todo, y) \in Seq(Request)
  BY <1>1, <1>3, <1>5, Rest, Longer
<1>7. reqs' \in Seq(Message) /\ todo' \in Seq(Request) /\ taken' \in Nat
  <2>1. CASE taken + n = Size(x)
    <3>1. taken' = 0 /\ reqs' = Tail(reqs) /\ todo' = Append(todo, y)
      BY <1>1, <2>1, Zenon
    <3> QED
      BY <1>6, <3>1
  <2>2. CASE taken + n # Size(x)
    <3>1. taken' = taken + n /\ reqs' = reqs /\ todo' = todo
      BY <1>1, <2>2
    <3> QED
      BY <1>3, <3>1
  <2> QED
    BY <2>1, <2>2
<1> QED
  BY <1>1, <1>2, <1>3, <1>4, <1>7, SamePoolTypes

\* Bytes that the store shows, of a message it begins with or of the last one.
LEMMA ShowTypes ==
  ASSUME XsTypeOK, NEW n \in Bytes, Show(n), rsps' \in Seq(Message), shown' \in Nat,
         todo' \in Seq(Request)
  PROVE  XsTypeOK'
<1>1. /\ rsp_prod' = (rsp_prod + n) % IdxMod /\ irq' = TRUE
      /\ UNCHANGED <<bm, num_live, last_probed, entry, callVars, queued>>
      /\ UNCHANGED <<xs, req_prod, rsp_cons, reqs, req_cons, taken, awake, pending_events, watcher>>
  BY DEF Show, poolVars, guestRing, watchVars
<1>2. /\ {req_prod, req_cons, rsp_prod, rsp_cons} \subseteq Index
      /\ taken \in Nat /\ {awake} \subseteq BOOLEAN
      /\ pending_events \in Nat /\ watcher \in {"idle", "asleep", "woken"}
      /\ reqs \in Seq(Message) /\ queued \in Seq(Id) /\ n \in Nat
      /\ xs \in {"asleep", "woken", "test", "send", "recv"}
  BY DEF XsTypeOK, Bytes
<1>3. rsp_prod' \in Index
  <2>1. rsp_prod + n \in Int /\ IdxMod \in Nat \ {0}
    BY <1>2, XsAssumption DEF Index
  <2> QED
    BY <1>1, <2>1, ModRange, Zenon DEF Index
<1> QED
  BY <1>1, <1>2, <1>3, SamePoolTypes

-----------------------------------------------------------------------------
(* The rings.                                                              *)

LEMMA BackFacts ==
  ASSUME NEW p \in Index, NEW c \in Index, NEW d \in Index
  PROVE  /\ Back(p, c) \in 0 .. IdxMod - 1 /\ Back(p, p) = 0
         /\ Back(p, c) = Back(p, d) => c = d
<1>1. IdxMod \in Nat \ {0}
  BY XsAssumption
<1> QED
  BY <1>1, DistanceOne DEF Back, Index

\* A producer, and a consumer, that moves on by n.
LEMMA BackMoves ==
  ASSUME NEW p \in Index, NEW c \in Index, NEW n \in 0 .. IdxMod - 1
  PROVE  /\ (p + n) % IdxMod \in Index
         /\ Back(p, c) + n < IdxMod => Back((p + n) % IdxMod, c) = Back(p, c) + n
         /\ n <= Back(p, c) => Back(p, (c + n) % IdxMod) = Back(p, c) - n
<1>1. IdxMod \in Nat \ {0}
  BY XsAssumption
<1>2. p \in 0 .. IdxMod - 1 /\ c \in 0 .. IdxMod - 1 /\ p + n \in Int
  BY <1>1 DEF Index
<1> QED
  BY <1>1, <1>2, ModRange, Produce, Consume, Zenon DEF Back, Index

LEMMA MessageFacts ==
  ASSUME NEW m \in Message
  PROVE  Size(m) \in Nat \ {0} /\ m.at \in Index
<1>1. m.len \in Nat /\ m.at \in Index
  <2>1. (m.len \in ReqLen \/ m.len \in RepLen \/ m.len = 0) /\ m.at \in Index
    BY DEF Message
  <2>2. ReqLen \subseteq Nat /\ RepLen \subseteq Nat
    BY XsAssumption
  <2>3. m.len = 0 => m.len \in Nat
    OBVIOUS
  <2> QED
    BY <2>1, <2>2, <2>3, Zenon
<1> QED
  BY <1>1, XsAssumption DEF Size

\* The messages of a ring keep their places when the producer moves on.
LEMMA RowGrows ==
  ASSUME NEW s \in Seq(Message), NEW p \in Index, NEW n \in 0 .. IdxMod - 1, InARow(s, p),
         \A k \in DOMAIN s : Back(p, s[k].at) + n < IdxMod
  PROVE  /\ InARow(s, (p + n) % IdxMod)
         /\ \A k \in DOMAIN s : Back((p + n) % IdxMod, s[k].at) = Back(p, s[k].at) + n
<1> DEFINE q == (p + n) % IdxMod
<1>1. \A k \in DOMAIN s : s[k] \in Message
  OBVIOUS
<1>2. \A k \in DOMAIN s : /\ Back(q, s[k].at) = Back(p, s[k].at) + n
                          /\ Back(p, s[k].at) \in Int /\ Size(s[k]) \in Nat
  BY <1>1, MessageFacts, BackMoves, BackFacts
<1> HIDE DEF q
<1>3. n \in Nat /\ DOMAIN s \subseteq Nat
  OBVIOUS
<1>4. InARow(s, q)
  BY <1>2, <1>3 DEF InARow
<1> QED
  BY <1>2, <1>4 DEF q

\* A message is added where the last one ends.
LEMMA RowAppends ==
  ASSUME NEW s \in Seq(Message), NEW p \in Index, NEW n \in 0 .. IdxMod - 1, InARow(s, p),
         \A k \in DOMAIN s : /\ Back(p, s[k].at) + n < IdxMod
                             /\ Size(s[k]) <= Back(p, s[k].at),
         s # <<>> => p = End(s[Len(s)]),
         NEW m \in Message, m.at = p
  PROVE  /\ InARow(Append(s, m), (p + n) % IdxMod)
         /\ Back((p + n) % IdxMod, m.at) = n
<1> DEFINE q == (p + n) % IdxMod
           r == Append(s, m)
<1>1. /\ \A k \in DOMAIN s : s[k] \in Message
      /\ Len(s) \in Nat /\ DOMAIN s = 1 .. Len(s) /\ DOMAIN r = 1 .. Len(s) + 1
      /\ \A k \in 1 .. Len(s) : r[k] = s[k]
      /\ r[Len(s) + 1] = m
  BY Longer
<1>2. /\ \A k \in DOMAIN s : Back(q, s[k].at) = Back(p, s[k].at) + n
      /\ InARow(s, q)
  BY RowGrows
<1>3. Back(q, m.at) = n
  <2>1. Back(p, p) = 0 /\ 0 + n < IdxMod /\ 0 + n = n
    BY BackFacts, XsAssumption
  <2> QED
    BY <2>1, BackMoves
<1>4. \A k \in DOMAIN s : /\ Back(p, s[k].at) \in Int /\ Size(s[k]) \in Nat
                          /\ Size(s[k]) <= Back(p, s[k].at)
  BY <1>1, MessageFacts, BackFacts
<1> HIDE DEF q, r
<1>5. \A k \in DOMAIN r \ {1} : r[k].at = End(r[k - 1])
  <2> SUFFICES ASSUME NEW k \in DOMAIN r \ {1} PROVE r[k].at = End(r[k - 1])
    OBVIOUS
  <2>1. CASE k = Len(s) + 1
    <3>1. s # <<>> /\ k - 1 = Len(s) /\ Len(s) \in 1 .. Len(s)
      BY <1>1, <2>1
    <3> QED
      BY <1>1, <2>1, <3>1
  <2>2. CASE k # Len(s) + 1
    <3>1. k \in DOMAIN s \ {1} /\ k \in 1 .. Len(s) /\ k - 1 \in 1 .. Len(s)
      BY <1>1, <2>2
    <3> QED
      BY <1>1, <3>1 DEF InARow
  <2> QED
    BY <2>1, <2>2
<1>6. \A j, k \in DOMAIN r : j < k => Back(q, r[j].at) >= Back(q, r[k].at) + Size(r[j])
  <2> SUFFICES ASSUME NEW j \in DOMAIN r, NEW k \in DOMAIN r, j < k
               PROVE  Back(q, r[j].at) >= Back(q, r[k].at) + Size(r[j])
    OBVIOUS
  <2>1. j \in 1 .. Len(s) /\ j \in DOMAIN s /\ r[j] = s[j]
    BY <1>1
  <2>2. CASE k = Len(s) + 1
    <3>1. Back(q, r[k].at) = n /\ n \in Int
      BY <1>1, <1>3, <2>2
    <3>2. Back(q, r[j].at) = Back(p, s[j].at) + n
      BY <1>2, <2>1
    <3> QED
      BY <1>4, <2>1, <3>1, <3>2
  <2>3. CASE k # Len(s) + 1
    <3>1. k \in DOMAIN s /\ r[k] = s[k]
      BY <1>1, <2>3
    <3> QED
      BY <1>2, <2>1, <3>1 DEF InARow
  <2> QED
    BY <2>2, <2>3
<1>7. InARow(r, q)
  BY <1>5, <1>6 DEF InARow
<1> QED
  BY <1>3, <1>7 DEF q, r

\* The first message is taken; the next one begins where it ended.
LEMMA RowShrinks ==
  ASSUME NEW s \in Seq(Message), s # <<>>, NEW p \in Index, InARow(s, p)
  PROVE  /\ InARow(Tail(s), p)
         /\ Tail(s) # <<>> =>
              /\ Head(Tail(s)).at = End(Head(s))
              /\ Back(p, Head(Tail(s)).at) = Back(p, Head(s).at) - Size(Head(s))
              /\ Tail(s)[Len(Tail(s))] = s[Len(s)]
         /\ Tail(s) = <<>> => Len(s) = 1
<1> DEFINE r == Tail(s)
<1>1. /\ Len(s) \in Nat \ {0} /\ DOMAIN s = 1 .. Len(s)
      /\ Len(r) = Len(s) - 1 /\ DOMAIN r = 1 .. Len(s) - 1 /\ r \in Seq(Message)
      /\ \A k \in 1 .. Len(s) - 1 : r[k] = s[k + 1]
      /\ Head(s) = s[1]
  BY Rest
<1> HIDE DEF r
<1>2. r # <<>> => Head(r) = r[1] /\ Len(r) \in Nat \ {0}
  BY <1>1, Rest
<1>3. r = <<>> => Len(s) = 1
  <2>1. r = <<>> => Len(r) = 0
    OBVIOUS
  <2>2. Len(r) = Len(s) - 1 /\ Len(s) \in Nat
    BY <1>1
  <2> QED
    BY <2>1, <2>2
<1>4. \A k \in DOMAIN r \ {1} : r[k].at = End(r[k - 1])
  <2> SUFFICES ASSUME NEW k \in DOMAIN r \ {1} PROVE r[k].at = End(r[k - 1])
    OBVIOUS
  <2>1. /\ k + 1 \in DOMAIN s \ {1} /\ r[k] = s[k + 1] /\ k - 1 \in 1 .. Len(s) - 1
        /\ k + 1 - 1 = k /\ k - 1 + 1 = k
    BY <1>1
  <2>2. r[k - 1] = s[k]
    BY <1>1, <2>1
  <2>3. s[k + 1].at = End(s[k + 1 - 1])
    BY <2>1 DEF InARow
  <2> QED
    BY <2>1, <2>2, <2>3
<1>5. \A j, k \in DOMAIN r : j < k => Back(p, r[j].at) >= Back(p, r[k].at) + Size(r[j])
  <2> SUFFICES ASSUME NEW j \in DOMAIN r, NEW k \in DOMAIN r, j < k
               PROVE  Back(p, r[j].at) >= Back(p, r[k].at) + Size(r[j])
    OBVIOUS
  <2>1. /\ j + 1 \in DOMAIN s /\ k + 1 \in DOMAIN s /\ j + 1 < k + 1
        /\ r[j] = s[j + 1] /\ r[k] = s[k + 1]
    BY <1>1
  <2> QED
    BY <2>1 DEF InARow
<1>6. InARow(r, p)
  BY <1>4, <1>5 DEF InARow
<1>7. ASSUME r # <<>>
      PROVE  /\ Head(r).at = End(Head(s))
             /\ Back(p, Head(r).at) = Back(p, Head(s).at) - Size(Head(s))
             /\ r[Len(r)] = s[Len(s)]
  <2>1. /\ 1 \in DOMAIN s /\ 2 \in DOMAIN s \ {1} /\ 2 - 1 = 1
        /\ 1 \in 1 .. Len(s) - 1 /\ Len(r) \in 1 .. Len(s) - 1 /\ Len(r) + 1 = Len(s)
    BY <1>1, <1>2, <1>7
  <2>2. Head(r) = s[2] /\ Head(s) = s[1] /\ r[Len(r)] = s[Len(s)]
    BY <1>1, <1>2, <1>7, <2>1
  <2>3. s[2].at = End(s[1]) /\ Back(p, s[1].at) >= Back(p, s[2].at) + Size(s[1])
    BY <2>1 DEF InARow
  <2>4. s[1] \in Message /\ s[2] \in Message
    BY <2>1
  <2>5. /\ s[1].at \in Index /\ s[2].at \in Index /\ Size(s[1]) \in Nat
        /\ Back(p, s[1].at) \in 0 .. IdxMod - 1 /\ Back(p, s[2].at) \in 0 .. IdxMod - 1
    BY <2>4, MessageFacts, BackFacts, Zenon
  <2>6. Size(s[1]) \in 0 .. IdxMod - 1 /\ Size(s[1]) <= Back(p, s[1].at)
    BY <2>3, <2>5, XsAssumption
  <2>7. Back(p, End(s[1])) = Back(p, s[1].at) - Size(s[1])
    BY <2>5, <2>6, BackMoves DEF End
  <2> QED
    BY <2>2, <2>3, <2>7
<1> QED
  BY <1>3, <1>6, <1>7 DEF r

\* When the last message is complete all are, and they begin behind the consumer.
LEMMA RowWhole ==
  ASSUME NEW s \in Seq(Message), s # <<>>, NEW p \in Index, InARow(s, p),
         Back(p, s[Len(s)].at) = Size(s[Len(s)])
  PROVE  /\ \A k \in DOMAIN s : /\ Size(s[k]) <= Back(p, s[k].at)
                                /\ Back(p, s[k].at) <= Back(p, Head(s).at)
         /\ p = End(s[Len(s)])
<1>1. /\ Len(s) \in Nat \ {0} /\ DOMAIN s = 1 .. Len(s) /\ Head(s) = s[1]
      /\ \A k \in DOMAIN s : s[k] \in Message
      /\ Len(s) \in DOMAIN s /\ 1 \in DOMAIN s
  BY Rest
<1>2. \A k \in DOMAIN s : /\ Back(p, s[k].at) \in 0 .. IdxMod - 1 /\ Size(s[k]) \in Nat
                          /\ s[k].at \in Index
  BY <1>1, MessageFacts, BackFacts
<1>3. \A k \in DOMAIN s : Size(s[k]) <= Back(p, s[k].at)
  <2> SUFFICES ASSUME NEW k \in DOMAIN s PROVE Size(s[k]) <= Back(p, s[k].at)
    OBVIOUS
  <2>1. CASE k = Len(s)
    BY <1>1, <1>2, <2>1
  <2>2. CASE k < Len(s)
    <3>1. Back(p, s[k].at) >= Back(p, s[Len(s)].at) + Size(s[k])
      BY <1>1, <2>2 DEF InARow
    <3> QED
      BY <1>1, <1>2, <3>1
  <2> QED
    BY <1>1, <2>1, <2>2
<1>4. \A k \in DOMAIN s : Back(p, s[k].at) <= Back(p, s[1].at)
  <2> SUFFICES ASSUME NEW k \in DOMAIN s PROVE Back(p, s[k].at) <= Back(p, s[1].at)
    OBVIOUS
  <2>1. CASE k = 1
    BY <1>1, <1>2, <2>1
  <2>2. CASE k > 1
    <3>1. Back(p, s[1].at) >= Back(p, s[k].at) + Size(s[1])
      BY <1>1, <2>2 DEF InARow
    <3> QED
      BY <1>1, <1>2, <3>1
  <2> QED
    BY <1>1, <2>1, <2>2
<1>5. p = End(s[Len(s)])
  <2> DEFINE m == s[Len(s)]
  <2>1. m.at \in Index /\ Size(m) \in 0 .. IdxMod - 1 /\ Size(m) <= Back(p, m.at)
    BY <1>1, <1>2, <1>3
  <2>2. End(m) \in Index /\ Back(p, End(m)) = Back(p, m.at) - Size(m)
    BY <2>1, BackMoves DEF End
  <2> HIDE DEF m
  <2>3. Back(p, m.at) = Size(m)
    BY DEF m
  <2>4. Back(p, End(m)) = Back(p, p)
    BY <2>1, <2>2, <2>3, BackFacts
  <2>5. p = End(m)
    BY <2>2, <2>4, BackFacts
  <2> QED
    BY <2>5 DEF m
<1> QED
  BY <1>1, <1>3, <1>4, <1>5

LEMMA SameRequests ==
  ASSUME RequestBytes, UNCHANGED <<req_prod, req_cons, reqs, taken>>
  PROVE  RequestBytes'
BY DEF RequestBytes

LEMMA SameResponses ==
  ASSUME ResponseBytes, UNCHANGED <<rsp_prod, rsp_cons, rsps, shown>>
  PROVE  ResponseBytes'
BY DEF ResponseBytes

\* The message that xs_send writes.
LEMMA SentMessage ==
  ASSUME XsTypeOK, OneCaller, InFlight, queued # <<>>
  PROVE  /\ Head(queued) \in Id
         /\ [id |-> Head(queued), len |-> entry[Head(queued)].len,
             from |-> CallerOf(Head(queued)), at |-> req_prod] \in Message
<1> DEFINE i == Head(queued)
<1>1. i \in Id /\ i \in 0 .. Pool
  BY Rest, XsAssumption DEF XsTypeOK, Id
<1>2. entry[i].len \in ReqLen \cup {0}
  BY <1>1 DEF XsTypeOK
<1>3. CallerOf(i) \in Thread
  <2>1. i = queued[1] /\ 1 \in DOMAIN queued
    BY Rest DEF XsTypeOK
  <2>2. \E t \in Thread : pc[t] \in {"reply", "replied"} /\ id[t] = i
    BY <2>1 DEF InFlight, ToBeSent, Awaits
  <2> QED BY <2>2 DEF CallerOf
<1>4. req_prod \in Index
  BY DEF XsTypeOK
<1> HIDE DEF i
<1>5. [id |-> i, len |-> entry[i].len, from |-> CallerOf(i), at |-> req_prod] \in Message
  BY <1>1, <1>2, <1>3, <1>4 DEF Message
<1> QED
  BY <1>1, <1>5 DEF i

LEMMA XsSendRequests ==
  ASSUME XsTypeOK, OneCaller, InFlight, RequestBytes, XsSend
  PROVE  RequestBytes'
<1>1. CASE ~CanWrite
  BY <1>1, SameRequests DEF XsSend, storeVars
<1>2. CASE CanWrite
  <2> DEFINE i == Head(queued)
             m == [id |-> i, len |-> entry[i].len, from |-> CallerOf(i), at |-> req_prod]
             n == Size(m)
  <2>1. /\ queued # <<>> /\ reqs' = Append(reqs, m)
        /\ req_prod' = (req_prod + Size(entry[i])) % IdxMod
        /\ Size(entry[i]) <= Ring /\ (Back(req_prod, req_cons) + Size(entry[i])) % IdxMod <= Ring
        /\ UNCHANGED <<req_cons, taken>>
    BY <1>2, Zenon DEF XsSend, CanWrite, AvailSpaceForWrite, storeVars
  <2>2. m \in Message /\ m.at = req_prod
    BY <2>1, SentMessage
  <2>3. n = Size(entry[i])
    BY Zenon DEF Size
  <2>4. n \in Nat \ {0} /\ n <= Ring
    BY <2>1, <2>2, <2>3, MessageFacts
  <2> HIDE DEF m, n
  <2>5. /\ reqs \in Seq(Message) /\ req_prod \in Index /\ req_cons \in Index /\ taken \in Nat
        /\ Ring \in Nat /\ IdxMod \in Nat /\ IdxMod > 2 * Ring
    BY XsAssumption DEF XsTypeOK
  <2>6. Back(req_prod, req_cons) \in 0 .. Ring
    BY <2>5, BackFacts DEF RequestBytes
  <2>7. Back(req_prod, req_cons) + n <= Ring /\ n \in 0 .. IdxMod - 1
    <3>1. Back(req_prod, req_cons) + n \in 0 .. IdxMod - 1 /\ IdxMod \in Nat \ {0}
      BY <2>4, <2>5, <2>6
    <3>2. (Back(req_prod, req_cons) + n) % IdxMod = Back(req_prod, req_cons) + n
      BY <3>1, ModSmall
    <3> QED
      BY <2>1, <2>3, <2>4, <2>5, <3>2
  <2>8. ASSUME reqs # <<>>
        PROVE  /\ \A k \in DOMAIN reqs : /\ Back(req_prod, reqs[k].at) + n < IdxMod
                                         /\ Size(reqs[k]) <= Back(req_prod, reqs[k].at)
               /\ req_prod = End(reqs[Len(reqs)])
               /\ Back(req_prod, Head(reqs).at) = Back(req_prod, req_cons) + taken
               /\ Back(req_prod, Head(reqs).at) + n < IdxMod
               /\ Head(reqs).at \in Index
    <3>1. /\ InARow(reqs, req_prod) /\ Back(req_prod, reqs[Len(reqs)].at) = Size(reqs[Len(reqs)])
          /\ taken < Size(Head(reqs)) /\ 1 \in DOMAIN reqs /\ Head(reqs) = reqs[1]
          /\ Back(req_prod, Head(reqs).at) = Back(req_prod, req_cons) + taken
      BY <2>5, <2>8, Rest DEF RequestBytes
    <3>2. Head(reqs) \in Message
      BY <2>5, <2>8, Rest
    <3>3. taken < Ring
      BY <2>5, <3>1, <3>2, MessageFacts DEF RequestBytes
    <3>4. Back(req_prod, Head(reqs).at) + n < IdxMod
      BY <2>4, <2>5, <2>6, <2>7, <3>1, <3>3
    <3>5. /\ \A k \in DOMAIN reqs : /\ Size(reqs[k]) <= Back(req_prod, reqs[k].at)
                                    /\ Back(req_prod, reqs[k].at) <= Back(req_prod, Head(reqs).at)
          /\ req_prod = End(reqs[Len(reqs)])
      BY <2>5, <2>8, <3>1, RowWhole
    <3>6. Head(reqs).at \in Index /\ \A k \in DOMAIN reqs : reqs[k].at \in Index
      BY <2>5, <3>2, MessageFacts
    <3>7. \A k \in DOMAIN reqs : Back(req_prod, reqs[k].at) + n < IdxMod
      <4> SUFFICES ASSUME NEW k \in DOMAIN reqs PROVE Back(req_prod, reqs[k].at) + n < IdxMod
        OBVIOUS
      <4>1. /\ Back(req_prod, reqs[k].at) \in 0 .. IdxMod - 1
            /\ Back(req_prod, Head(reqs).at) \in 0 .. IdxMod - 1
        BY <2>5, <3>6, BackFacts
      <4> QED
        BY <2>4, <2>5, <3>4, <3>5, <4>1
    <3> QED
      BY <3>1, <3>4, <3>5, <3>6, <3>7
  <2>9. reqs = <<>> => DOMAIN reqs = {} /\ Len(reqs) = 0
    BY <2>5
  <2>10. InARow(reqs, req_prod)
    BY DEF RequestBytes
  <2>11. InARow(Append(reqs, m), (req_prod + n) % IdxMod) /\ Back((req_prod + n) % IdxMod, m.at) = n
    BY <2>2, <2>5, <2>7, <2>8, <2>9, <2>10, RowAppends
  <2>12. Back(req_prod', req_cons) = Back(req_prod, req_cons) + n
    <3>1. Back(req_prod, req_cons) + n < IdxMod
      BY <2>4, <2>5, <2>6, <2>7
    <3> QED
      BY <2>1, <2>3, <2>5, <2>7, <3>1, BackMoves
  <2>13. /\ Len(reqs) \in Nat /\ DOMAIN reqs = 1 .. Len(reqs) /\ reqs' \in Seq(Message)
         /\ DOMAIN reqs' = 1 .. Len(reqs) + 1 /\ Len(reqs') = Len(reqs) + 1
         /\ \A k \in 1 .. Len(reqs) : reqs'[k] = reqs[k]
         /\ reqs'[Len(reqs) + 1] = m /\ reqs' # <<>>
    BY <2>1, <2>2, <2>5, Longer
  <2>14. Head(reqs') = IF reqs = <<>> THEN m ELSE Head(reqs)
    BY <2>5, <2>9, <2>13, Rest
  <2>15. /\ taken < Size(Head(reqs'))
         /\ Back(req_prod', Head(reqs').at) = Back(req_prod', req_cons) + taken
    <3>1. CASE reqs = <<>>
      <4>1. taken = 0 /\ req_prod = req_cons
        BY <3>1 DEF RequestBytes
      <4>2. Back(req_prod, req_cons) = 0
        BY <2>5, <4>1, BackFacts
      <4> QED
        BY <2>1, <2>3, <2>4, <2>11, <2>12, <2>14, <3>1, <4>1, <4>2 DEF n
    <3>2. CASE reqs # <<>>
      <4>1. Back(req_prod', Head(reqs).at) = Back(req_prod, Head(reqs).at) + n
        BY <2>1, <2>3, <2>5, <2>7, <2>8, <3>2, BackMoves
      <4> QED
        BY <2>4, <2>5, <2>6, <2>8, <2>12, <2>14, <3>2, <4>1 DEF RequestBytes
    <3> QED
      BY <3>1, <3>2
  <2>16. \A k \in DOMAIN reqs' : Size(reqs'[k]) <= Ring
    BY <2>4, <2>13 DEF RequestBytes, n
  <2>17. Back(req_prod', reqs'[Len(reqs')].at) = Size(reqs'[Len(reqs')])
    BY <2>1, <2>3, <2>11, <2>13 DEF n
  <2>18. Back(req_prod', req_cons') <= Ring /\ InARow(reqs', req_prod')
    BY <2>1, <2>3, <2>7, <2>11, <2>12
  <2> QED
    BY <2>1, <2>13, <2>15, <2>16, <2>17, <2>18 DEF RequestBytes
<1> QED
  BY <1>1, <1>2

LEMMA TakeRequests ==
  ASSUME XsTypeOK, RequestBytes, NEW n \in Bytes, StoreTake(n)
  PROVE  RequestBytes'
<1> DEFINE x == Head(reqs)
<1>1. /\ reqs # <<>> /\ n \in 1 .. Size(x) - taken
      /\ req_cons' = (req_cons + n) % IdxMod /\ req_prod' = req_prod
      /\ IF taken + n = Size(x) THEN taken' = 0 /\ reqs' = Tail(reqs)
                                ELSE taken' = taken + n /\ reqs' = reqs
  BY DEF StoreTake, guestRing
<1>2. /\ reqs \in Seq(Message) /\ req_prod \in Index /\ req_cons \in Index /\ taken \in Nat
      /\ Ring \in Nat /\ IdxMod \in Nat /\ IdxMod > 2 * Ring /\ n \in 1 .. Ring
  BY XsAssumption DEF XsTypeOK, Bytes
<1>3. /\ x \in Message /\ x = reqs[1] /\ 1 \in DOMAIN reqs /\ Len(reqs) \in Nat \ {0}
      /\ DOMAIN reqs = 1 .. Len(reqs)
  BY <1>1, <1>2, Rest
<1>4. Size(x) \in Nat \ {0} /\ x.at \in Index /\ Size(x) <= Ring
  BY <1>3, MessageFacts DEF RequestBytes
<1>5. /\ Back(req_prod, req_cons) \in 0 .. Ring /\ Back(req_prod, x.at) \in 0 .. IdxMod - 1
      /\ Back(req_prod, x.at) = Back(req_prod, req_cons) + taken
      /\ InARow(reqs, req_prod) /\ Back(req_prod, reqs[Len(reqs)].at) = Size(reqs[Len(reqs)])
      /\ \A k \in DOMAIN reqs : Size(reqs[k]) <= Ring
  BY <1>1, <1>2, <1>4, BackFacts DEF RequestBytes
<1>6. Size(x) <= Back(req_prod, x.at)
  BY <1>1, <1>2, <1>3, <1>5, RowWhole, Zenon
<1>7. n <= Back(req_prod, req_cons) /\ n \in 0 .. IdxMod - 1
  BY <1>1, <1>2, <1>4, <1>5, <1>6
<1>8. Back(req_prod, req_cons') = Back(req_prod, req_cons) - n
  BY <1>1, <1>2, <1>7, BackMoves
<1>9. req_cons' \in Index
  BY <1>1, <1>2, <1>7, BackMoves
<1> HIDE DEF x
<1>10. CASE taken + n # Size(x)
  <2>1. /\ taken' = taken + n /\ reqs' = reqs /\ taken' < Size(x)
        /\ Back(req_prod, x.at) = Back(req_prod, req_cons') + taken'
        /\ Back(req_prod, req_cons') <= Ring
    <3>1. taken' = taken + n /\ reqs' = reqs
      BY <1>1, <1>10
    <3>2. taken + n < Size(x)
      BY <1>1, <1>2, <1>4, <1>10
    <3> QED
      BY <1>2, <1>5, <1>7, <1>8, <3>1, <3>2
  <2> QED
    BY <1>1, <1>5, <2>1, Zenon DEF RequestBytes, x
<1>11. CASE taken + n = Size(x)
  <2>1. taken' = 0 /\ reqs' = Tail(reqs)
    BY <1>1, <1>11
  <2>2. Back(req_prod, req_cons') = Back(req_prod, x.at) - Size(x) /\ Back(req_prod, req_cons') <= Ring
    BY <1>2, <1>4, <1>5, <1>7, <1>8, <1>11
  <2>3. /\ InARow(Tail(reqs), req_prod)
        /\ Tail(reqs) # <<>> =>
             /\ Back(req_prod, Head(Tail(reqs)).at) = Back(req_prod, x.at) - Size(x)
             /\ Tail(reqs)[Len(Tail(reqs))] = reqs[Len(reqs)]
        /\ Tail(reqs) = <<>> => Len(reqs) = 1
    BY <1>1, <1>2, <1>5, RowShrinks, Zenon DEF x
  <2>4. CASE Tail(reqs) = <<>>
    <3>1. Back(req_prod, x.at) = Size(x)
      BY <1>3, <1>5, <2>3, <2>4
    <3>2. Back(req_prod, req_cons') = Back(req_prod, req_prod)
      BY <1>2, <1>4, <2>2, <3>1, BackFacts
    <3>3. req_prod = req_cons'
      BY <1>2, <1>9, <3>2, BackFacts
    <3>4. reqs' = <<>> /\ DOMAIN reqs' = {}
      BY ONLY <2>1, <2>4
    <3>5. InARow(reqs', req_prod')
      BY <1>1, <2>1, <2>3, Zenon
    <3> QED
      BY <1>1, <2>1, <2>2, <3>3, <3>4, <3>5, Zenon DEF RequestBytes
  <2>5. CASE Tail(reqs) # <<>>
    <3>1. /\ Tail(reqs) \in Seq(Message) /\ DOMAIN Tail(reqs) = 1 .. Len(reqs) - 1
          /\ \A k \in 1 .. Len(reqs) - 1 : Tail(reqs)[k] = reqs[k + 1]
      BY <1>1, <1>2, Rest
    <3>2. Head(Tail(reqs)) \in Message
      BY <2>5, <3>1, Rest
    <3>3. 0 < Size(Head(Tail(reqs)))
      <4>1. \A m \in Message : 0 < Size(m)
        BY MessageFacts
      <4> QED
        BY <3>2, <4>1, Zenon
    <3>4. \A k \in DOMAIN Tail(reqs) : Size(Tail(reqs)[k]) <= Ring
      BY <1>3, <1>5, <3>1
    <3>5. Back(req_prod, Head(Tail(reqs)).at) = Back(req_prod, req_cons') + 0
      BY <1>4, <1>5, <2>2, <2>3, <2>5
    <3> QED
      BY <1>1, <1>5, <2>1, <2>2, <2>3, <2>5, <3>3, <3>4, <3>5, Zenon DEF RequestBytes
  <2> QED
    BY <2>4, <2>5
<1> QED
  BY <1>10, <1>11

\* The bytes of the responses that the xenstore thread has not read.
LEMMA ResponsesFit ==
  ASSUME XsTypeOK, ResponseBytes, NEW n \in Bytes, Show(n)
  PROVE  /\ rsp_prod \in Index /\ rsp_cons \in Index /\ rsps \in Seq(Message)
         /\ rsp_prod' = (rsp_prod + n) % IdxMod /\ rsp_cons' = rsp_cons
         /\ n \in 1 .. IdxMod - 1 /\ Back(rsp_prod, rsp_cons) \in 0 .. Ring
         /\ Back(rsp_prod, rsp_cons) + n <= Ring /\ Ring \in Nat /\ Ring < IdxMod /\ IdxMod \in Nat
         /\ Back(rsp_prod', rsp_cons) = Back(rsp_prod, rsp_cons) + n
         /\ rsps # <<>> => \A k \in DOMAIN rsps :
                             /\ Back(rsp_prod, rsps[k].at) \in 0 .. Back(rsp_prod, rsp_cons)
                             /\ Back(rsp_prod, rsps[k].at) + n < IdxMod
                             /\ rsps[k] \in Message
<1>1. /\ rsp_prod \in Index /\ rsp_cons \in Index /\ rsps \in Seq(Message)
      /\ rsp_prod' = (rsp_prod + n) % IdxMod /\ rsp_cons' = rsp_cons
      /\ Ring \in Nat /\ Ring < IdxMod /\ IdxMod \in Nat
      /\ n \in 1 .. Ring /\ n <= Ring - Back(rsp_prod, rsp_cons)
  BY XsAssumption DEF XsTypeOK, Show, Room, Bytes, guestRing
<1>2. Back(rsp_prod, rsp_cons) \in 0 .. Ring /\ Back(rsp_prod, rsp_cons) + n <= Ring
  BY <1>1, BackFacts DEF ResponseBytes
<1>3. n \in 0 .. IdxMod - 1 /\ n \in 1 .. IdxMod - 1 /\ Back(rsp_prod, rsp_cons) + n < IdxMod
  BY <1>1, <1>2
<1>4. Back(rsp_prod', rsp_cons) = Back(rsp_prod, rsp_cons) + n
  BY <1>1, <1>3, BackMoves
<1>5. ASSUME rsps # <<>>, NEW k \in DOMAIN rsps
      PROVE  /\ Back(rsp_prod, rsps[k].at) \in 0 .. Back(rsp_prod, rsp_cons)
             /\ Back(rsp_prod, rsps[k].at) + n < IdxMod
             /\ rsps[k] \in Message
  <2>1. /\ rsps[1].at = rsp_cons /\ 1 \in DOMAIN rsps /\ rsps[k] \in Message /\ rsps[1] \in Message
        /\ DOMAIN rsps = 1 .. Len(rsps) /\ Len(rsps) \in Nat
    BY <1>1, <1>5, Rest DEF ResponseBytes
  <2>2. Back(rsp_prod, rsps[k].at) \in 0 .. IdxMod - 1 /\ Size(rsps[1]) \in Nat
    BY <1>1, <2>1, MessageFacts, BackFacts
  <2>3. CASE k = 1
    BY <1>1, <1>2, <1>3, <2>1, <2>3
  <2>4. CASE k # 1
    <3>1. Back(rsp_prod, rsps[1].at) >= Back(rsp_prod, rsps[k].at) + Size(rsps[1])
      BY <2>1, <2>4 DEF ResponseBytes, InARow
    <3> QED
      BY <1>1, <1>2, <1>3, <2>1, <2>2, <3>1
  <2> QED
    BY <2>3, <2>4
<1> QED
  BY <1>1, <1>2, <1>3, <1>4, <1>5, Zenon

LEMMA ContinueResponses ==
  ASSUME XsTypeOK, ResponseBytes, NEW n \in Bytes, StoreContinue(n)
  PROVE  ResponseBytes'
<1> DEFINE m == rsps[Len(rsps)]
<1>1. /\ Show(n) /\ rsps # <<>> /\ n \in 1 .. Size(m) - shown
      /\ shown' = shown + n /\ rsps' = rsps
  BY DEF StoreContinue, Complete
<1>2. /\ rsp_prod \in Index /\ rsp_cons \in Index /\ rsps \in Seq(Message)
      /\ rsp_prod' = (rsp_prod + n) % IdxMod /\ rsp_cons' = rsp_cons
      /\ n \in 0 .. IdxMod - 1 /\ n \in Nat
      /\ Back(rsp_prod, rsp_cons) + n <= Ring
      /\ Back(rsp_prod', rsp_cons) = Back(rsp_prod, rsp_cons) + n
      /\ \A k \in DOMAIN rsps : Back(rsp_prod, rsps[k].at) + n < IdxMod
  BY <1>1, ResponsesFit
<1>3. /\ InARow(rsps, rsp_prod')
      /\ \A k \in DOMAIN rsps : Back(rsp_prod', rsps[k].at) = Back(rsp_prod, rsps[k].at) + n
  BY <1>2, RowGrows DEF ResponseBytes
<1>4. Len(rsps) \in DOMAIN rsps /\ m \in Message
  BY <1>1, <1>2, Rest
<1>5. Size(m) \in Nat
  BY <1>4, MessageFacts
<1>6. /\ Back(rsp_prod', m.at) = shown + n /\ shown \in 1 .. Size(m)
      /\ Head(rsps).at = rsp_cons
  BY <1>1, <1>3, <1>4 DEF ResponseBytes
<1>7. shown' \in 1 .. Size(m)
  BY <1>1, <1>2, <1>5, <1>6
<1> HIDE DEF m
<1> QED
  BY <1>1, <1>2, <1>3, <1>6, <1>7 DEF ResponseBytes, m

LEMMA BeginResponses ==
  ASSUME XsTypeOK, ResponseBytes, NEW n \in Bytes, NEW m \in Message, m.at = rsp_prod,
         Begin(m, n)
  PROVE  ResponseBytes'
<1>1. /\ Show(n) /\ Complete /\ n \in 1 .. Size(m)
      /\ shown' = n /\ rsps' = Append(rsps, m)
  BY DEF Begin
<1>2. /\ rsp_prod \in Index /\ rsp_cons \in Index /\ rsps \in Seq(Message)
      /\ rsp_prod' = (rsp_prod + n) % IdxMod /\ rsp_cons' = rsp_cons
      /\ n \in 0 .. IdxMod - 1 /\ n \in Nat
      /\ Back(rsp_prod, rsp_cons) + n <= Ring
      /\ Back(rsp_prod', rsp_cons) = Back(rsp_prod, rsp_cons) + n
      /\ rsps # <<>> => \A k \in DOMAIN rsps : Back(rsp_prod, rsps[k].at) + n < IdxMod
  BY <1>1, ResponsesFit
<1>3. rsps # <<>> => /\ \A k \in DOMAIN rsps : Size(rsps[k]) <= Back(rsp_prod, rsps[k].at)
                     /\ rsp_prod = End(rsps[Len(rsps)])
  <2>1. rsps # <<>> => Back(rsp_prod, rsps[Len(rsps)].at) = Size(rsps[Len(rsps)])
    BY <1>1 DEF ResponseBytes, Complete
  <2> QED
    BY <1>2, <2>1, RowWhole DEF ResponseBytes
<1>4. rsps = <<>> => DOMAIN rsps = {} /\ Len(rsps) = 0
  BY <1>2
<1>5. InARow(Append(rsps, m), rsp_prod') /\ Back(rsp_prod', m.at) = n
  <2>1. InARow(rsps, rsp_prod)
    BY DEF ResponseBytes
  <2>2. \A k \in DOMAIN rsps : /\ Back(rsp_prod, rsps[k].at) + n < IdxMod
                               /\ Size(rsps[k]) <= Back(rsp_prod, rsps[k].at)
    BY <1>2, <1>3, <1>4
  <2> QED
    BY <1>2, <1>3, <2>1, <2>2, RowAppends
<1>6. /\ Len(rsps) \in Nat /\ rsps' \in Seq(Message) /\ Len(rsps') = Len(rsps) + 1
      /\ rsps'[Len(rsps) + 1] = m /\ rsps' # <<>>
      /\ \A k \in 1 .. Len(rsps) : rsps'[k] = rsps[k]
  <2>1. rsps' = Append(rsps, m) /\ rsps \in Seq(Message)
    BY <1>1, <1>2, Zenon
  <2> QED
    BY ONLY m \in Message, <2>1, Longer
<1>7. Head(rsps').at = rsp_cons
  <2>1. Head(rsps') = rsps'[1]
    BY <1>6, Rest
  <2>2. CASE rsps = <<>>
    <3>1. rsp_prod = rsp_cons
      BY <2>2, Zenon DEF ResponseBytes
    <3>2. rsps'[1] = m
      BY ONLY <1>4, <1>6, <2>2
    <3> QED
      BY <2>1, <3>1, <3>2, Zenon
  <2>3. CASE rsps # <<>>
    BY <1>2, <1>6, <2>1, <2>3, Rest DEF ResponseBytes
  <2> QED
    BY <2>2, <2>3
<1>8. Back(rsp_prod', rsp_cons') <= Ring
  BY <1>2
<1> QED
  BY <1>1, <1>2, <1>5, <1>6, <1>7, <1>8 DEF ResponseBytes

\* xs_recv finds a message that is complete where it reads.
LEMMA ReadsMessage ==
  ASSUME XsTypeOK, ResponseBytes, CanRead
  PROVE  /\ rsps # <<>> /\ Head(rsps) \in Message /\ Head(rsps).at = rsp_cons
         /\ Size(Head(rsps)) <= Back(rsp_prod, rsp_cons)
<1>1. rsp_prod \in Index /\ rsps \in Seq(Message) /\ Header \in Nat \ {0}
  BY XsAssumption DEF XsTypeOK
<1>2. rsps # <<>>
  <2>1. Back(rsp_prod, rsp_prod) = 0
    BY <1>1, BackFacts
  <2> QED
    BY <1>1, <2>1 DEF ResponseBytes, CanRead, AvailSpaceForRead
<1>3. Head(rsps) \in Message
  BY <1>1, <1>2, Rest
<1>4. Size(Head(rsps)) <= Back(rsp_prod, rsp_cons)
  <2>1. Size(Head(rsps)) \in Nat
    BY <1>3, MessageFacts
  <2>2. rsp_cons \in Index
    BY DEF XsTypeOK
  <2>3. Back(rsp_prod, rsp_cons) \in 0 .. IdxMod - 1
    BY <1>1, <2>2, BackFacts
  <2> QED
    BY <2>1, <2>3 DEF CanRead, AvailSpaceForRead
<1> QED
  BY <1>2, <1>3, <1>4 DEF ResponseBytes

LEMMA XsRecvResponses ==
  ASSUME XsTypeOK, ResponseBytes, XsRecv
  PROVE  ResponseBytes'
<1>1. CASE ~CanRead
  BY <1>1, SameResponses DEF XsRecv, storeVars
<1>2. CASE CanRead
  <2> DEFINE x == Head(rsps)
  <2>1. /\ rsp_cons' = (rsp_cons + Size(x)) % IdxMod /\ rsps' = Tail(rsps)
        /\ UNCHANGED <<rsp_prod, shown>>
    BY <1>2 DEF XsRecv, storeVars
  <2>2. /\ rsps # <<>> /\ x \in Message /\ x.at = rsp_cons
        /\ Size(x) <= Back(rsp_prod, rsp_cons)
    BY <1>2, ReadsMessage
  <2>3. /\ rsps \in Seq(Message) /\ rsp_prod \in Index /\ rsp_cons \in Index
        /\ Ring \in Nat /\ IdxMod \in Nat
    BY XsAssumption DEF XsTypeOK
  <2>4. Size(x) \in Nat \ {0} /\ Back(rsp_prod, rsp_cons) \in 0 .. IdxMod - 1
    BY <2>2, <2>3, MessageFacts, BackFacts
  <2>5. Size(x) \in 0 .. IdxMod - 1
    BY <2>2, <2>3, <2>4
  <2>6. Back(rsp_prod, rsp_cons') = Back(rsp_prod, rsp_cons) - Size(x) /\ rsp_cons' \in Index
    BY <2>1, <2>2, <2>3, <2>5, BackMoves
  <2>7. /\ InARow(Tail(rsps), rsp_prod)
        /\ Tail(rsps) # <<>> => /\ Head(Tail(rsps)).at = End(x)
                                /\ Tail(rsps)[Len(Tail(rsps))] = rsps[Len(rsps)]
        /\ Tail(rsps) = <<>> => Len(rsps) = 1
    BY <2>2, <2>3, RowShrinks DEF ResponseBytes
  <2>8. x = rsps[1]
    BY <2>2, <2>3, Rest
  <2>9. /\ shown \in 1 .. Size(rsps[Len(rsps)]) /\ Back(rsp_prod, rsps[Len(rsps)].at) = shown
        /\ Back(rsp_prod, rsp_cons) <= Ring
    BY <2>2 DEF ResponseBytes
  <2> HIDE DEF x
  <2>10. Back(rsp_prod, rsp_cons') <= Ring
    BY <2>3, <2>4, <2>6, <2>9
  <2>11. CASE Tail(rsps) # <<>>
    <3>1. Head(Tail(rsps)).at = rsp_cons'
      BY <2>1, <2>2, <2>7, <2>11 DEF End
    <3> QED
      BY <2>1, <2>7, <2>9, <2>10, <2>11, <3>1, Zenon DEF ResponseBytes
  <2>12. CASE Tail(rsps) = <<>>
    <3>1. Back(rsp_prod, rsp_cons) = shown /\ shown \in 1 .. Size(x)
      BY <2>2, <2>7, <2>8, <2>9, <2>12
    <3>2. Back(rsp_prod, rsp_cons') = Back(rsp_prod, rsp_prod)
      BY <2>2, <2>3, <2>4, <2>6, <3>1, BackFacts
    <3>3. rsp_prod = rsp_cons'
      BY <2>3, <2>6, <3>2, BackFacts
    <3> QED
      BY <2>1, <2>7, <2>10, <2>12, <3>3 DEF ResponseBytes
  <2> QED
    BY <2>11, <2>12
<1> QED
  BY <1>1, <1>2

-----------------------------------------------------------------------------
(* The types: sending and receiving.                                       *)

LEMMA XsSendTypes ==
  ASSUME XsTypeOK, OneCaller, InFlight, XsSend
  PROVE  XsTypeOK'
<1>1. /\ queued' \in Seq(Id) /\ reqs' \in Seq(Message) /\ req_prod' \in Index
      /\ xs' \in {"asleep", "woken", "test", "send", "recv"} /\ awake' \in BOOLEAN
  <2>1. CASE ~CanWrite
    BY <2>1 DEF XsTypeOK, XsSend
  <2>2. CASE CanWrite
    <3> DEFINE i == Head(queued)
               m == [id |-> i, len |-> entry[i].len, from |-> CallerOf(i), at |-> req_prod]
    <3>1. /\ queued # <<>> /\ reqs' = Append(reqs, m) /\ queued' = Tail(queued)
          /\ req_prod' = (req_prod + Size(entry[i])) % IdxMod /\ xs' = xs /\ awake' = TRUE
      BY <2>2, Zenon DEF XsSend, CanWrite
    <3>2. m \in Message /\ i \in Id
      BY <3>1, SentMessage, Zenon
    <3>3. Size(m) = Size(entry[i])
      BY Zenon DEF Size
    <3>4. Size(m) \in Nat
      BY <3>2, MessageFacts
    <3> HIDE DEF m
    <3>5. req_prod + Size(entry[i]) \in Int /\ IdxMod \in Nat \ {0}
      BY <3>3, <3>4, XsAssumption DEF XsTypeOK, Index
    <3>6. req_prod' \in Index
      BY <3>1, <3>5, ModRange, Zenon DEF Index
    <3>7. queued' \in Seq(Id) /\ reqs' \in Seq(Message)
      BY <3>1, <3>2, Rest, Longer DEF XsTypeOK
    <3> QED
      BY <3>1, <3>6, <3>7 DEF XsTypeOK
  <2> QED
    BY <2>1, <2>2
<1>2. /\ UNCHANGED <<bm, num_live, last_probed, entry, callVars, rsp_cons, rsps, irq>>
      /\ UNCHANGED <<req_cons, rsp_prod, taken, shown, todo, pending_events, watcher>>
  BY DEF XsSend, storeVars, watchVars
<1>3. /\ {req_cons, rsp_prod, rsp_cons} \subseteq Index /\ rsps \in Seq(Message)
      /\ todo \in Seq(Request) /\ taken \in Nat /\ shown \in Nat /\ irq \in BOOLEAN
      /\ pending_events \in Nat /\ watcher \in {"idle", "asleep", "woken"}
  BY DEF XsTypeOK, Request
<1> QED
  BY <1>1, <1>2, <1>3, SamePoolTypes

LEMMA XsRecvTypes ==
  ASSUME XsTypeOK, PoolInv, ResponseBytes, InFlight, XsRecv, PoolInv'
  PROVE  XsTypeOK'
<1>1. CASE ~CanRead
  <2>1. /\ UNCHANGED <<bm, num_live, last_probed, entry, callVars, rsp_cons, rsps, irq, queued>>
        /\ UNCHANGED <<req_prod, req_cons, rsp_prod, taken, shown, todo, reqs, awake>>
        /\ UNCHANGED <<pending_events, watcher>> /\ xs' = "test"
    BY <1>1 DEF XsRecv, storeVars, watchVars, callVars
  <2> QED
    BY <2>1 DEF XsTypeOK, callVars
<1>2. CASE CanRead
  <2> DEFINE x == Head(rsps)
  <2>1. /\ rsp_cons' = (rsp_cons + Size(x)) % IdxMod /\ rsps' = Tail(rsps) /\ xs' = xs
        /\ awake' = (awake \/ WasFull)
        /\ IF x.id = Pool THEN WatchEvent ELSE Reply(x)
        /\ UNCHANGED <<bm, num_live, last_probed, irq, queued, req_prod, req_cons, rsp_prod, taken>>
        /\ UNCHANGED <<shown, todo, reqs, len, id>>
    BY <1>2 DEF XsRecv, storeVars
  <2>2. rsps # <<>> /\ x \in Message
    BY <1>2, ReadsMessage
  <2>3. Size(x) \in Nat
    BY <2>2, MessageFacts
  <2>4. rsp_cons' \in Index
    <3>1. rsp_cons + Size(x) \in Int /\ IdxMod \in Nat \ {0}
      BY <2>3, XsAssumption DEF XsTypeOK, Index
    <3> QED
      BY <2>1, <3>1, ModRange, Zenon DEF Index
  <2>5. rsps' \in Seq(Message)
    BY <2>1, <2>2, Rest DEF XsTypeOK
  <2>6. awake' \in BOOLEAN
    BY <2>1, Zenon
  <2>7. x.from \in Thread \cup {NoThread}
    BY <2>2 DEF Message
  <2> HIDE DEF x
  <2>8. /\ entry' \in [Id -> [len : ReqLen \cup {0}, recvd : {0, 1}, reply : Thread \cup {NoThread}]]
        /\ pc' \in [Thread -> {"idle", "slot", "freed", "reply", "replied"}]
        /\ pending_events' \in Nat /\ watcher' \in {"idle", "asleep", "woken"}
    <3>1. CASE x.id = Pool
      BY <2>1, <3>1 DEF WatchEvent, XsTypeOK
    <3>2. CASE x.id # Pool
      <4>1. Reply(x)
        BY <2>1, <3>2
      <4>2. /\ pc' \in [Thread -> {"idle", "slot", "freed", "reply", "replied"}]
            /\ UNCHANGED <<pending_events, watcher>>
        BY <4>1 DEF Reply, XsTypeOK, watchVars
      <4>3. CASE x.id \notin bm
        BY <4>1, <4>2, <4>3 DEF Reply, XsTypeOK
      <4>4. CASE x.id \in bm
        <5>1. x.id \in Id
          BY <4>4 DEF XsTypeOK
        <5>2. entry' = [i \in Id |-> IF i = x.id
                                       THEN [[entry[i] EXCEPT !.recvd = 1] EXCEPT !.reply = x.from]
                                       ELSE entry[i]]
          BY <4>1, <4>4, <5>1, Zenon DEF XsTypeOK, Reply
        <5>3. [[entry[x.id] EXCEPT !.recvd = 1] EXCEPT !.reply = x.from]
                = [len |-> entry[x.id].len, recvd |-> 1, reply |-> x.from]
          BY <5>1, AnsweredEntry, Zenon DEF PoolInv, XsShape
        <5> QED
          BY <2>7, <4>2, <5>1, <5>2, <5>3, Zenon DEF XsTypeOK
      <4> QED
        BY <4>3, <4>4
    <3> QED
      BY <3>1, <3>2
  <2> QED
    BY <2>1, <2>4, <2>5, <2>6, <2>8, ZenonT(30) DEF XsTypeOK
<1> QED
  BY <1>1, <1>2

-----------------------------------------------------------------------------
(* The invariant.                                                          *)

\* The parts of the invariant beside the pool, given that the pool is kept.
LEMMA RestXs ==
  ASSUME XsInv, PoolInv', [XsNext]_xsVars
  PROVE  XsInv'
<1>1. XsTypeOK /\ PoolInv /\ OneCaller /\ InFlight /\ OwnReply /\ RequestBytes /\ ResponseBytes
  BY TypesShape DEF XsInv, XsRing, PoolInv
<1>2. PoolInv'
  OBVIOUS
<1> SUFFICES XsTypeOK' /\ InFlight' /\ OwnReply' /\ RequestBytes' /\ ResponseBytes'
  BY <1>2 DEF XsInv, XsRing, PoolInv
\* A call that gets an entry, or that waits for one.
<1>3. ASSUME NEW t \in Thread, NEW l \in ReqLen \cup {0}, pc[t] \in {"idle", "freed"},
             Send(t, l) \/ WaitForEntry(t, l)
      PROVE  XsTypeOK' /\ InFlight' /\ OwnReply' /\ RequestBytes' /\ ResponseBytes'
  <2>1. RequestBytes' /\ ResponseBytes'
    BY <1>1, <1>3, SameRequests, SameResponses DEF Send, WaitForEntry, guestRing, storeVars
  <2>2. CASE Send(t, l)
    BY <1>1, <1>2, <1>3, <2>1, <2>2, SendTypes, SendFlight, SendReplies
  <2>3. CASE WaitForEntry(t, l)
    <3>1. /\ UNCHANGED <<queued, reqs, todo, rsps>>
          /\ UNCHANGED <<entry, id>> /\ pc' = [pc EXCEPT ![t] = "slot"]
      BY <2>3 DEF WaitForEntry, poolVars, storeVars
    <3>2. \A u, i : Awaits(u, i) => Awaits(u, i)'
      BY <1>1, <1>3, <3>1 DEF Awaits, XsTypeOK
    <3>3. OwnReply'
      BY <1>1, <3>1 DEF OwnReply, XsTypeOK
    <3> QED
      BY <1>1, <1>3, <2>1, <2>3, <3>1, <3>2, <3>3, SameFlight, WaitTypes
  <2> QED
    BY <1>3, <2>2, <2>3
<1>4. ASSUME NEW t \in Thread, NEW l \in ReqLen, Call(t, l)
      PROVE  XsTypeOK' /\ InFlight' /\ OwnReply' /\ RequestBytes' /\ ResponseBytes'
  BY <1>3, <1>4 DEF Call
<1>5. ASSUME NEW t \in Thread, Retry(t)
      PROVE  XsTypeOK' /\ InFlight' /\ OwnReply' /\ RequestBytes' /\ ResponseBytes'
  <2>1. len[t] \in ReqLen \cup {0}
    BY <1>1 DEF XsTypeOK
  <2> QED
    BY <1>3, <1>5, <2>1 DEF Retry
<1>6. ASSUME NEW t \in Thread, Return(t)
      PROVE  XsTypeOK' /\ InFlight' /\ OwnReply' /\ RequestBytes' /\ ResponseBytes'
  <2>1. RequestBytes' /\ ResponseBytes'
    BY <1>1, <1>6, SameRequests, SameResponses DEF Return, guestRing, storeVars
  <2> QED
    BY <1>1, <1>2, <1>6, <2>1, ReturnTypes, ReturnFlight, ReturnReplies
\* The steps that move no byte and no message.
<1>7. ASSUME UNCHANGED <<poolVars, callVars, guestRing, reqs, rsps, storeVars>>,
             xs' \in {"asleep", "woken", "test", "send", "recv"}, {awake', irq'} \subseteq BOOLEAN,
             pending_events' \in Nat, watcher' \in {"idle", "asleep", "woken"}
      PROVE  XsTypeOK' /\ InFlight' /\ OwnReply' /\ RequestBytes' /\ ResponseBytes'
  <2>1. /\ UNCHANGED <<bm, num_live, last_probed, entry, callVars, queued, pc, id>>
        /\ UNCHANGED <<req_prod, req_cons, rsp_prod, rsp_cons, reqs, rsps, todo, taken, shown>>
    BY <1>7 DEF poolVars, callVars, guestRing, storeVars
  <2>2. InFlight'
    BY <1>1, <2>1, SameFlight, Zenon DEF Awaits
  <2>3. XsTypeOK'
    BY <1>1, <1>7, <2>1 DEF XsTypeOK, callVars
  <2> QED
    BY <1>1, <2>1, <2>2, <2>3, SameReplies, SameRequests, SameResponses
<1>8. CASE XsTest \/ Handler \/ WatchWait \/ StoreRest \/ StoreChange \/ UNCHANGED xsVars
  <2>1. /\ xs \in {"asleep", "woken", "test", "send", "recv"} /\ {awake, irq} \subseteq BOOLEAN
        /\ pending_events \in Nat /\ watcher \in {"idle", "asleep", "woken"}
    BY <1>1 DEF XsTypeOK
  <2>2. CASE XsTest
    BY <1>7, <2>1, <2>2 DEF XsTest, watchVars
  <2>3. CASE Handler
    BY <1>7, <2>1, <2>3, Zenon DEF Handler, WakeXs, watchVars
  <2>4. CASE WatchWait
    BY <1>7, <2>1, <2>4 DEF WatchWait
  <2>5. CASE StoreRest \/ StoreChange
    BY <1>7, <2>1, <2>5, Zenon DEF StoreRest, StoreChange, watchVars
  <2>6. CASE UNCHANGED xsVars
    BY <1>7, <2>1, <2>6 DEF xsVars, watchVars
  <2> QED
    BY <1>8, <2>2, <2>3, <2>4, <2>5, <2>6
<1>9. CASE XsSend
  <2>1. OwnReply' /\ ResponseBytes'
    BY <1>1, <1>9, SameReplies, SameResponses DEF XsSend, callVars, storeVars
  <2> QED
    BY <1>1, <1>9, <2>1, XsSendTypes, XsSendFlight, XsSendRequests
<1>10. CASE XsRecv
  <2>1. RequestBytes'
    BY <1>1, <1>10, SameRequests DEF XsRecv, storeVars
  <2>2. InFlight' /\ OwnReply'
    <3>1. CASE ~CanRead
      <4>1. UNCHANGED <<entry, pc, id, queued, reqs, todo, rsps>>
        BY <1>10, <3>1 DEF XsRecv, storeVars
      <4> QED
        BY <1>1, <4>1, SameFlight, SameReplies DEF Awaits
    <3>2. CASE CanRead
      <4> DEFINE x == Head(rsps)
      <4>1. /\ rsps' = Tail(rsps) /\ IF x.id = Pool THEN WatchEvent ELSE Reply(x)
            /\ UNCHANGED <<id, queued, reqs, todo>>
        BY <1>10, <3>2 DEF XsRecv, storeVars
      <4>2. rsps # <<>> /\ x \in Message
        BY <1>1, <3>2, ReadsMessage
      <4>3. rsps \in Seq(Message)
        BY <1>1 DEF XsTypeOK
      <4>4. 1 \in DOMAIN rsps /\ x = rsps[1]
        BY <4>2, <4>3, Rest
      <4>5. CASE x.id = Pool
        <5>1. UNCHANGED <<pc, entry>>
          BY <4>1, <4>5, Zenon DEF WatchEvent
        <5> QED
          BY <1>1, <4>1, <4>2, <5>1, EventFlight, SameReplies
      <4>6. CASE x.id # Pool
        <5>1. Reply(x) /\ IsRequest(x)
          BY <4>1, <4>6, ZenonT(30) DEF IsRequest
        <5>2. Awaits(x.from, x.id)
          BY <1>1, <4>4, <5>1 DEF InFlight, FromCaller
        <5>3. x.id \in bm
          BY <1>1, <5>2, FlightInUse
        <5> QED
          BY <1>1, <4>1, <4>2, <5>1, <5>2, <5>3, ReplyFlight, ReplyReplies
      <4> QED
        BY <4>5, <4>6
    <3> QED
      BY <3>1, <3>2
  <2> QED
    BY <1>1, <1>2, <1>10, <2>1, <2>2, XsRecvTypes, XsRecvResponses
<1>11. ASSUME NEW n \in Bytes, StoreTake(n)
       PROVE  XsTypeOK' /\ InFlight' /\ OwnReply' /\ RequestBytes' /\ ResponseBytes'
  <2>1. OwnReply' /\ ResponseBytes'
    BY <1>1, <1>11, SameReplies, SameResponses DEF StoreTake, poolVars, callVars, guestRing
  <2> QED
    BY <1>1, <1>11, <2>1, TakeTypes, TakeFlight, TakeRequests
\* What the store shows: the requests and the callers are as they were.
<1>12. ASSUME NEW n, Show(n) PROVE OwnReply' /\ RequestBytes'
  BY <1>1, <1>12, SameReplies, SameRequests DEF Show, poolVars, callVars, guestRing
<1>13. ASSUME NEW m \in Message, m.at = rsp_prod, NEW n \in Bytes, Begin(m, n), todo' \in Seq(Request)
       PROVE  XsTypeOK' /\ ResponseBytes' /\ OwnReply' /\ RequestBytes'
  <2>1. Show(n) /\ rsps' = Append(rsps, m) /\ shown' = n
    BY <1>13 DEF Begin
  <2>2. rsps' \in Seq(Message) /\ shown' \in Nat
    BY <1>1, <2>1, Longer DEF XsTypeOK, Bytes
  <2> QED
    BY <1>1, <1>12, <1>13, <2>1, <2>2, ShowTypes, BeginResponses
<1>14. ASSUME NEW l \in RepLen, NEW n \in Bytes, StoreAnswer(l, n)
       PROVE  XsTypeOK' /\ InFlight' /\ OwnReply' /\ RequestBytes' /\ ResponseBytes'
  <2> DEFINE x == Head(todo)
             m == [id |-> x.id, len |-> l, from |-> x.from, at |-> rsp_prod]
  <2>1. todo # <<>> /\ Begin(m, n) /\ todo' = Tail(todo)
    BY <1>14 DEF StoreAnswer
  <2>2. todo \in Seq(Request) /\ rsp_prod \in Index
    BY <1>1 DEF XsTypeOK, Request
  <2>3. x \in Request /\ todo' \in Seq(Request)
    BY <2>1, <2>2, Rest
  <2>4. x.id \in 0 .. Pool /\ x.from \in Thread
    BY ONLY <2>3, XsAssumption, SMTT(30) DEF Request, Id
  <2> HIDE DEF x
  <2>5. m \in Message /\ m.at = rsp_prod
    BY <2>2, <2>4 DEF Message
  <2> HIDE DEF m
  <2> QED
    BY <1>1, <1>13, <1>14, <2>1, <2>3, <2>5, AnswerFlight, ZenonT(30)
<1>15. ASSUME NEW n \in Bytes, StoreEvent(n)
       PROVE  XsTypeOK' /\ InFlight' /\ OwnReply' /\ RequestBytes' /\ ResponseBytes'
  <2> DEFINE m == [id |-> Pool, len |-> 0, from |-> NoThread, at |-> rsp_prod]
  <2>1. Begin(m, n) /\ todo' = todo
    BY <1>15 DEF StoreEvent
  <2>2. todo \in Seq(Request) /\ rsp_prod \in Index
    BY <1>1 DEF XsTypeOK, Request
  <2>3. m \in Message /\ m.at = rsp_prod /\ ~IsRequest(m)
    BY <2>2, XsAssumption DEF Message, IsRequest
  <2> HIDE DEF m
  <2> QED
    BY <1>1, <1>13, <2>1, <2>2, <2>3, BeginFlight
<1>16. ASSUME NEW n \in Bytes, StoreContinue(n)
       PROVE  XsTypeOK' /\ InFlight' /\ OwnReply' /\ RequestBytes' /\ ResponseBytes'
  <2>1. Show(n) /\ shown' = shown + n /\ UNCHANGED <<rsps, todo>>
    BY <1>16 DEF StoreContinue
  <2>2. rsps' \in Seq(Message) /\ shown' \in Nat /\ todo' \in Seq(Request)
    BY <1>1, <2>1 DEF XsTypeOK, Bytes, Request
  <2>3. InFlight'
    BY <1>1, <2>1, SameFlight DEF Show, poolVars, callVars, Awaits
  <2> QED
    BY <1>1, <1>12, <1>16, <2>1, <2>2, <2>3, ShowTypes, ContinueResponses
<1> QED
  BY <1>4, <1>5, <1>6, <1>8, <1>9, <1>10, <1>11, <1>14, <1>15, <1>16
     DEF XsNext, Taking, Answering, Continuing

-----------------------------------------------------------------------------
INSTANCE FiniteSetTheorems

(* The pool: the steps that change what is counted.                        *)

LEMMA HeldFinite == IsFiniteSet(Held)
<1>1. Held \subseteq Thread
  BY DEF Held
<1> QED
  BY <1>1, XsAssumption, FS_Subset

LEMMA IdFinite == IsFiniteSet(Id)
<1>1. IsFiniteSet(0 .. Pool - 1)
  BY XsAssumption, FS_Interval
<1> QED
  BY <1>1 DEF Id

LEMMA Added ==
  ASSUME NEW S, IsFiniteSet(S), NEW x, x \notin S
  PROVE  Cardinality(S \cup {x}) = Cardinality(S) + 1
BY FS_AddElement

LEMMA Removed ==
  ASSUME NEW S, IsFiniteSet(S), NEW x \in S
  PROVE  Cardinality(S \ {x}) = Cardinality(S) - 1
BY FS_RemoveElement

LEMMA InitHolds == XsInit => PoolInv
<1> SUFFICES ASSUME XsInit PROVE PoolInv
  OBVIOUS
<1>1. Held = {}
  BY SMTT(30) DEF XsInit, Held
<1>2. XsShape
  BY XsAssumption, SMTT(30) DEF XsInit, XsShape, Id
<1>3. PoolExact
  BY <1>1, FS_EmptySet DEF XsInit, PoolExact
<1>4. XsNoLostWakeup
  BY SMTT(30) DEF XsInit, XsNoLostWakeup
<1> QED
  BY <1>1, <1>2, <1>3, <1>4 DEF PoolInv, OneCaller

\* A caller that gets an entry and waits for its reply.
LEMMA SendKeeps ==
  ASSUME PoolInv, NEW t \in Thread, NEW l, pc[t] \in {"idle", "freed"}, Send(t, l)
  PROVE  PoolInv'
<1>0. /\ XsShape' /\ OneCaller' /\ XsNoLostWakeup'
      /\ Held' = Held \cup {t} /\ t \notin Held /\ num_live' = num_live + 1
      /\ \E i \in Id \ bm : bm' = bm \cup {i}
      /\ bm' = {id'[u] : u \in Held'}
  BY SendPool
<1>1. XsShape /\ PoolExact
  BY Zenon DEF PoolInv
<1>2. IsFiniteSet(bm)
  BY <1>1, IdFinite, FS_Subset, Zenon DEF XsShape
<1>3. Cardinality(bm') = Cardinality(bm) + 1
  BY <1>0, <1>2, Added, Zenon
<1>4. Cardinality(Held') = Cardinality(Held) + 1
  BY <1>0, HeldFinite, Added, Zenon
<1>5. PoolExact'
  BY <1>0, <1>1, <1>3, <1>4, ZenonT(30) DEF PoolExact
<1> QED
  BY <1>0, <1>5, Zenon DEF PoolInv

\* A caller that returns with its reply: its entry is free again.
LEMMA ReturnKeeps ==
  ASSUME PoolInv, NEW t \in Thread, Return(t)
  PROVE  PoolInv'
<1>1. XsShape /\ PoolExact
  BY Zenon DEF PoolInv
<1>2. IsFiniteSet(bm)
  BY <1>1, IdFinite, FS_Subset, Zenon DEF XsShape
<1>3. Cardinality(bm') = Cardinality(bm) - 1
  BY <1>2, ReturnPool, Removed, Zenon
<1>4. Cardinality(Held') = Cardinality(Held) - 1
  BY ReturnPool, HeldFinite, Removed, Zenon
<1>5. Cardinality(Held') \in Nat
  <2>1. Held' \subseteq Held
    BY ReturnPool, Zenon
  <2> QED
    BY <2>1, HeldFinite, FS_Subset, FS_CardinalityType, Zenon
<1>6. PoolExact' /\ num_live' \in Nat
  BY <1>1, <1>3, <1>4, <1>5, ReturnPool, ZenonT(30) DEF PoolExact
<1> QED
  BY <1>6, ReturnPool, Zenon DEF PoolInv

LEMMA StepHolds == PoolInv /\ [XsNext]_xsVars => PoolInv'
<1> SUFFICES ASSUME PoolInv, [XsNext]_xsVars PROVE PoolInv'
  OBVIOUS
<1>1. ASSUME NEW t \in Thread, NEW l, Call(t, l) PROVE PoolInv'
  BY <1>1, SendKeeps, WaitKeeps DEF Call
<1>2. ASSUME NEW t \in Thread, Retry(t) PROVE PoolInv'
  BY <1>2, SendKeeps, WaitKeeps DEF Retry
<1>3. ASSUME NEW n, StoreTake(n) PROVE PoolInv'
  BY <1>3, AnnouncedKeeps DEF StoreTake
<1>4. ASSUME NEW n, Show(n) PROVE PoolInv'
  BY <1>4, AnnouncedKeeps DEF Show
<1>5. CASE StoreRest \/ StoreChange
  BY <1>5, AnnouncedKeeps, Zenon DEF StoreRest, StoreChange
<1>6. CASE UNCHANGED xsVars
  BY <1>6, AnnouncedKeeps DEF xsVars
<1>7. CASE Answering \/ Continuing \/ (\E n \in Bytes : StoreEvent(n))
  BY <1>4, <1>7, Zenon DEF Answering, StoreAnswer, Continuing, StoreContinue, StoreEvent, Begin
<1> QED
  BY <1>1, <1>2, <1>3, <1>5, <1>6, <1>7, ReturnKeeps, TestKeeps, XsSendKeeps, XsRecvKeeps,
     HandlerKeeps, WatchWaitKeeps DEF XsNext, Taking

LEMMA InitXs == XsInit => XsInv
<1> SUFFICES ASSUME XsInit PROVE XsInv
  OBVIOUS
<1>1. OwnReply
  BY DEF XsInit, OwnReply
<1>2. /\ Back(req_prod, req_cons) = 0 /\ Back(rsp_prod, rsp_cons) = 0
      /\ DOMAIN reqs = {} /\ DOMAIN rsps = {} /\ 0 <= Ring
  <2>1. 0 \in Index /\ 0 <= Ring
    BY XsAssumption, SMTT(30) DEF Index
  <2> QED
    BY <2>1, BackFacts DEF XsInit
<1>3. RequestBytes
  BY <1>2, Zenon DEF XsInit, RequestBytes, InARow
<1>4. ResponseBytes
  BY <1>2 DEF XsInit, ResponseBytes, InARow
<1> QED
  BY <1>1, <1>3, <1>4, InitHolds, InitTypes, InitFlight, ZenonT(30) DEF XsInv, PoolInv, XsRing

LEMMA StepXs == XsInv /\ [XsNext]_xsVars => XsInv'
<1> SUFFICES ASSUME XsInv, [XsNext]_xsVars PROVE XsInv'
  OBVIOUS
<1>1. PoolInv
  BY TypesShape DEF XsInv, PoolInv
<1> QED BY <1>1, StepHolds, RestXs

\* The invariant of XsComms holds for every number of callers, pool and ring: the pool is
\* exact, xs_request_put, process_reply, process_watch_event and the handler lose no wake-up,
\* every request on its way belongs to one caller, and the rings hold whole messages.
THEOREM XsInvariance == XsSpec => []XsInv
BY InitXs, StepXs, PTL DEF XsSpec

\* The pool of requests is exact: bitmap, count and callers agree whatever the callers, the
\* xenstore thread and the store do.
THEOREM PoolIsExact == XsSpec => []PoolExact
<1>1. XsInv => PoolExact
  BY DEF XsInv
<1> QED
  BY XsInvariance, <1>1, PTL

\* No caller, watcher or xenstore thread sleeps through what it waits for.
THEOREM WakeupsArrive == XsSpec => []XsNoLostWakeup
<1>1. XsInv => XsNoLostWakeup
  BY DEF XsInv
<1> QED
  BY XsInvariance, <1>1, PTL

\* process_reply never completes a call of xs_msg_reply with the answer to another one,
\* however often identifiers are used again and however late the store answers.
THEOREM RepliesAreOwn == XsSpec => []OwnReply
<1>1. XsInv => OwnReply
  BY DEF XsInv
<1> QED
  BY XsInvariance, <1>1, PTL

\* xs_msg_write and xs_recv keep within the rings of any size, also where the indices wrap:
\* no message is overwritten before it has been read, and none is read before it is complete.
THEOREM RingsAreWhole == XsSpec => []XsRing
<1>1. XsInv => XsRing
  BY DEF XsInv
<1> QED
  BY XsInvariance, <1>1, PTL
=============================================================================

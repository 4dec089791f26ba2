------------------------------ MODULE P9Proofs ------------------------------
(***************************************************************************)
(* The 9P client for any number of callers, requests and tags: what both   *)
(* transports rest on, then the virtio transport and the Xen transport.    *)
(* Tags, requests and references stay exact, every reply finds its request *)
(* and no sleeper is forgotten.                                            *)
(***************************************************************************)
EXTENDS Virtio9p, P9Front, QueueLemmas, TLAPS

\* As long as a caller has no request, there is a tag for it.
TagsLeft == \A t \in Caller : call[t].req = None => NextTag \in Tag \ tag_bm

-----------------------------------------------------------------------------
(* The 9P client, whatever the transport.                                  *)

\* A caller that goes on within its call keeps its request.
LEMMA Moves ==
  ASSUME Uk9pTypeOK, NEW t \in Caller, NEW pc \in Pc, Goto(t, pc)
  PROVE  /\ call' \in [Caller -> [pc : Pc, req : Req \cup {None}]]
         /\ call'[t].pc = pc
         /\ \A u \in Caller : call'[u].req = call[u].req
         /\ \A u \in Caller : u # t => call'[u] = call[u]
         /\ HeldReqs' = HeldReqs
<1>1. call \in [Caller -> [pc : Pc, req : Req \cup {None}]]
  BY DEF Uk9pTypeOK
<1>2. call' = [call EXCEPT ![t].pc = pc]
  BY DEF Goto
<1>3. call' \in [Caller -> [pc : Pc, req : Req \cup {None}]] /\ call'[t].pc = pc
  BY <1>1, <1>2
<1>4. \A u \in Caller : call'[u].req = call[u].req
  BY <1>1, <1>2
<1>5. \A u \in Caller : u # t => call'[u] = call[u]
  BY <1>1, <1>2
<1>6. HeldReqs' = HeldReqs
  BY <1>4 DEF HeldReqs
<1> QED BY <1>3, <1>4, <1>5, <1>6

\* The request of a caller, and that of another.
LEMMA OwnRequest ==
  ASSUME Uk9pInv, NEW t \in Caller, call[t].pc # "out"
  PROVE  /\ call[t].req \in Req /\ call[t].req \in HeldReqs /\ call[t].req \in Listed
         /\ call[t].req \notin Free /\ call[t].req \notin Fresh
         /\ \A u \in Caller : u # t => call[u].req # call[t].req
<1>1. call[t].req # None /\ call[t].req \in Req
  BY DEF Uk9pInv, Uk9pTypeOK, CallsMatch
<1>2. call[t].req \in HeldReqs
  BY <1>1 DEF HeldReqs
<1> QED BY <1>1, <1>2 DEF Uk9pInv, RequestsOwned

\* A step that leaves lists and tags alone keeps what is said of them.
LEMMA ListsFrame ==
  ASSUME Uk9pInv, UNCHANGED <<req_list, req_free_list, tag_bm>>,
         \A u \in Caller : call'[u].req = call[u].req,
         \A r \in Req : req'[r].tag = req[r].tag /\ (req'[r].state = "NONE" <=> req[r].state = "NONE")
  PROVE  TagsExact' /\ RequestsOwned'
<1>1. HeldReqs' = HeldReqs
  BY DEF HeldReqs
<1>2. Listed' = Listed /\ Free' = Free /\ Listed \subseteq Req
  BY DEF Listed, Free, Uk9pInv, Uk9pTypeOK, Range
<1>3. Fresh' = Fresh
  BY DEF Fresh
<1>4. TagsExact'
  BY <1>2 DEF Uk9pInv, TagsExact
<1>5. RequestsOwned'
  BY <1>1, <1>2, <1>3 DEF Uk9pInv, RequestsOwned
<1> QED BY <1>4, <1>5

LEMMA InitUk9p == ASSUME Uk9pAssumption, Uk9pInit PROVE Uk9pInv
<1>0. None \notin Caller /\ None \notin Req /\ Range(<<>>) = {}
  BY DEF Uk9pAssumption, Range
<1>1. Uk9pTypeOK
  <2>1. <<>> \in Seq(Req) /\ IsInjective(<<>>)
    BY DEF IsInjective
  <2>2. 0 \in Tag
    BY DEF Tag, Uk9pAssumption
  <2> QED BY <2>1, <2>2 DEF Uk9pInit, Uk9pTypeOK, State, Pc
<1>2. TagsExact
  BY <1>0 DEF Uk9pInit, TagsExact, Listed
<1>3. RequestsOwned
  BY <1>0 DEF Uk9pInit, RequestsOwned, Listed, Free, HeldReqs, Fresh
<1>4. CallsMatch
  BY <1>0 DEF Uk9pInit, CallsMatch
<1>5. WaitersLinked
  BY <1>0 DEF Uk9pInit, WaitersLinked
<1> QED BY <1>1, <1>2, <1>3, <1>4, <1>5 DEF Uk9pInv

LEMMA ScheduleKeeps ==
  ASSUME Uk9pAssumption, Uk9pInv, NEW t \in AnyThread, Schedule(t)
  PROVE  Uk9pInv'
<1>0. /\ cpu = None /\ cpu' = t /\ UNCHANGED <<reqVars, call, waitq, blocked>>
      /\ \A u \in Caller : u # None
  BY DEF Schedule, Uk9pAssumption
<1>1. Uk9pTypeOK'
  BY <1>0 DEF Uk9pInv, Uk9pTypeOK, reqVars
<1>2. TagsExact' /\ RequestsOwned'
  BY <1>0, ListsFrame DEF reqVars
<1>3. CallsMatch'
  BY <1>0 DEF Uk9pInv, CallsMatch, reqVars
<1>4. WaitersLinked'
  BY <1>0 DEF Uk9pInv, WaitersLinked
<1> QED BY <1>1, <1>2, <1>3, <1>4 DEF Uk9pInv

LEMMA YieldKeeps ==
  ASSUME Uk9pInv, NEW t \in Caller, Yield(t)
  PROVE  Uk9pInv'
<1>0. /\ cpu = t /\ call[t].pc = "out" /\ cpu' = None
      /\ UNCHANGED <<reqVars, call, waitq, blocked>>
  BY DEF Yield, Runs
<1>1. Uk9pTypeOK'
  BY <1>0 DEF Uk9pInv, Uk9pTypeOK, reqVars
<1>2. TagsExact' /\ RequestsOwned'
  BY <1>0, ListsFrame DEF reqVars
<1>3. CallsMatch'
  BY <1>0 DEF Uk9pInv, CallsMatch, reqVars
<1>4. WaitersLinked'
  BY <1>0 DEF Uk9pInv, WaitersLinked
<1> QED BY <1>1, <1>2, <1>3, <1>4 DEF Uk9pInv

\* A caller goes on: its request fits, and the others' do as before.
LEMMA CallsStep ==
  ASSUME Uk9pInv, NEW t \in Caller, NEW pc \in Pc, Goto(t, pc), cpu = t,
         call[t].pc # "out", pc # "out",
         cpu' = t \/ pc \in {"xenq", "renq"},
         \A r \in Req : r # call[t].req => req'[r].state = req[r].state,
         Fits(pc, req'[call[t].req].state)
  PROVE  CallsMatch'
<1>1. /\ call'[t].pc = pc /\ \A u \in Caller : call'[u].req = call[u].req
      /\ \A u \in Caller : u # t => call'[u] = call[u]
  BY Moves DEF Uk9pInv
<1>2. \A u \in Caller : u # t => call[u].req # call[t].req
  BY OwnRequest
<1>3. \A u \in Caller : (call[u].req = None <=> call[u].pc = "out")
  BY DEF Uk9pInv, CallsMatch
<1>4. (call'[t].req = None <=> call'[t].pc = "out") /\ (cpu' = t \/ call'[t].pc \in {"out", "xenq", "renq"})
  BY <1>1, <1>3
<1>5. ASSUME NEW u \in Caller, u # t
      PROVE  /\ call'[u].req = None <=> call'[u].pc = "out"
             /\ call'[u].pc # "out" => Fits(call'[u].pc, req'[call'[u].req].state)
             /\ cpu' = u \/ call'[u].pc \in {"out", "xenq", "renq"}
  <2>1. call'[u] = call[u] /\ cpu # u
    BY <1>1, <1>5
  <2>2. call[u].pc # "out" => req'[call[u].req].state = req[call[u].req].state
    BY <1>2, <1>5, OwnRequest
  <2> QED BY <2>1, <2>2 DEF Uk9pInv, CallsMatch
<1> QED BY <1>1, <1>4, <1>5 DEF CallsMatch

LEMMA ReadyKeeps ==
  ASSUME Uk9pInv, NEW t \in Caller, Ready(t)
  PROVE  Uk9pInv'
<1> DEFINE r == call[t].req
<1>0. /\ cpu = t /\ call[t].pc = "ready" /\ req' = [req EXCEPT ![r].state = "READY"]
      /\ Goto(t, "xtest") /\ UNCHANGED <<tag_bm, req_list, req_free_list, waitq, blocked, cpu>>
  BY DEF Ready, Runs, runVars
<1>1. /\ r \in Req /\ req[r].state = "INITIALIZED" /\ "xtest" \in Pc
      /\ req \in [Req -> [state : State, tag : Tag, ref : 0..2]]
  BY <1>0, OwnRequest DEF Uk9pInv, CallsMatch, Fits, Uk9pTypeOK, Pc
<1>2. /\ req' \in [Req -> [state : State, tag : Tag, ref : 0..2]] /\ req'[r].state = "READY"
      /\ \A s \in Req : s # r => req'[s] = req[s]
      /\ \A s \in Req : req'[s].tag = req[s].tag /\ (req'[s].state = "NONE" <=> req[s].state = "NONE")
  BY <1>0, <1>1 DEF State
<1>3. Uk9pTypeOK'
  BY <1>0, <1>1, <1>2, Moves DEF Uk9pInv, Uk9pTypeOK
<1>4. TagsExact' /\ RequestsOwned'
  BY <1>0, <1>1, <1>2, Moves, ListsFrame DEF Uk9pInv
<1>5. CallsMatch'
  BY <1>0, <1>1, <1>2, CallsStep DEF Fits
<1>6. WaitersLinked'
  BY <1>0, <1>1, Moves DEF Uk9pInv, WaitersLinked
<1> QED BY <1>3, <1>4, <1>5, <1>6 DEF Uk9pInv

\* The steps of a wait leave the requests alone.
LEMMA WaitStep ==
  ASSUME Uk9pInv, NEW t \in Caller, NEW pc \in Pc, Goto(t, pc), cpu = t,
         call[t].pc # "out", pc # "out", UNCHANGED reqVars,
         cpu' \in {t, None}, cpu' # t => pc \in {"xenq", "renq"},
         Fits(pc, req[call[t].req].state),
         waitq' \in [Req \cup {xmit_wq, BhThread} -> SUBSET AnyThread],
         blocked' \subseteq AnyThread
  PROVE  Uk9pTypeOK' /\ TagsExact' /\ RequestsOwned' /\ CallsMatch'
<1>1. Uk9pTypeOK'
  <2>1. cpu' \in AnyThread \cup {None}
    BY DEF AnyThread
  <2> QED BY <2>1, Moves DEF Uk9pInv, Uk9pTypeOK, reqVars
<1>2. TagsExact' /\ RequestsOwned'
  BY Moves, ListsFrame DEF Uk9pInv, reqVars
<1>3. CallsMatch'
  BY CallsStep DEF reqVars
<1> QED BY <1>1, <1>2, <1>3

\* Linking a caller's entry, and unlinking it.
LEMMA EnqueueLinks ==
  ASSUME Uk9pInv, NEW t \in Caller, NEW q \in Req \cup {xmit_wq}, Enqueue(t, q),
         NEW pc, Goto(t, pc), pc \in Pc,
         \/ q = xmit_wq /\ call[t].pc = "xenq" /\ pc = "xchk" /\ xmit_wq \notin Req
         \/ q = call[t].req /\ q \in Req /\ call[t].pc = "renq" /\ pc = "rchk"
  PROVE  /\ waitq' \in [Req \cup {xmit_wq, BhThread} -> SUBSET AnyThread]
         /\ blocked' \subseteq AnyThread /\ cpu' = cpu
         /\ WaitersLinked'
<1>0. /\ waitq' = [waitq EXCEPT ![q] = @ \cup {t}] /\ blocked' = blocked \cup {t} /\ cpu' = cpu
  BY DEF Enqueue
<1>1. /\ waitq \in [Req \cup {xmit_wq, BhThread} -> SUBSET AnyThread]
      /\ blocked \subseteq AnyThread /\ t \in AnyThread
  BY DEF Uk9pInv, Uk9pTypeOK, AnyThread
<1>2. /\ waitq'[q] = waitq[q] \cup {t} /\ \A p \in Req \cup {xmit_wq} : p # q => waitq'[p] = waitq[p]
      /\ waitq' \in [Req \cup {xmit_wq, BhThread} -> SUBSET AnyThread]
      /\ blocked' \subseteq AnyThread
  BY <1>0, <1>1
<1>3. /\ call'[t].pc = pc /\ \A u \in Caller : call'[u].req = call[u].req
      /\ \A u \in Caller : u # t => call'[u] = call[u]
  BY Moves DEF Uk9pInv
<1>4. ASSUME NEW r \in Req, NEW u \in waitq'[r]
      PROVE  u \in Caller /\ call'[u].req = r /\ call'[u].pc \in {"renq", "rchk", "rdeq"}
  <2>1. CASE u \in waitq[r]
    BY <2>1, <1>3 DEF Uk9pInv, WaitersLinked
  <2>2. CASE u \notin waitq[r]
    BY <2>2, <1>2, <1>3, <1>4
  <2> QED BY <2>1, <2>2
<1>5. ASSUME NEW u \in blocked' \cap Caller
      PROVE  \/ call'[u].pc \in {"xenq", "xchk", "xdeq"} /\ u \in waitq'[xmit_wq]
             \/ call'[u].pc \in {"renq", "rchk", "rdeq"} /\ u \in waitq'[call'[u].req]
  <2>1. CASE u = t
    BY <2>1, <1>2, <1>3
  <2>2. CASE u # t
    <3>1. u \in blocked \cap Caller
      BY <2>2, <1>0
    <3>2. \/ call[u].pc \in {"xenq", "xchk", "xdeq"} /\ u \in waitq[xmit_wq]
          \/ call[u].pc \in {"renq", "rchk", "rdeq"} /\ u \in waitq[call[u].req]
      BY <3>1 DEF Uk9pInv, WaitersLinked
    <3>3. call[u].pc # "out" => call[u].req \in Req
      BY OwnRequest
    <3> QED BY <3>2, <3>3, <2>2, <1>2, <1>3
  <2> QED BY <2>1, <2>2
<1> QED BY <1>0, <1>2, <1>4, <1>5 DEF WaitersLinked

LEMMA DequeueUnlinks ==
  ASSUME Uk9pInv, NEW t \in Caller, NEW q \in Req \cup {xmit_wq}, Dequeue(t, q),
         NEW pc, Goto(t, pc), pc \in Pc,
         \/ q = xmit_wq /\ call[t].pc = "xdeq" /\ xmit_wq \notin Req
         \/ q = call[t].req /\ call[t].pc = "rdeq"
  PROVE  /\ waitq' \in [Req \cup {xmit_wq, BhThread} -> SUBSET AnyThread]
         /\ blocked' \subseteq AnyThread /\ cpu' = cpu
         /\ WaitersLinked'
<1>0. /\ waitq' = [waitq EXCEPT ![q] = @ \ {t}] /\ blocked' = blocked \ {t} /\ cpu' = cpu
  BY DEF Dequeue
<1>1. /\ waitq \in [Req \cup {xmit_wq, BhThread} -> SUBSET AnyThread]
      /\ blocked \subseteq AnyThread
  BY DEF Uk9pInv, Uk9pTypeOK
<1>2. /\ waitq'[q] = waitq[q] \ {t} /\ \A p \in Req \cup {xmit_wq} : p # q => waitq'[p] = waitq[p]
      /\ waitq' \in [Req \cup {xmit_wq, BhThread} -> SUBSET AnyThread]
      /\ blocked' \subseteq AnyThread
  BY <1>0, <1>1
<1>3. /\ call'[t].pc = pc /\ \A u \in Caller : call'[u].req = call[u].req
      /\ \A u \in Caller : u # t => call'[u] = call[u]
  BY Moves DEF Uk9pInv
<1>4. ASSUME NEW r \in Req, NEW u \in waitq'[r]
      PROVE  u \in Caller /\ call'[u].req = r /\ call'[u].pc \in {"renq", "rchk", "rdeq"}
  <2>1. u \in waitq[r]
    BY <1>2, <1>4
  <2>2. u \in Caller /\ call[u].req = r /\ call[u].pc \in {"renq", "rchk", "rdeq"}
    BY <2>1 DEF Uk9pInv, WaitersLinked
  <2>3. u # t
    BY <2>2, <1>2, <1>4
  <2> QED BY <2>2, <2>3, <1>3
<1>5. ASSUME NEW u \in blocked' \cap Caller
      PROVE  \/ call'[u].pc \in {"xenq", "xchk", "xdeq"} /\ u \in waitq'[xmit_wq]
             \/ call'[u].pc \in {"renq", "rchk", "rdeq"} /\ u \in waitq'[call'[u].req]
  <2>1. u \in blocked \cap Caller /\ u # t
    BY <1>0
  <2>2. \/ call[u].pc \in {"xenq", "xchk", "xdeq"} /\ u \in waitq[xmit_wq]
        \/ call[u].pc \in {"renq", "rchk", "rdeq"} /\ u \in waitq[call[u].req]
    BY <2>1 DEF Uk9pInv, WaitersLinked
  <2>3. call[u].pc # "out" => call[u].req \in Req
    BY OwnRequest
  <2> QED BY <2>1, <2>2, <2>3, <1>2, <1>3
<1> QED BY <1>0, <1>2, <1>4, <1>5 DEF WaitersLinked

\* A step from one place of a wait to another, with the queues left alone.
LEMMA LinksFrame ==
  ASSUME Uk9pInv, NEW t \in Caller, NEW pc, Goto(t, pc), pc \in Pc, UNCHANGED <<waitq, blocked>>,
         \/ call[t].pc \in {"xenq", "xchk", "xdeq"} /\ pc \in {"xenq", "xchk", "xdeq"}
         \/ call[t].pc \in {"renq", "rchk", "rdeq"} /\ pc \in {"renq", "rchk", "rdeq"}
         \/ call[t].pc \in {"xtest", "rtest"}
  PROVE  WaitersLinked'
<1>1. /\ call'[t].pc = pc /\ \A u \in Caller : call'[u].req = call[u].req
      /\ \A u \in Caller : u # t => call'[u] = call[u]
  BY Moves DEF Uk9pInv
<1> QED BY <1>1 DEF Uk9pInv, WaitersLinked

LEMMA QueueNames == ASSUME Uk9pAssumption PROVE xmit_wq \notin Req /\ BhThread \notin Req /\ BhThread \notin Caller
BY DEF Uk9pAssumption, xmit_wq, BhThread

LEMMA FitsNow ==
  ASSUME Uk9pInv, NEW t \in Caller, call[t].pc # "out"
  PROVE  Fits(call[t].pc, req[call[t].req].state)
BY DEF Uk9pInv, CallsMatch

LEMMA QueueTypes ==
  ASSUME Uk9pInv
  PROVE  /\ waitq \in [Req \cup {xmit_wq, BhThread} -> SUBSET AnyThread]
         /\ blocked \subseteq AnyThread
BY DEF Uk9pInv, Uk9pTypeOK

LEMMA NoRoomKeeps ==
  ASSUME Uk9pInv, NEW t \in Caller, NoRoom(t), UNCHANGED reqVars
  PROVE  /\ Uk9pInv' /\ cpu = t /\ cpu' \in {t, None} /\ call[t].pc \in {"xtest", "xchk"}
         /\ Goto(t, "xenq") /\ "xenq" \in Pc /\ UNCHANGED <<waitq, blocked>>
<1>1. /\ cpu = t /\ call[t].pc \in {"xtest", "xchk"} /\ Goto(t, "xenq") /\ "xenq" \in Pc
      /\ UNCHANGED <<waitq, blocked>> /\ cpu' \in {t, None}
  BY DEF NoRoom, Runs, YieldCpu, runVars, Pc
<1>2. Fits("xenq", req[call[t].req].state)
  BY <1>1, FitsNow DEF Fits
<1>3. Uk9pTypeOK' /\ TagsExact' /\ RequestsOwned' /\ CallsMatch'
  BY <1>1, <1>2, QueueTypes, WaitStep
<1>4. WaitersLinked'
  BY <1>1, LinksFrame
<1> QED BY <1>1, <1>3, <1>4 DEF Uk9pInv

LEMMA XmitWaitKeeps ==
  ASSUME Uk9pAssumption, Uk9pInv, NEW t \in Caller, XmitWait(t)
  PROVE  Uk9pInv'
<1>0. cpu = t /\ UNCHANGED reqVars /\ xmit_wq \in Req \cup {xmit_wq} /\ xmit_wq \notin Req
  BY QueueNames DEF XmitWait, Runs
<1>1. CASE call[t].pc = "xenq" /\ Enqueue(t, xmit_wq) /\ Goto(t, "xchk")
  <2>1. Fits("xchk", req[call[t].req].state) /\ "xchk" \in Pc
    BY <1>1, FitsNow DEF Fits, Pc
  <2>2. /\ waitq' \in [Req \cup {xmit_wq, BhThread} -> SUBSET AnyThread]
        /\ blocked' \subseteq AnyThread /\ cpu' = cpu /\ WaitersLinked'
    BY <1>0, <1>1, <2>1, EnqueueLinks
  <2>3. call[t].pc # "out" /\ cpu' = t
    BY <1>0, <1>1, <2>2
  <2>4. Uk9pTypeOK' /\ TagsExact' /\ RequestsOwned' /\ CallsMatch'
    BY <1>0, <1>1, <2>1, <2>2, <2>3, WaitStep
  <2> QED BY <2>2, <2>4 DEF Uk9pInv
<1>2. CASE call[t].pc = "xdeq" /\ Dequeue(t, xmit_wq) /\ Goto(t, "rtest")
  <2>1. Fits("rtest", req[call[t].req].state) /\ "rtest" \in Pc
    BY <1>2, FitsNow DEF Fits, Pc
  <2>2. /\ waitq' \in [Req \cup {xmit_wq, BhThread} -> SUBSET AnyThread]
        /\ blocked' \subseteq AnyThread /\ cpu' = cpu /\ WaitersLinked'
    BY <1>0, <1>2, <2>1, DequeueUnlinks
  <2>3. call[t].pc # "out" /\ cpu' = t
    BY <1>0, <1>2, <2>2
  <2>4. Uk9pTypeOK' /\ TagsExact' /\ RequestsOwned' /\ CallsMatch'
    BY <1>0, <1>2, <2>1, <2>2, <2>3, WaitStep
  <2> QED BY <2>2, <2>4 DEF Uk9pInv
<1> QED BY <1>1, <1>2 DEF XmitWait, Runs

LEMMA WaitReplyKeeps ==
  ASSUME Uk9pInv, NEW t \in Caller, WaitReply(t)
  PROVE  Uk9pInv'
<1> DEFINE r == call[t].req
           received == req[r].state = "RECEIVED"
<1>0. /\ cpu = t /\ UNCHANGED reqVars /\ call[t].pc \in {"rtest", "renq", "rchk", "rdeq"}
      /\ {"remove", "renq", "rchk", "rdeq"} \subseteq Pc
  BY DEF WaitReply, Runs, Pc
<1>1. Fits(call[t].pc, req[r].state) /\ r \in Req
  BY <1>0, FitsNow, OwnRequest
<1>2. ASSUME NEW pc \in {"remove", "renq", "rdeq"}, Goto(t, pc), UNCHANGED <<waitq, blocked>>,
             cpu' \in {t, None}, cpu' # t => pc = "renq", Fits(pc, req[r].state),
             call[t].pc \in {"rtest", "rchk"}, pc = "remove" => call[t].pc = "rtest"
      PROVE  Uk9pInv'
  <2>1. Uk9pTypeOK' /\ TagsExact' /\ RequestsOwned' /\ CallsMatch'
    BY <1>0, <1>2, QueueTypes, WaitStep
  <2>2. WaitersLinked'
    BY <1>0, <1>2, LinksFrame
  <2> QED BY <2>1, <2>2 DEF Uk9pInv
<1>3. CASE call[t].pc = "rtest" /\ Goto(t, IF received THEN "remove" ELSE "renq") /\ UNCHANGED runVars
  <2>1. CASE received
    <3>1. Fits("remove", req[r].state)
      BY <2>1 DEF Fits
    <3>2. Goto(t, "remove") /\ UNCHANGED <<waitq, blocked>> /\ cpu' = t
      BY <1>0, <1>3, <2>1 DEF runVars
    <3> QED BY <1>2, <1>3, <3>1, <3>2
  <2>2. CASE ~received
    <3>1. Fits("renq", req[r].state)
      BY <1>1, <1>3 DEF Fits
    <3> QED BY <1>0, <1>2, <1>3, <2>2, <3>1 DEF runVars
  <2> QED BY <2>1, <2>2
<1>4. CASE call[t].pc = "renq" /\ Enqueue(t, r) /\ Goto(t, "rchk")
  <2>1. Fits("rchk", req[r].state) /\ "rchk" \in Pc
    BY <1>0, <1>1, <1>4 DEF Fits
  <2>2. /\ waitq' \in [Req \cup {xmit_wq, BhThread} -> SUBSET AnyThread]
        /\ blocked' \subseteq AnyThread /\ cpu' = cpu /\ WaitersLinked'
    BY <1>1, <1>4, <2>1, EnqueueLinks
  <2>3. call[t].pc # "out" /\ cpu' = t
    BY <1>0, <1>4, <2>2
  <2>4. Uk9pTypeOK' /\ TagsExact' /\ RequestsOwned' /\ CallsMatch'
    BY <1>0, <1>4, <2>1, <2>2, <2>3, WaitStep
  <2> QED BY <2>2, <2>4 DEF Uk9pInv
<1>5. CASE call[t].pc = "rchk" /\ received /\ Goto(t, "rdeq") /\ UNCHANGED runVars
  <2>1. Fits("rdeq", req[r].state)
    BY <1>5 DEF Fits
  <2>2. UNCHANGED <<waitq, blocked>> /\ cpu' = t
    BY <1>0, <1>5 DEF runVars
  <2> QED BY <1>2, <1>5, <2>1, <2>2
<1>6. CASE call[t].pc = "rchk" /\ ~received /\ Goto(t, "renq") /\ YieldCpu
  <2>1. Fits("renq", req[r].state)
    BY <1>1, <1>6 DEF Fits
  <2> QED BY <1>0, <1>2, <1>6, <2>1 DEF YieldCpu
<1>7. CASE call[t].pc = "rdeq" /\ Dequeue(t, r) /\ Goto(t, "remove")
  <2>1. Fits("remove", req[r].state) /\ "remove" \in Pc
    BY <1>0, <1>1, <1>7 DEF Fits
  <2>2. /\ waitq' \in [Req \cup {xmit_wq, BhThread} -> SUBSET AnyThread]
        /\ blocked' \subseteq AnyThread /\ cpu' = cpu /\ WaitersLinked'
    BY <1>1, <1>7, <2>1, DequeueUnlinks
  <2>3. call[t].pc # "out" /\ cpu' = t
    BY <1>0, <1>7, <2>2
  <2>4. Uk9pTypeOK' /\ TagsExact' /\ RequestsOwned' /\ CallsMatch'
    BY <1>0, <1>7, <2>1, <2>2, <2>3, WaitStep
  <2> QED BY <2>2, <2>4 DEF Uk9pInv
<1> QED BY <1>3, <1>4, <1>5, <1>6, <1>7 DEF WaitReply, Runs

\* A new request comes off the free list or is fresh, and belongs to the caller alone.
LEMMA CreateTakes ==
  ASSUME Uk9pAssumption, TagsLeft, Uk9pInv, NEW t \in Caller, NEW r \in Req, Create(t, r)
  PROVE  /\ call[t].pc = "out" /\ call[t].req = None /\ cpu = t
         /\ r \notin HeldReqs /\ r \notin Listed /\ HeldReqs' = HeldReqs \cup {r}
         /\ req_free_list' \in Seq(Req) /\ IsInjective(req_free_list')
         /\ Free' = Free \ {r} /\ Fresh' = Fresh \ {r}
         /\ call' \in [Caller -> [pc : Pc, req : Req \cup {None}]]
         /\ call'[t].pc = "ready" /\ call'[t].req = r
         /\ \A u \in Caller : u # t => call'[u] = call[u]
         /\ req' \in [Req -> [state : State, tag : Tag, ref : 0..2]]
         /\ req'[r].state = "INITIALIZED" /\ req'[r].tag = NextTag /\ req'[r].ref = 1
         /\ \A s \in Req : s # r => req'[s] = req[s]
<1>0. /\ cpu = t /\ call[t].pc = "out"
      /\ call' = [call EXCEPT ![t] = [pc |-> "ready", req |-> r]]
      /\ req' = [req EXCEPT ![r] = [state |-> "INITIALIZED", tag |-> NextTag, ref |-> 1]]
      /\ IF req_free_list # <<>>
           THEN r = Head(req_free_list) /\ req_free_list' = Tail(req_free_list)
           ELSE r \in Fresh /\ UNCHANGED req_free_list
  BY Zenon DEF Create, Runs
<1>1. /\ call \in [Caller -> [pc : Pc, req : Req \cup {None}]]
      /\ req \in [Req -> [state : State, tag : Tag, ref : 0..2]]
      /\ req_free_list \in Seq(Req) /\ IsInjective(req_free_list)
  BY DEF Uk9pInv, Uk9pTypeOK
<1>2. call[t].req = None
  BY <1>0 DEF Uk9pInv, CallsMatch
<1>3. NextTag \in Tag
  BY <1>2 DEF TagsLeft
<1>4. HeldReqs \cap Free = {} /\ Fresh \cap (HeldReqs \cup Free) = {} /\ Listed = HeldReqs
  BY DEF Uk9pInv, RequestsOwned
<1>5. /\ req_free_list' \in Seq(Req) /\ IsInjective(req_free_list')
      /\ Free' = Free \ {r} /\ r \in Free \cup Fresh
  <2>1. CASE req_free_list # <<>>
    <3>1. r = Head(req_free_list) /\ req_free_list' = Tail(req_free_list)
      BY <1>0, <2>1
    <3>2. /\ Head(req_free_list) \in Range(req_free_list) /\ Tail(req_free_list) \in Seq(Req)
          /\ Range(Tail(req_free_list)) = Range(req_free_list) \ {Head(req_free_list)}
          /\ IsInjective(Tail(req_free_list))
      BY <1>1, <2>1, HeadTailLemma
    <3> QED BY <3>1, <3>2 DEF Free
  <2>2. CASE req_free_list = <<>>
    <3>1. r \in Fresh /\ req_free_list' = req_free_list
      BY <1>0, <2>2
    <3> QED BY <1>1, <1>4, <3>1 DEF Free
  <2> QED BY <2>1, <2>2
<1>6. /\ call' \in [Caller -> [pc : Pc, req : Req \cup {None}]]
      /\ call'[t].pc = "ready" /\ call'[t].req = r
      /\ \A u \in Caller : u # t => call'[u] = call[u]
  BY <1>0, <1>1 DEF Pc
<1>7. /\ req' \in [Req -> [state : State, tag : Tag, ref : 0..2]]
      /\ req'[r].state = "INITIALIZED" /\ req'[r].tag = NextTag /\ req'[r].ref = 1
      /\ \A s \in Req : s # r => req'[s] = req[s]
  BY <1>0, <1>1, <1>3 DEF State
<1>8. r \notin HeldReqs /\ r \notin Listed
  BY <1>4, <1>5
<1>9. HeldReqs' = HeldReqs \cup {r}
  <2>1. r # None
    BY DEF Uk9pAssumption
  <2> QED BY <1>2, <1>6, <2>1 DEF HeldReqs
<1>10. Fresh' = Fresh \ {r}
  BY <1>7 DEF Fresh
<1> QED BY <1>0, <1>2, <1>5, <1>6, <1>7, <1>8, <1>9, <1>10

LEMMA CreateKeeps ==
  ASSUME Uk9pAssumption, TagsLeft, Uk9pInv, NEW t \in Caller, NEW r \in Req, Create(t, r)
  PROVE  Uk9pInv'
<1>0. /\ tag_bm' = tag_bm \cup {NextTag} /\ req_list' = <<r>> \o req_list
      /\ waitq' = [waitq EXCEPT ![r] = {}] /\ UNCHANGED <<blocked, cpu>>
  BY Zenon DEF Create
<1>1. /\ call[t].pc = "out" /\ call[t].req = None /\ cpu = t
      /\ r \notin HeldReqs /\ r \notin Listed /\ HeldReqs' = HeldReqs \cup {r}
      /\ Free' = Free \ {r} /\ Fresh' = Fresh \ {r}
      /\ call'[t].pc = "ready" /\ call'[t].req = r
      /\ \A u \in Caller : u # t => call'[u] = call[u]
      /\ req'[r].state = "INITIALIZED" /\ req'[r].tag = NextTag
      /\ \A s \in Req : s # r => req'[s] = req[s]
  BY CreateTakes
<1>2. NextTag \in Tag \ tag_bm
  BY <1>1 DEF TagsLeft
<1>3. req_list' \in Seq(Req) /\ IsInjective(req_list') /\ Listed' = Listed \cup {r}
  <2>1. req_list \in Seq(Req) /\ IsInjective(req_list) /\ r \notin Range(req_list)
    BY <1>1 DEF Uk9pInv, Uk9pTypeOK, Listed
  <2> QED BY <1>0, <2>1, ConsLemma DEF TAILQ_INSERT_HEAD, Listed
<1>4. /\ waitq' \in [Req \cup {xmit_wq, BhThread} -> SUBSET AnyThread] /\ waitq'[r] = {}
      /\ \A q \in Req \cup {xmit_wq} : q # r => waitq'[q] = waitq[q]
  BY <1>0, QueueTypes
<1>5. Uk9pTypeOK'
  <2>1. tag_bm' \subseteq Tag
    BY <1>0, <1>2 DEF Uk9pInv, Uk9pTypeOK
  <2> QED BY <1>0, <1>3, <1>4, <2>1, CreateTakes DEF Uk9pInv, Uk9pTypeOK
<1>6. TagsExact'
  <2>1. Listed \subseteq Req
    BY DEF Uk9pInv, Uk9pTypeOK, Listed, Range
  <2>2. \A s \in Listed : req'[s].tag = req[s].tag /\ req[s].tag # NextTag
    BY <1>1, <1>2, <2>1, Zenon DEF Uk9pInv, TagsExact
  <2>3. tag_bm' = {req'[s].tag : s \in Listed'}
    BY <1>0, <1>1, <1>3, <2>2 DEF Uk9pInv, TagsExact
  <2>4. \A s, v \in Listed' : req'[s].tag = req'[v].tag => s = v
    BY <1>1, <1>3, <2>2 DEF Uk9pInv, TagsExact
  <2> QED BY <2>3, <2>4 DEF TagsExact
<1>7. RequestsOwned'
  <2>1. \A u \in Caller : u # t => call[u].req # r
    BY <1>1 DEF HeldReqs, Uk9pAssumption
  <2>2. \A u, v \in Caller : call'[u].req = call'[v].req => u = v \/ call'[u].req = None
    BY <1>1, <2>1 DEF Uk9pInv, RequestsOwned
  <2> QED BY <1>1, <1>3, <2>2 DEF Uk9pInv, RequestsOwned
<1>8. CallsMatch'
  <2>1. ASSUME NEW u \in Caller, u # t
        PROVE  /\ call'[u].req = None <=> call'[u].pc = "out"
               /\ call'[u].pc # "out" => Fits(call'[u].pc, req'[call'[u].req].state)
               /\ cpu' = u \/ call'[u].pc \in {"out", "xenq", "renq"}
    <3>1. call'[u] = call[u]
      BY <1>1, <2>1
    <3>2. call[u].pc # "out" => req'[call[u].req].state = req[call[u].req].state
      BY <1>1, OwnRequest
    <3> QED BY <3>1, <3>2, <1>0 DEF Uk9pInv, CallsMatch
  <2>2. r # None /\ Fits("ready", "INITIALIZED")
    BY DEF Uk9pAssumption, Fits
  <2> QED BY <1>0, <1>1, <2>1, <2>2 DEF CallsMatch
<1>9. WaitersLinked'
  <2>1. t \notin blocked /\ \A q \in Req : t \notin waitq[q]
    BY <1>1 DEF Uk9pInv, WaitersLinked
  <2>2. \A u \in blocked \cap Caller : call[u].req # r /\ call[u].req \in Req
    <3>1. \A u \in blocked \cap Caller : call[u].pc # "out"
      BY DEF Uk9pInv, WaitersLinked
    <3> QED BY <1>1, <3>1, OwnRequest
  <2>3. ASSUME NEW q \in Req, NEW u \in waitq'[q]
        PROVE  u \in Caller /\ call'[u].req = q /\ call'[u].pc \in {"renq", "rchk", "rdeq"}
    <3>1. u \in waitq[q] /\ u # t
      BY <1>4, <2>1, <2>3
    <3> QED BY <3>1, <1>1 DEF Uk9pInv, WaitersLinked
  <2>4. xmit_wq # r
    BY QueueNames
  <2>5. ASSUME NEW u \in blocked' \cap Caller
        PROVE  \/ call'[u].pc \in {"xenq", "xchk", "xdeq"} /\ u \in waitq'[xmit_wq]
               \/ call'[u].pc \in {"renq", "rchk", "rdeq"} /\ u \in waitq'[call'[u].req]
    <3>1. u \in blocked \cap Caller /\ u # t /\ call'[u] = call[u]
      BY <1>0, <1>1, <2>1
    <3>2. \/ call[u].pc \in {"xenq", "xchk", "xdeq"} /\ u \in waitq[xmit_wq]
          \/ call[u].pc \in {"renq", "rchk", "rdeq"} /\ u \in waitq[call[u].req]
      BY <3>1 DEF Uk9pInv, WaitersLinked
    <3> QED BY <3>1, <3>2, <2>2, <2>4, <1>4
  <2> QED BY <2>3, <2>5 DEF WaitersLinked
<1> QED BY <1>5, <1>6, <1>7, <1>8, <1>9 DEF Uk9pInv

\* A request whose caller has its only reference goes back to the free list.
LEMMA RemoveFrees ==
  ASSUME Uk9pAssumption, Uk9pInv, NEW t \in Caller, RequestRemove(t), req[call[t].req].ref = 1
  PROVE  LET r == call[t].req IN
         /\ cpu = t /\ call[t].pc = "remove" /\ r \in Req /\ r \in HeldReqs /\ r \in Listed
         /\ req[r].state = "RECEIVED"
         /\ HeldReqs' = HeldReqs \ {r} /\ Listed' = Listed \ {r} /\ Fresh' = Fresh
         /\ req_free_list' \in Seq(Req) /\ IsInjective(req_free_list')
         /\ req_list' \in Seq(Req) /\ IsInjective(req_list')
         /\ Free' = Free \cup {r}
         /\ call' \in [Caller -> [pc : Pc, req : Req \cup {None}]]
         /\ call'[t].pc = "out" /\ call'[t].req = None
         /\ \A u \in Caller : u # t => call'[u] = call[u]
         /\ req' \in [Req -> [state : State, tag : Tag, ref : 0..2]]
         /\ req'[r].state = req[r].state /\ req'[r].tag = req[r].tag /\ req'[r].ref = 0
         /\ \A s \in Req : s # r => req'[s] = req[s]
<1> DEFINE r == call[t].req
<1>0. /\ cpu = t /\ call[t].pc = "remove" /\ req' = [req EXCEPT ![r].ref = @ - 1]
      /\ req_free_list' = IF req[r].ref > 1 THEN req_free_list ELSE <<r>> \o req_free_list
      /\ req_list' = TAILQ_REMOVE(req_list, r)
      /\ call' = [call EXCEPT ![t] = [pc |-> "out", req |-> None]]
  BY DEF RequestRemove, Runs, ReqPut
<1>1. /\ call \in [Caller -> [pc : Pc, req : Req \cup {None}]]
      /\ req \in [Req -> [state : State, tag : Tag, ref : 0..2]]
      /\ req_free_list \in Seq(Req) /\ IsInjective(req_free_list)
      /\ req_list \in Seq(Req) /\ IsInjective(req_list)
  BY DEF Uk9pInv, Uk9pTypeOK
<1>2. /\ r \in Req /\ r \in HeldReqs /\ r \in Listed /\ r \notin Free /\ r # None
      /\ \A u \in Caller : u # t => call[u].req # r
  BY <1>0, OwnRequest DEF Uk9pAssumption
<1>3. req[r].state = "RECEIVED"
  BY <1>0, FitsNow DEF Fits
<1>4. req_list' \in Seq(Req) /\ IsInjective(req_list') /\ Listed' = Listed \ {r}
  BY <1>0, <1>1, RemoveLemma DEF Listed
<1>5. req_free_list' \in Seq(Req) /\ IsInjective(req_free_list') /\ Free' = Free \cup {r}
  <2>1. req_free_list' = <<r>> \o req_free_list /\ r \notin Range(req_free_list)
    BY <1>0, <1>2 DEF Free
  <2> QED BY <1>1, <1>2, <2>1, ConsLemma DEF TAILQ_INSERT_HEAD, Free
<1>6. /\ call' \in [Caller -> [pc : Pc, req : Req \cup {None}]]
      /\ call'[t].pc = "out" /\ call'[t].req = None
      /\ \A u \in Caller : u # t => call'[u] = call[u]
  BY <1>0, <1>1 DEF Pc
<1>7. /\ req' \in [Req -> [state : State, tag : Tag, ref : 0..2]]
      /\ req'[r].state = req[r].state /\ req'[r].tag = req[r].tag /\ req'[r].ref = 0
      /\ \A s \in Req : s # r => req'[s] = req[s]
  <2>1. req[r].ref - 1 = 0 /\ 0 \in 0..2
    OBVIOUS
  <2>2. req' = [req EXCEPT ![r] = [req[r] EXCEPT !.ref = 0]]
    BY <1>0, <2>1
  <2>3. [req[r] EXCEPT !.ref = 0] \in [state : State, tag : Tag, ref : 0..2]
    BY <1>1, <1>2, <2>1, Zenon
  <2> QED BY <1>1, <1>2, <2>2, <2>3
<1>8. HeldReqs' = HeldReqs \ {r}
  BY <1>2, <1>6 DEF HeldReqs
<1>9. Fresh' = Fresh
  BY <1>7 DEF Fresh
<1> QED BY <1>0, <1>2, <1>3, <1>4, <1>5, <1>6, <1>7, <1>8, <1>9

LEMMA RemoveKeeps ==
  ASSUME Uk9pAssumption, Uk9pInv, NEW t \in Caller, RequestRemove(t), req[call[t].req].ref = 1
  PROVE  Uk9pInv'
<1> DEFINE r == call[t].req
<1>0. tag_bm' = tag_bm \ {req[r].tag} /\ UNCHANGED <<waitq, blocked, cpu>>
  BY DEF RequestRemove, runVars
<1>1. /\ cpu = t /\ call[t].pc = "remove" /\ r \in Req /\ r \in HeldReqs /\ r \in Listed
      /\ req[r].state = "RECEIVED"
      /\ HeldReqs' = HeldReqs \ {r} /\ Listed' = Listed \ {r} /\ Fresh' = Fresh
      /\ Free' = Free \cup {r}
      /\ call'[t].pc = "out" /\ call'[t].req = None
      /\ \A u \in Caller : u # t => call'[u] = call[u]
      /\ \A s \in Req : s # r => req'[s] = req[s]
  BY RemoveFrees
<1>2. Uk9pTypeOK'
  BY <1>0, RemoveFrees, Zenon DEF Uk9pInv, Uk9pTypeOK
<1>3. TagsExact'
  <2>1. Listed \subseteq Req
    BY DEF Uk9pInv, Uk9pTypeOK, Listed, Range
  <2>2. \A s \in Listed' : req'[s].tag = req[s].tag /\ req[s].tag # req[r].tag
    BY <1>1, <2>1 DEF Uk9pInv, TagsExact
  <2>3. tag_bm' = {req'[s].tag : s \in Listed'}
    BY <1>0, <1>1, <2>2 DEF Uk9pInv, TagsExact
  <2> QED BY <1>1, <2>2, <2>3 DEF Uk9pInv, TagsExact
<1>4. RequestsOwned'
  <2>1. r \notin Fresh
    BY <1>1 DEF Fresh
  <2>2. \A u, v \in Caller : call'[u].req = call'[v].req => u = v \/ call'[u].req = None
    BY <1>1 DEF Uk9pInv, RequestsOwned
  <2> QED BY <1>1, <2>1, <2>2 DEF Uk9pInv, RequestsOwned
<1>5. CallsMatch'
  <2>1. ASSUME NEW u \in Caller, u # t
        PROVE  /\ call'[u].req = None <=> call'[u].pc = "out"
               /\ call'[u].pc # "out" => Fits(call'[u].pc, req'[call'[u].req].state)
               /\ cpu' = u \/ call'[u].pc \in {"out", "xenq", "renq"}
    <3>1. call'[u] = call[u]
      BY <1>1, <2>1
    <3>2. call[u].pc # "out" => req'[call[u].req].state = req[call[u].req].state
      BY <1>1, <2>1, OwnRequest
    <3> QED BY <3>1, <3>2, <1>0 DEF Uk9pInv, CallsMatch
  <2> QED BY <1>0, <1>1, <2>1 DEF CallsMatch
<1>6. WaitersLinked'
  BY <1>0, <1>1 DEF Uk9pInv, WaitersLinked
<1> QED BY <1>2, <1>3, <1>4, <1>5, <1>6 DEF Uk9pInv

\* A request is given to the transport: what the library sees of it.
LEMMA SentKeeps ==
  ASSUME Uk9pInv, NEW t \in Caller, Runs(t, "xtest") \/ Runs(t, "xchk"),
         Goto(t, SendNext(call[t].pc)), UNCHANGED <<tag_bm, req_list, req_free_list, runVars>>,
         req' \in [Req -> [state : State, tag : Tag, ref : 0..2]],
         req'[call[t].req].state = "SENT", req'[call[t].req].tag = req[call[t].req].tag,
         \A s \in Req : s # call[t].req => req'[s] = req[s]
  PROVE  /\ Uk9pInv' /\ HeldReqs' = HeldReqs /\ Free' = Free /\ Fresh' = Fresh
         /\ cpu = t /\ call[t].req \in Req /\ call[t].req \in HeldReqs /\ call[t].req \in Listed
         /\ req[call[t].req].state = "READY"
         /\ \A u \in Caller : u # t => call'[u] = call[u]
         /\ \A u \in Caller : call'[u].req = call[u].req
<1> DEFINE r == call[t].req
           pc == SendNext(call[t].pc)
<1>0. cpu = t /\ call[t].pc \in {"xtest", "xchk"} /\ UNCHANGED <<waitq, blocked, cpu>>
  BY DEF Runs, runVars
<1>1. /\ pc \in Pc /\ pc # "out" /\ pc \in {"rtest", "xdeq"}
      /\ call[t].pc = "xchk" => pc = "xdeq"
  BY <1>0, Zenon DEF SendNext, Pc
<1>2. r \in Req /\ r \in HeldReqs /\ r \in Listed /\ req[r].state = "READY"
  BY <1>0, OwnRequest, FitsNow DEF Fits
<1>3. Uk9pTypeOK'
  BY <1>0, <1>1, Moves DEF Uk9pInv, Uk9pTypeOK
<1>4. /\ \A u \in Caller : call'[u].req = call[u].req
      /\ \A u \in Caller : u # t => call'[u] = call[u]
      /\ call'[t].pc = pc /\ HeldReqs' = HeldReqs
  BY <1>1, Moves DEF Uk9pInv
<1>5. \A s \in Req : req'[s].tag = req[s].tag /\ (req'[s].state = "NONE" <=> req[s].state = "NONE")
  BY <1>2, Zenon
<1>6. TagsExact' /\ RequestsOwned'
  BY <1>4, <1>5, ListsFrame
<1>7. CallsMatch'
  <2>1. Fits(pc, req'[r].state)
    BY <1>1, Zenon DEF Fits
  <2> QED BY <1>0, <1>1, <2>1, CallsStep
<1>8. WaitersLinked'
  BY <1>0, <1>1, <1>4 DEF Uk9pInv, WaitersLinked
<1>9. Free' = Free /\ Fresh' = Fresh
  BY <1>5, Zenon DEF Free, Fresh
<1> QED BY <1>0, <1>2, <1>3, <1>4, <1>6, <1>7, <1>8, <1>9, Zenon DEF Uk9pInv

\* Threads are woken, and possibly a request that was SENT has its reply.
LEMMA ReceivedKeeps ==
  ASSUME Uk9pInv, UNCHANGED <<tag_bm, req_list, req_free_list, call, waitq, cpu>>,
         blocked' \subseteq blocked,
         req' \in [Req -> [state : State, tag : Tag, ref : 0..2]],
         \A s \in Req : /\ req'[s].tag = req[s].tag
                        /\ \/ req'[s].state = req[s].state
                           \/ req[s].state = "SENT" /\ req'[s].state = "RECEIVED"
  PROVE  Uk9pInv' /\ HeldReqs' = HeldReqs /\ Free' = Free /\ Fresh' = Fresh
<1>1. Uk9pTypeOK'
  BY DEF Uk9pInv, Uk9pTypeOK
<1>2. TagsExact' /\ RequestsOwned'
  BY ListsFrame
<1>3. CallsMatch'
  <2>1. \A u \in Caller : call[u].pc # "out" => Fits(call[u].pc, req'[call[u].req].state)
    BY OwnRequest, FitsNow DEF Fits
  <2> QED BY <2>1 DEF Uk9pInv, CallsMatch
<1>4. WaitersLinked'
  BY DEF Uk9pInv, WaitersLinked
<1>5. HeldReqs' = HeldReqs /\ Free' = Free
  BY DEF HeldReqs, Free
<1>6. Fresh' = Fresh
  BY DEF Fresh
<1> QED BY <1>1, <1>2, <1>3, <1>4, <1>5, <1>6 DEF Uk9pInv

-----------------------------------------------------------------------------
(* The virtio transport.                                                   *)

\* A step that leaves the virtqueue alone, and the requests in it.
LEMMA QueueFrame ==
  ASSUME V9pInv, UNCHANGED queueVars,
         \A r \in Req : req'[r].state = "SENT" <=> req[r].state = "SENT",
         \A r \in InQueue : r \in HeldReqs'
  PROVE  V9pTypeOK' /\ SentOnce' /\ InQueue' = InQueue
<1>1. InQueue' = InQueue
  BY DEF InQueue, queueVars
<1>2. V9pTypeOK'
  BY DEF V9pInv, V9pTypeOK, queueVars
<1>3. SentOnce'
  BY <1>1 DEF V9pInv, SentOnce, queueVars
<1> QED BY <1>1, <1>2, <1>3

LEMMA RefsFrame ==
  ASSUME RefsExact, InQueue' = InQueue, HeldReqs' = HeldReqs, Free' = Free, Fresh' = Fresh,
         \A r \in Req : req'[r].ref = req[r].ref
  PROVE  RefsExact'
BY DEF RefsExact

\* A step of the running caller forgets no sleeper, unless it goes to sleep itself.
LEMMA HopeStep ==
  ASSUME V9pInv, NEW t \in Caller, cpu = t, UNCHANGED <<done, virq, recv>>,
         InQueue \subseteq InQueue',
         \A u \in Caller : u # t => call'[u] = call[u],
         \A u \in Caller : u # t => (u \in blocked' => u \in blocked),
         t \in blocked' /\ cpu' # t =>
           \/ call'[t].pc = "xenq" /\ InQueue' # {}
           \/ call'[t].pc = "renq" /\ call'[t].req \in InQueue'
  PROVE  SleepersHaveHope'
<1>1. ASSUME NEW u \in blocked' \cap Caller, cpu' # u
      PROVE  \/ call'[u].pc = "xenq" /\ (InQueue' # {} \/ recv' = "handled")
             \/ call'[u].pc = "renq" /\ call'[u].req \in InQueue'
  <2>1. CASE u = t
    BY <1>1, <2>1
  <2>2. CASE u # t
    <3>1. u \in blocked \cap Caller /\ cpu # u /\ call'[u] = call[u]
      BY <2>2
    <3>2. \/ call[u].pc = "xenq" /\ (InQueue # {} \/ recv = "handled")
          \/ call[u].pc = "renq" /\ call[u].req \in InQueue
      BY <3>1 DEF V9pInv, SleepersHaveHope
    <3> QED BY <3>1, <3>2
  <2> QED BY <2>1, <2>2
<1> QED BY <1>1 DEF V9pInv, SleepersHaveHope

LEMMA InitV9p == ASSUME Uk9pAssumption, V9pInit PROVE V9pInv
<1>1. Uk9pInv
  BY InitUk9p DEF V9pInit
<1>2. InQueue = {} /\ done = <<>>
  BY DEF V9pInit, QueueInit, InQueue, Range
<1>3. V9pTypeOK
  <2>1. <<>> \in Seq(Req) /\ IsInjective(<<>>)
    BY DEF IsInjective
  <2> QED BY <2>1, Zenon DEF V9pInit, QueueInit, V9pTypeOK
<1>4. SentOnce
  BY <1>2 DEF V9pInit, QueueInit, Uk9pInit, SentOnce
<1>5. HeldReqs = {}
  BY DEF V9pInit, Uk9pInit, HeldReqs
<1>6. RefsExact
  BY <1>2, <1>5 DEF V9pInit, Uk9pInit, RefsExact, Fresh
<1>7. SleepersHaveHope
  BY <1>2 DEF V9pInit, Uk9pInit, SleepersHaveHope
<1> QED BY <1>1, <1>3, <1>4, <1>6, <1>7 DEF V9pInv

\* The steps of a caller that neither make nor send nor remove a request.
LEMMA V9pCaller ==
  ASSUME Uk9pAssumption, V9pInv, NEW t \in Caller, UNCHANGED queueVars,
         Ready(t) \/ XmitWait(t) \/ WaitReply(t)
  PROVE  V9pInv'
<1>0. Uk9pInv /\ SentOnce /\ RefsExact
  BY DEF V9pInv
<1>1. Uk9pInv'
  BY <1>0, ReadyKeeps, XmitWaitKeeps, WaitReplyKeeps
<1>2. /\ cpu = t /\ call[t].pc # "out" /\ \E pc \in Pc : Goto(t, pc)
      /\ UNCHANGED <<tag_bm, req_list, req_free_list>>
      /\ req' = req \/ (call[t].pc = "ready" /\ req' = [req EXCEPT ![call[t].req].state = "READY"])
  BY DEF Ready, XmitWait, WaitReply, Runs, reqVars, Pc
<1>3. /\ \A u \in Caller : call'[u].req = call[u].req
      /\ \A u \in Caller : u # t => call'[u] = call[u]
      /\ HeldReqs' = HeldReqs
  BY <1>0, <1>2, Moves DEF Uk9pInv
<1>4. \A r \in Req : /\ req'[r].state = "SENT" <=> req[r].state = "SENT"
                     /\ req'[r].state = "NONE" <=> req[r].state = "NONE"
                     /\ req'[r].ref = req[r].ref
  <2>1. call[t].pc = "ready" => req[call[t].req].state = "INITIALIZED"
    BY <1>0, FitsNow DEF Fits
  <2>2. req \in [Req -> [state : State, tag : Tag, ref : 0..2]]
    BY <1>0 DEF Uk9pInv, Uk9pTypeOK
  <2> QED BY <1>2, <2>1, <2>2
<1>5. V9pTypeOK' /\ SentOnce' /\ InQueue' = InQueue
  BY <1>0, <1>3, <1>4, QueueFrame DEF SentOnce
<1>6. RefsExact'
  <2>1. Free' = Free /\ Fresh' = Fresh
    BY <1>2, <1>4 DEF Free, Fresh
  <2> QED BY <1>0, <1>3, <1>4, <1>5, <2>1, RefsFrame
<1>7. SleepersHaveHope'
  <2>1. \A u \in Caller : u # t => (u \in blocked' => u \in blocked)
    BY DEF Ready, XmitWait, WaitReply, Enqueue, Dequeue, YieldCpu, runVars
  <2>2. ASSUME cpu' # t
        PROVE  call'[t].pc = "renq" /\ call'[t].req \in InQueue'
    <3>1. Runs(t, "rchk") /\ req[call[t].req].state # "RECEIVED" /\ Goto(t, "renq")
      BY <1>2, <2>2 DEF Ready, XmitWait, WaitReply, Enqueue, Dequeue, runVars, Runs
    <3>2. call[t].req \in Req /\ req[call[t].req].state = "SENT"
      BY <1>0, <1>2, <3>1, OwnRequest, FitsNow DEF Fits, Runs
    <3>3. call'[t].pc = "renq"
      BY <1>0, <3>1, Moves DEF Uk9pInv, Pc
    <3> QED BY <1>0, <1>3, <1>5, <3>2, <3>3 DEF SentOnce
  <2> QED BY <1>2, <1>3, <1>5, <2>1, <2>2, HopeStep DEF queueVars
<1> QED BY <1>1, <1>5, <1>6, <1>7 DEF V9pInv

LEMMA V9pRemove ==
  ASSUME Uk9pAssumption, V9pInv, NEW t \in Caller, UNCHANGED queueVars, RequestRemove(t)
  PROVE  V9pInv'
<1> DEFINE r == call[t].req
<1>0. Uk9pInv /\ SentOnce /\ RefsExact /\ cpu = t /\ call[t].pc = "remove"
  BY DEF V9pInv, RequestRemove, Runs
<1>1. r \in Req /\ r \in HeldReqs /\ req[r].state = "RECEIVED"
  BY <1>0, OwnRequest, FitsNow DEF Fits
<1>2. r \notin InQueue /\ req[r].ref = 1
  BY <1>0, <1>1 DEF SentOnce, RefsExact
<1>3. Uk9pInv'
  BY <1>0, <1>2, RemoveKeeps, Zenon
<1>4. /\ HeldReqs' = HeldReqs \ {r} /\ Fresh' = Fresh /\ Free' = Free \cup {r}
      /\ \A u \in Caller : u # t => call'[u] = call[u]
      /\ req'[r].state = req[r].state /\ req'[r].ref = 0
      /\ \A s \in Req : s # r => req'[s] = req[s]
  BY <1>0, <1>2, RemoveFrees, Zenon
<1>5. V9pTypeOK' /\ SentOnce' /\ InQueue' = InQueue
  BY <1>0, <1>2, <1>4, QueueFrame DEF SentOnce
<1>6. RefsExact'
  BY <1>0, <1>2, <1>4, <1>5 DEF RefsExact
<1>7. SleepersHaveHope'
  <2>1. blocked' = blocked /\ cpu' = t
    BY <1>0 DEF RequestRemove, runVars
  <2> QED BY <1>0, <1>4, <1>5, <2>1, HopeStep DEF queueVars
<1> QED BY <1>3, <1>5, <1>6, <1>7 DEF V9pInv

LEMMA V9pCreate ==
  ASSUME Uk9pAssumption, TagsLeft, V9pInv, NEW t \in Caller, NEW r \in Req, UNCHANGED queueVars, Create(t, r)
  PROVE  V9pInv'
<1>0. Uk9pInv /\ SentOnce /\ RefsExact
  BY DEF V9pInv
<1>1. Uk9pInv'
  BY <1>0, CreateKeeps
<1>2. /\ cpu = t /\ r \notin HeldReqs /\ HeldReqs' = HeldReqs \cup {r}
      /\ Free' = Free \ {r} /\ Fresh' = Fresh \ {r}
      /\ \A u \in Caller : u # t => call'[u] = call[u]
      /\ req'[r].state = "INITIALIZED" /\ req'[r].ref = 1
      /\ \A s \in Req : s # r => req'[s] = req[s]
  BY <1>0, CreateTakes, ZenonT(30)
<1>3. r \notin InQueue /\ req[r].state # "SENT"
  BY <1>0, <1>2 DEF SentOnce
<1>4. V9pTypeOK' /\ SentOnce' /\ InQueue' = InQueue
  BY <1>0, <1>2, <1>3, QueueFrame DEF SentOnce
<1>5. RefsExact'
  BY <1>0, <1>2, <1>3, <1>4 DEF RefsExact
<1>6. SleepersHaveHope'
  <2>1. blocked' = blocked /\ cpu' = t
    BY <1>2 DEF Create
  <2> QED BY <1>2, <1>4, <2>1, HopeStep DEF queueVars
<1> QED BY <1>1, <1>4, <1>5, <1>6 DEF V9pInv

LEMMA V9pSwitch ==
  ASSUME Uk9pAssumption, V9pInv, NEW t \in Caller, UNCHANGED queueVars, Schedule(t) \/ Yield(t)
  PROVE  V9pInv'
<1>0. Uk9pInv /\ SentOnce /\ RefsExact /\ t \in AnyThread
  BY DEF V9pInv, AnyThread
<1>1. Uk9pInv'
  BY <1>0, ScheduleKeeps, YieldKeeps
<1>2. UNCHANGED <<req, tag_bm, req_list, req_free_list, call, waitq, blocked>>
  BY DEF Schedule, Yield, reqVars
<1>3. HeldReqs' = HeldReqs /\ Free' = Free /\ Fresh' = Fresh
  BY <1>2 DEF HeldReqs, Free, Fresh
<1>4. V9pTypeOK' /\ SentOnce' /\ InQueue' = InQueue
  BY <1>0, <1>2, <1>3, QueueFrame DEF SentOnce
<1>5. RefsExact'
  BY <1>0, <1>2, <1>3, <1>4, RefsFrame
<1>6. SleepersHaveHope'
  <2>1. ASSUME NEW u \in blocked \cap Caller, cpu' # u
        PROVE  cpu # u
    <3>1. call[u].pc # "out"
      BY <1>0 DEF Uk9pInv, WaitersLinked
    <3> QED BY <2>1, <3>1 DEF Schedule, Yield, Runs, Uk9pAssumption
  <2> QED BY <1>2, <1>4, <2>1 DEF V9pInv, SleepersHaveHope, queueVars
<1> QED BY <1>1, <1>4, <1>5, <1>6 DEF V9pInv

LEMMA V9pSend ==
  ASSUME V9pInv, NEW t \in Caller, VirtioSend(t)
  PROVE  V9pInv'
<1> DEFINE r == call[t].req
<1>0. /\ Uk9pInv /\ SentOnce /\ RefsExact
      /\ Runs(t, "xtest") \/ Runs(t, "xchk")
      /\ req' = [req EXCEPT ![r].state = "SENT", ![r].ref = @ + 1]
      /\ device' = device \cup {r} /\ Goto(t, SendNext(call[t].pc))
      /\ UNCHANGED <<tag_bm, req_list, req_free_list, runVars, done, virq, recv>>
  BY DEF V9pInv, VirtioSend
<1>1. cpu = t /\ call[t].pc # "out"
  BY <1>0 DEF Runs
<1>2. r \in Req /\ r \in HeldReqs /\ req[r].state = "READY"
  BY <1>0, OwnRequest, FitsNow DEF Fits, Runs
<1>3. r \notin InQueue /\ req[r].ref = 1
  BY <1>0, <1>2 DEF SentOnce, RefsExact
<1>4. /\ req' \in [Req -> [state : State, tag : Tag, ref : 0..2]]
      /\ req'[r].state = "SENT" /\ req'[r].tag = req[r].tag /\ req'[r].ref = 2
      /\ \A s \in Req : s # r => req'[s] = req[s]
  <2>1. req \in [Req -> [state : State, tag : Tag, ref : 0..2]]
    BY <1>0 DEF Uk9pInv, Uk9pTypeOK
  <2>2. req' = [req EXCEPT ![r] = [state |-> "SENT", tag |-> req[r].tag, ref |-> 2]]
    BY <1>0, <1>2, <1>3, <2>1
  <2>3. [state |-> "SENT", tag |-> req[r].tag, ref |-> 2] \in [state : State, tag : Tag, ref : 0..2]
    <3>1. req[r].tag \in Tag
      BY <1>2, <2>1
    <3> QED BY ONLY <3>1 DEF State
  <2> QED BY <1>2, <2>1, <2>2, <2>3
<1>5. /\ Uk9pInv' /\ HeldReqs' = HeldReqs /\ Free' = Free /\ Fresh' = Fresh
      /\ \A u \in Caller : u # t => call'[u] = call[u]
  BY <1>0, <1>4, SentKeeps, Zenon
<1>6. InQueue' = InQueue \cup {r}
  BY <1>0 DEF InQueue
<1>7. V9pTypeOK'
  BY <1>0, <1>2 DEF V9pInv, V9pTypeOK
<1>8. SentOnce'
  <2>1. device' \cap Range(done') = {}
    BY <1>0, <1>3 DEF SentOnce, InQueue
  <2>2. InQueue = {s \in Req : req[s].state = "SENT"} /\ InQueue \subseteq HeldReqs
    BY <1>0 DEF SentOnce
  <2>3. InQueue' = {s \in Req : req'[s].state = "SENT"}
    BY <1>2, <1>4, <1>6, <2>2
  <2>4. InQueue' \subseteq HeldReqs'
    BY <1>2, <1>5, <1>6, <2>2
  <2> QED BY <2>1, <2>3, <2>4 DEF SentOnce
<1>9. RefsExact'
  BY <1>0, <1>2, <1>3, <1>4, <1>5, <1>6 DEF RefsExact
<1>10. SleepersHaveHope'
  <2>1. blocked' = blocked /\ cpu' = t
    BY <1>0, <1>1 DEF runVars
  <2> QED BY <1>0, <1>1, <1>5, <1>6, <2>1, HopeStep
<1> QED BY <1>5, <1>7, <1>8, <1>9, <1>10 DEF V9pInv

LEMMA V9pSendFull ==
  ASSUME V9pInv, Slots \in Nat \ {0}, Cardinality({}) = 0, NEW t \in Caller, VirtioSendFull(t)
  PROVE  V9pInv'
<1>0. Uk9pInv /\ SentOnce /\ RefsExact /\ ~QueueRoom /\ NoRoom(t) /\ UNCHANGED reqVars /\ UNCHANGED queueVars
  BY DEF V9pInv, VirtioSendFull
<1>1. InQueue # {}
  BY <1>0 DEF QueueRoom
<1>2. /\ Uk9pInv' /\ cpu = t /\ Goto(t, "xenq") /\ "xenq" \in Pc /\ UNCHANGED <<waitq, blocked>>
  BY <1>0, NoRoomKeeps
<1>3. /\ call'[t].pc = "xenq" /\ HeldReqs' = HeldReqs
      /\ \A u \in Caller : u # t => call'[u] = call[u]
  BY <1>0, <1>2, Moves DEF Uk9pInv
<1>4. Free' = Free /\ Fresh' = Fresh /\ req' = req
  BY <1>0 DEF Free, Fresh, reqVars
<1>5. V9pTypeOK' /\ SentOnce' /\ InQueue' = InQueue
  BY <1>0, <1>3, <1>4, QueueFrame DEF SentOnce
<1>6. RefsExact'
  BY <1>0, <1>3, <1>4, <1>5, RefsFrame
<1>7. SleepersHaveHope'
  BY <1>0, <1>1, <1>2, <1>3, <1>5, HopeStep DEF queueVars
<1> QED BY <1>2, <1>5, <1>6, <1>7 DEF V9pInv

\* A request that the virtqueue returns is SENT and has two references, so that
\* virtio_9p_recv frees nothing and its waiter finds the reply.
LEMMA V9pRecvRound ==
  ASSUME V9pInv, RecvRound
  PROVE  V9pInv'
<1> DEFINE r == Head(done)
<1>0. /\ Uk9pInv /\ SentOnce /\ RefsExact /\ recv # "out" /\ done # <<>>
      /\ done' = Tail(done) /\ recv' = "handled"
      /\ UNCHANGED <<tag_bm, req_list, call, waitq, cpu, device, virq>>
  BY DEF V9pInv, RecvRound
<1>1. /\ r \in Range(done) /\ r \in Req /\ done' \in Seq(Req) /\ IsInjective(done')
      /\ Range(done') = Range(done) \ {r}
  BY <1>0, HeadTailLemma DEF V9pInv, V9pTypeOK
<1>2. /\ r \in InQueue /\ r \in HeldReqs /\ req[r].state = "SENT" /\ r \notin device
      /\ InQueue' = InQueue \ {r}
  BY <1>0, <1>1 DEF SentOnce, InQueue
<1>3. req[r].ref = 2
  BY <1>0, <1>1, <1>2 DEF RefsExact
<1>4. /\ req' = [[req EXCEPT ![r].state = "RECEIVED"] EXCEPT ![r].ref = @ - 1]
      /\ req_free_list' = IF [req EXCEPT ![r].state = "RECEIVED"][r].ref > 1 THEN req_free_list
                          ELSE <<r>> \o req_free_list
      /\ blocked' = Woken({r})
  BY <1>2 DEF RecvRound, ReqPut, Receive
<1>5. /\ req' \in [Req -> [state : State, tag : Tag, ref : 0..2]]
      /\ req'[r].state = "RECEIVED" /\ req'[r].tag = req[r].tag /\ req'[r].ref = 1
      /\ \A s \in Req : s # r => req'[s] = req[s]
      /\ req_free_list' = req_free_list
  <2>1. req \in [Req -> [state : State, tag : Tag, ref : 0..2]]
    BY <1>0 DEF Uk9pInv, Uk9pTypeOK
  <2>2. req' = [req EXCEPT ![r] = [state |-> "RECEIVED", tag |-> req[r].tag, ref |-> 1]]
    BY <1>1, <1>3, <1>4, <2>1
  <2>3. [state |-> "RECEIVED", tag |-> req[r].tag, ref |-> 1] \in [state : State, tag : Tag, ref : 0..2]
    BY <1>1, <2>1 DEF State
  <2>4. [req EXCEPT ![r].state = "RECEIVED"][r].ref = 2
    BY <1>1, <1>3, <2>1
  <2> QED BY <1>1, <1>4, <2>1, <2>2, <2>3, <2>4
<1>6. blocked' = blocked \ waitq[r]
  BY <1>4 DEF Woken
<1>7. Uk9pInv' /\ HeldReqs' = HeldReqs /\ Free' = Free /\ Fresh' = Fresh
  BY <1>0, <1>2, <1>5, <1>6, ReceivedKeeps
<1>8. V9pTypeOK'
  BY <1>0, <1>1 DEF V9pInv, V9pTypeOK
<1>9. SentOnce'
  <2>1. device' \cap Range(done') = {}
    BY <1>0, <1>1 DEF SentOnce
  <2> QED BY <1>0, <1>1, <1>2, <1>5, <1>7, <2>1 DEF SentOnce
<1>10. RefsExact'
  BY <1>0, <1>1, <1>2, <1>5, <1>7 DEF RefsExact
<1>11. SleepersHaveHope'
  <2>1. ASSUME NEW u \in blocked' \cap Caller, cpu' # u
        PROVE  \/ call'[u].pc = "xenq" /\ (InQueue' # {} \/ recv' = "handled")
               \/ call'[u].pc = "renq" /\ call'[u].req \in InQueue'
    <3>1. u \in blocked \cap Caller /\ u \notin waitq[r] /\ call' = call /\ cpu # u
      BY <1>0, <1>6, <2>1
    <3>2. \/ call[u].pc = "xenq"
          \/ call[u].pc = "renq" /\ call[u].req \in InQueue
      BY <3>1 DEF V9pInv, SleepersHaveHope
    <3>3. call[u].pc = "renq" => call[u].req # r
      BY <1>0, <3>1 DEF Uk9pInv, WaitersLinked
    <3> QED BY <1>0, <1>2, <3>1, <3>2, <3>3
  <2> QED BY <1>0, <2>1 DEF SleepersHaveHope
<1> QED BY <1>7, <1>8, <1>9, <1>10, <1>11, Zenon DEF V9pInv

\* virtio_9p_recv ends: those who wait for room are woken if it has handled a request.
LEMMA V9pRecvEnd ==
  ASSUME V9pInv, RecvEnd
  PROVE  V9pInv'
<1>0. /\ Uk9pInv /\ SentOnce /\ RefsExact /\ recv # "out" /\ done = <<>>
      /\ blocked' = Woken(Notify) /\ recv' = "out"
      /\ UNCHANGED <<req, tag_bm, req_list, req_free_list, call, waitq, cpu, device, done, virq>>
  BY DEF V9pInv, RecvEnd, reqVars
<1>1. /\ blocked' \subseteq blocked
      /\ recv = "handled" => blocked' = blocked \ waitq[xmit_wq]
  BY <1>0 DEF Woken, Notify
<1>2. Uk9pInv' /\ HeldReqs' = HeldReqs /\ Free' = Free /\ Fresh' = Fresh
  <2>1. req' \in [Req -> [state : State, tag : Tag, ref : 0..2]]
    BY <1>0 DEF Uk9pInv, Uk9pTypeOK
  <2> QED BY <1>0, <1>1, <2>1, ReceivedKeeps
<1>3. InQueue' = InQueue
  BY <1>0 DEF InQueue
<1>4. V9pTypeOK' /\ SentOnce'
  BY <1>0, <1>2, <1>3 DEF V9pInv, V9pTypeOK, SentOnce
<1>5. RefsExact'
  BY <1>0, <1>2, <1>3, RefsFrame
<1>6. SleepersHaveHope'
  <2>1. ASSUME NEW u \in blocked' \cap Caller, cpu' # u
        PROVE  \/ call'[u].pc = "xenq" /\ InQueue' # {}
               \/ call'[u].pc = "renq" /\ call'[u].req \in InQueue'
    <3>1. u \in blocked \cap Caller /\ cpu # u
      BY <1>0, <1>1, <2>1
    <3>2. \/ call[u].pc = "xenq" /\ (InQueue # {} \/ recv = "handled")
          \/ call[u].pc = "renq" /\ call[u].req \in InQueue
      BY <3>1 DEF V9pInv, SleepersHaveHope
    <3>3. call[u].pc = "xenq" => recv # "handled"
      BY <1>0, <1>1, <2>1, <3>1 DEF Uk9pInv, WaitersLinked
    <3> QED BY <1>0, <1>3, <3>2, <3>3
  <2> QED BY <1>0, <2>1 DEF SleepersHaveHope
<1> QED BY <1>2, <1>4, <1>5, <1>6 DEF V9pInv

LEMMA V9pDevice ==
  ASSUME V9pInv, Interrupt \/ (\E r \in Req : Answer(r)) \/ UNCHANGED v9pVars
  PROVE  V9pInv'
<1>0. /\ Uk9pInv /\ SentOnce /\ RefsExact /\ V9pTypeOK
      /\ UNCHANGED <<req, tag_bm, req_list, req_free_list, call, waitq, blocked, cpu>>
  BY DEF V9pInv, Interrupt, Answer, v9pVars, uk9pVars, reqVars, runVars
<1>1. Uk9pInv' /\ HeldReqs' = HeldReqs /\ Free' = Free /\ Fresh' = Fresh
  <2>1. req' \in [Req -> [state : State, tag : Tag, ref : 0..2]]
    BY <1>0 DEF Uk9pInv, Uk9pTypeOK
  <2> QED BY <1>0, <2>1, ReceivedKeeps
<1>2. /\ device' \subseteq Req /\ done' \in Seq(Req) /\ IsInjective(done')
      /\ device' \cap Range(done') = {} /\ InQueue' = InQueue
  <2>1. CASE UNCHANGED <<device, done>>
    BY <1>0, <2>1 DEF V9pTypeOK, SentOnce, InQueue
  <2>2. ASSUME NEW r \in Req, Answer(r)
        PROVE  /\ device' \subseteq Req /\ done' \in Seq(Req) /\ IsInjective(done')
               /\ device' \cap Range(done') = {} /\ InQueue' = InQueue
    <3>1. r \in device /\ device' = device \ {r} /\ done' = Append(done, r) /\ r \notin Range(done)
      BY <1>0, <2>2 DEF Answer, SentOnce
    <3>2. done' \in Seq(Req) /\ Range(done') = Range(done) \cup {r} /\ IsInjective(done')
      BY <1>0, <3>1, AppendLemma DEF V9pTypeOK
    <3> QED BY <1>0, <3>1, <3>2 DEF V9pTypeOK, SentOnce, InQueue
  <2> QED BY <2>1, <2>2 DEF Interrupt, v9pVars, queueVars
<1>3. V9pTypeOK'
  BY <1>0, <1>2, Zenon DEF V9pTypeOK, Interrupt, Answer, v9pVars, queueVars
<1>4. SentOnce' /\ RefsExact'
  <2>1. SentOnce'
    BY <1>0, <1>1, <1>2 DEF SentOnce
  <2> QED BY <1>0, <1>1, <1>2, <2>1, RefsFrame
<1>5. SleepersHaveHope'
  <2>1. /\ done' # <<>> => virq' \/ recv' # "out"
        /\ recv = "handled" => recv' = "handled"
    BY DEF V9pInv, SleepersHaveHope, Interrupt, Answer, v9pVars, queueVars
  <2> QED BY <1>0, <1>2, <2>1 DEF V9pInv, SleepersHaveHope
<1> QED BY <1>1, <1>3, <1>4, <1>5 DEF V9pInv

-----------------------------------------------------------------------------
(* The Xen transport.                                                      *)

LEMMA RangeIn == ASSUME NEW S, NEW s \in Seq(S) PROVE Range(s) \subseteq S
BY DEF Range

\* The messages do not move, and what they are about stays.
LEMMA FlightFrame ==
  ASSUME RepliesReachTheirRequest, UNCHANGED ringVars,
         \A r \in Req : req'[r].state = "SENT" <=> req[r].state = "SENT",
         \A m \in InFlight : req'[m.for].tag = req[m.for].tag /\ m.for \in HeldReqs'
  PROVE  RepliesReachTheirRequest'
<1>1. InFlight' = InFlight
  BY DEF InFlight, ringVars
<1>2. {r \in Req : req[r].state = "SENT"}' = {r \in Req : req[r].state = "SENT"}
  OBVIOUS
<1> QED BY <1>1, <1>2 DEF RepliesReachTheirRequest, ringVars

\* A message in flight is about a request that is SENT and belongs to a caller.
LEMMA FlightSent ==
  ASSUME P9fTypeOK, RepliesReachTheirRequest, NEW m \in InFlight
  PROVE  /\ m \in [tag : Tag, for : Req] /\ m.for \in Req /\ req[m.for].state = "SENT"
         /\ m.tag = req[m.for].tag /\ m.for \in HeldReqs
<1>1. m \in [tag : Tag, for : Req]
  <2>1. Range(out) \subseteq [tag : Tag, for : Req] /\ Range(in) \subseteq [tag : Tag, for : Req]
    BY RangeIn, Zenon DEF P9fTypeOK
  <2>2. backend \subseteq [tag : Tag, for : Req]
    BY DEF P9fTypeOK
  <2> QED BY <2>1, <2>2, Zenon DEF InFlight
<1> QED BY <1>1 DEF RepliesReachTheirRequest

\* A request has one message.
LEMMA OneMessage ==
  ASSUME P9fTypeOK, RepliesReachTheirRequest, NEW m \in InFlight, NEW n \in InFlight, m.for = n.for
  PROVE  m = n
<1>1. m \in [tag : Tag, for : Req] /\ n \in [tag : Tag, for : Req] /\ m.tag = n.tag
  BY FlightSent
<1> QED BY <1>1

LEMMA HoldFrame ==
  ASSUME CallersHoldRefs, HeldReqs' = HeldReqs, Free' = Free, Fresh' = Fresh,
         \A r \in Req : req'[r].ref = req[r].ref
  PROVE  CallersHoldRefs'
BY DEF CallersHoldRefs

LEMMA SenderHope ==
  ASSUME P9fInv, NEW t \in Caller, cpu = t,
         event \/ out # <<>> \/ backend # {} => event' \/ out' # <<>> \/ backend' # {},
         \A u \in Caller : u # t => call'[u] = call[u],
         \A u \in Caller : u # t => (u \in blocked' => u \in blocked),
         t \in blocked' /\ cpu' # t /\ call'[t].pc = "xenq" => event' \/ out' # <<>> \/ backend' # {}
  PROVE  SendersHaveHope'
<1>1. ASSUME NEW u \in blocked' \cap Caller, cpu' # u, call'[u].pc = "xenq"
      PROVE  event' \/ out' # <<>> \/ backend' # {}
  <2>1. CASE u = t
    BY <1>1, <2>1
  <2>2. CASE u # t
    BY <1>1, <2>2 DEF P9fInv, SendersHaveHope
  <2> QED BY <2>1, <2>2
<1> QED BY <1>1 DEF SendersHaveHope

LEMMA InitP9f == ASSUME Uk9pAssumption, RingSize \in Nat \ {0}, P9fInit PROVE P9fInv
<1>1. Uk9pInv
  BY InitUk9p DEF P9fInit
<1>2. InFlight = {} /\ Range(<<>>) = {}
  BY DEF P9fInit, RingInit, InFlight, Range
<1>3. P9fTypeOK
  <2>1. <<>> \in Seq([tag : Tag, for : Req]) /\ Len(<<>>) <= RingSize
    OBVIOUS
  <2>2. /\ out = <<>> /\ in = <<>> /\ backend = {} /\ event = FALSE /\ data_avail = FALSE
        /\ bh = "test"
    BY DEF P9fInit, RingInit
  <2>3. {event, data_avail} \subseteq BOOLEAN
    BY <2>2, Zenon
  <2> QED BY <2>1, <2>2, <2>3, Zenon DEF P9fTypeOK
<1>4. RepliesReachTheirRequest
  BY <1>2 DEF P9fInit, RingInit, Uk9pInit, RepliesReachTheirRequest, IsInjective
<1>5. HeldReqs = {}
  BY DEF P9fInit, Uk9pInit, HeldReqs
<1>6. CallersHoldRefs
  BY <1>5 DEF P9fInit, Uk9pInit, CallersHoldRefs, Fresh
<1>7. SendersHaveHope
  BY DEF P9fInit, Uk9pInit, SendersHaveHope
<1> QED BY <1>1, <1>3, <1>4, <1>6, <1>7 DEF P9fInv

LEMMA P9fOthers == ASSUME P9fTypeOK, Others PROVE P9fTypeOK'
BY DEF P9fTypeOK, Others, ringVars

LEMMA P9fCaller ==
  ASSUME Uk9pAssumption, P9fInv, NEW t \in Caller, Others,
         Ready(t) \/ XmitWait(t) \/ WaitReply(t)
  PROVE  P9fInv'
<1>0. Uk9pInv /\ RepliesReachTheirRequest /\ CallersHoldRefs /\ P9fTypeOK /\ UNCHANGED ringVars
  BY DEF P9fInv, Others
<1>1. Uk9pInv'
  BY <1>0, ReadyKeeps, XmitWaitKeeps, WaitReplyKeeps
<1>2. /\ cpu = t /\ call[t].pc # "out" /\ \E pc \in Pc : Goto(t, pc)
      /\ UNCHANGED <<tag_bm, req_list, req_free_list>>
      /\ req' = req \/ (call[t].pc = "ready" /\ req' = [req EXCEPT ![call[t].req].state = "READY"])
  BY DEF Ready, XmitWait, WaitReply, Runs, reqVars, Pc
<1>3. HeldReqs' = HeldReqs /\ \A u \in Caller : u # t => call'[u] = call[u]
  BY <1>0, <1>2, Moves DEF Uk9pInv
<1>4. \A r \in Req : /\ req'[r].state = "SENT" <=> req[r].state = "SENT"
                     /\ req'[r].state = "NONE" <=> req[r].state = "NONE"
                     /\ req'[r].ref = req[r].ref /\ req'[r].tag = req[r].tag
  <2>1. call[t].pc = "ready" => req[call[t].req].state = "INITIALIZED"
    BY <1>0, FitsNow DEF Fits
  <2>2. req \in [Req -> [state : State, tag : Tag, ref : 0..2]]
    BY <1>0, Zenon DEF Uk9pInv, Uk9pTypeOK
  <2> QED BY <1>2, <2>1, <2>2
<1>5. RepliesReachTheirRequest'
  BY <1>0, <1>3, <1>4, FlightSent, FlightFrame
<1>6. CallersHoldRefs'
  <2>1. Free' = Free /\ Fresh' = Fresh
    BY <1>2, <1>4 DEF Free, Fresh
  <2> QED BY <1>0, <1>3, <1>4, <2>1, HoldFrame
<1>7. SendersHaveHope'
  <2>1. \A u \in Caller : u # t => (u \in blocked' => u \in blocked)
    BY DEF Ready, XmitWait, WaitReply, Enqueue, Dequeue, YieldCpu, runVars
  <2>2. ASSUME cpu' # t
        PROVE  call'[t].pc = "renq"
    <3>1. Goto(t, "renq")
      BY <1>2, <2>2 DEF Ready, XmitWait, WaitReply, Enqueue, Dequeue, runVars, Runs
    <3> QED BY <1>0, <3>1, Moves DEF Uk9pInv, Pc
  <2> QED BY <1>0, <1>2, <1>3, <2>1, <2>2, SenderHope DEF ringVars
<1> QED BY <1>0, <1>1, <1>5, <1>6, <1>7, P9fOthers DEF P9fInv

LEMMA P9fRemove ==
  ASSUME Uk9pAssumption, P9fInv, NEW t \in Caller, Others, RequestRemove(t)
  PROVE  P9fInv'
<1> DEFINE r == call[t].req
<1>0. /\ Uk9pInv /\ RepliesReachTheirRequest /\ CallersHoldRefs /\ P9fTypeOK /\ UNCHANGED ringVars
      /\ cpu = t /\ call[t].pc = "remove"
  BY DEF P9fInv, RequestRemove, Runs, Others
<1>1. r \in Req /\ r \in HeldReqs /\ req[r].state = "RECEIVED"
  BY <1>0, OwnRequest, FitsNow DEF Fits
<1>2. req[r].ref = 1
  BY <1>0, <1>1 DEF CallersHoldRefs
<1>3. Uk9pInv'
  BY <1>0, <1>2, RemoveKeeps, Zenon
<1>4. /\ HeldReqs' = HeldReqs \ {r} /\ Fresh' = Fresh /\ Free' = Free \cup {r}
      /\ \A u \in Caller : u # t => call'[u] = call[u]
      /\ req'[r].state = req[r].state /\ req'[r].ref = 0 /\ req'[r].tag = req[r].tag
      /\ \A s \in Req : s # r => req'[s] = req[s]
  BY <1>0, <1>2, RemoveFrees, Zenon
<1>5. RepliesReachTheirRequest'
  <2>1. \A m \in InFlight : m.for \in Req /\ m.for # r /\ m.for \in HeldReqs
    BY <1>0, <1>1, FlightSent, Zenon
  <2> QED BY <1>0, <1>4, <2>1, FlightFrame, Zenon
<1>6. CallersHoldRefs'
  BY <1>0, <1>4, Zenon DEF CallersHoldRefs
<1>7. SendersHaveHope'
  <2>1. blocked' = blocked /\ cpu' = t
    BY <1>0 DEF RequestRemove, runVars
  <2> QED BY <1>0, <1>4, <2>1, SenderHope DEF ringVars
<1> QED BY <1>0, <1>3, <1>5, <1>6, <1>7, P9fOthers DEF P9fInv

LEMMA P9fCreate ==
  ASSUME Uk9pAssumption, TagsLeft, P9fInv, NEW t \in Caller, NEW r \in Req, Others, Create(t, r)
  PROVE  P9fInv'
<1>0. Uk9pInv /\ RepliesReachTheirRequest /\ CallersHoldRefs /\ P9fTypeOK /\ UNCHANGED ringVars
  BY DEF P9fInv, Others
<1>1. Uk9pInv'
  BY <1>0, CreateKeeps, Zenon
<1>2. /\ cpu = t /\ r \notin HeldReqs /\ HeldReqs' = HeldReqs \cup {r}
      /\ Free' = Free \ {r} /\ Fresh' = Fresh \ {r}
      /\ \A u \in Caller : u # t => call'[u] = call[u]
      /\ req'[r].state = "INITIALIZED" /\ req'[r].ref = 1
      /\ \A s \in Req : s # r => req'[s] = req[s]
  BY <1>0, CreateTakes
<1>3. RepliesReachTheirRequest'
  <2>1. \A m \in InFlight : m.for \in Req /\ m.for # r /\ m.for \in HeldReqs
    BY <1>0, <1>2, FlightSent, Zenon
  <2>2. req[r].state # "SENT"
    <3>1. {m.for : m \in InFlight} = {s \in Req : req[s].state = "SENT"}
      BY <1>0, Zenon DEF RepliesReachTheirRequest
    <3>2. r \notin {m.for : m \in InFlight}
      BY <2>1, Zenon
    <3> QED BY <3>1, <3>2, Zenon
  <2> QED BY <1>0, <1>2, <2>1, <2>2, FlightFrame, Zenon
<1>4. CallersHoldRefs'
  BY ONLY <1>0, <1>2, r \in Req DEF CallersHoldRefs
<1>5. SendersHaveHope'
  <2>1. blocked' = blocked /\ cpu' = t
    BY <1>2 DEF Create
  <2> QED BY <1>0, <1>2, <2>1, SenderHope, Zenon DEF ringVars
<1> QED BY <1>0, <1>1, <1>3, <1>4, <1>5, P9fOthers DEF P9fInv

LEMMA P9fSwitch ==
  ASSUME Uk9pAssumption, P9fInv, Others,
         (\E t \in AnyThread : Schedule(t)) \/ \E t \in Caller : Yield(t)
  PROVE  P9fInv'
<1>0. Uk9pInv /\ RepliesReachTheirRequest /\ CallersHoldRefs /\ P9fTypeOK /\ UNCHANGED ringVars
  BY DEF P9fInv, Others
<1>1. Uk9pInv'
  BY <1>0, ScheduleKeeps, YieldKeeps
<1>2. UNCHANGED <<req, tag_bm, req_list, req_free_list, call, waitq, blocked>>
  BY DEF Schedule, Yield, reqVars
<1>3. HeldReqs' = HeldReqs /\ Free' = Free /\ Fresh' = Fresh
  BY <1>2, Zenon DEF HeldReqs, Free, Fresh
<1>4. RepliesReachTheirRequest' /\ CallersHoldRefs'
  BY <1>0, <1>2, <1>3, FlightSent, FlightFrame, HoldFrame, Zenon
<1>5. SendersHaveHope'
  <2>1. ASSUME NEW u \in Caller, cpu' # u, call[u].pc = "xenq"
        PROVE  cpu # u
    BY <2>1 DEF Schedule, Yield, Runs, Uk9pAssumption
  <2> QED BY <1>0, <1>2, <2>1 DEF P9fInv, SendersHaveHope, ringVars
<1> QED BY <1>0, <1>1, <1>4, <1>5, P9fOthers DEF P9fInv

LEMMA P9fSend ==
  ASSUME RingSize \in Nat \ {0}, P9fInv, NEW t \in Caller, XenSend(t)
  PROVE  P9fInv'
<1> DEFINE r == call[t].req
           m == Message(r)
<1>0. /\ Uk9pInv /\ RepliesReachTheirRequest /\ CallersHoldRefs /\ P9fTypeOK
      /\ Runs(t, "xtest") \/ Runs(t, "xchk")
      /\ out' = Append(out, m) /\ Len(out) < RingSize
      /\ req' = [req EXCEPT ![r].state = "SENT"] /\ Goto(t, SendNext(call[t].pc))
      /\ UNCHANGED <<tag_bm, req_list, req_free_list, runVars, backend, in, event, data_avail, bh>>
  BY DEF P9fInv, XenSend, RingRoom
<1>1. cpu = t /\ call[t].pc # "out"
  BY <1>0 DEF Runs
<1>2. r \in Req /\ r \in HeldReqs /\ req[r].state = "READY"
  BY <1>0, OwnRequest, FitsNow, Zenon DEF Fits, Runs
<1>3. /\ req' \in [Req -> [state : State, tag : Tag, ref : 0..2]]
      /\ req'[r].state = "SENT" /\ req'[r].tag = req[r].tag /\ req'[r].ref = req[r].ref
      /\ \A s \in Req : s # r => req'[s] = req[s]
      /\ m \in [tag : Tag, for : Req] /\ m.tag = req[r].tag /\ m.for = r
  <2>1. req \in [Req -> [state : State, tag : Tag, ref : 0..2]]
    BY <1>0 DEF Uk9pInv, Uk9pTypeOK
  <2>2. /\ req' \in [Req -> [state : State, tag : Tag, ref : 0..2]]
        /\ req'[r].state = "SENT" /\ req'[r].tag = req[r].tag /\ req'[r].ref = req[r].ref
        /\ \A s \in Req : s # r => req'[s] = req[s]
    BY <1>0, <1>2, <2>1 DEF State
  <2>3. m \in [tag : Tag, for : Req] /\ m.tag = req[r].tag /\ m.for = r
    BY <1>2, <2>1, Zenon DEF Message
  <2> QED BY <2>2, <2>3
<1>4. /\ Uk9pInv' /\ HeldReqs' = HeldReqs /\ Free' = Free /\ Fresh' = Fresh
      /\ \A u \in Caller : u # t => call'[u] = call[u]
  BY <1>0, <1>3, SentKeeps
<1> HIDE DEF m
<1>5. m \notin InFlight
  BY <1>0, <1>2, <1>3, FlightSent
<1>6. /\ out' \in Seq([tag : Tag, for : Req]) /\ Range(out') = Range(out) \cup {m}
      /\ IsInjective(out') /\ Len(out') <= RingSize /\ out' # <<>>
  <2>1. out \in Seq([tag : Tag, for : Req]) /\ IsInjective(out) /\ m \notin Range(out)
    BY <1>0, <1>5 DEF P9fTypeOK, RepliesReachTheirRequest, InFlight
  <2>2. Len(out') = Len(out) + 1 /\ Len(out) \in Nat
    BY <1>0, <2>1, <1>3
  <2>3. Len(out') <= RingSize /\ out' # <<>>
    BY <1>0, <2>2
  <2>4. /\ Append(out, m) \in Seq([tag : Tag, for : Req])
        /\ Range(Append(out, m)) = Range(out) \cup {m} /\ IsInjective(Append(out, m))
    <3> DEFINE Msg == [tag : Tag, for : Req]
    <3>1. out \in Seq(Msg) /\ IsInjective(out) /\ m \notin Range(out) /\ m \in Msg
      BY <1>3, <2>1
    <3> HIDE DEF Msg
    <3>2. /\ Append(out, m) \in Seq(Msg) /\ Range(Append(out, m)) = Range(out) \cup {m}
          /\ IsInjective(Append(out, m))
      BY <3>1, AppendLemma
    <3> QED BY <3>2, Zenon DEF Msg
  <2> QED BY <1>0, <2>3, <2>4
<1>7. InFlight' = InFlight \cup {m}
  BY <1>0, <1>6 DEF InFlight
<1>8. P9fTypeOK'
  BY <1>0, <1>6 DEF P9fTypeOK
<1>9. RepliesReachTheirRequest'
  <2>1. {x.for : x \in InFlight'} = {s \in Req : req'[s].state = "SENT"}
    BY <1>0, <1>2, <1>3, <1>7 DEF RepliesReachTheirRequest
  <2>2. /\ Range(out') \cap backend' = {}
        /\ Range(in') \cap (Range(out') \cup backend') = {}
    BY <1>0, <1>5, <1>6, Zenon DEF RepliesReachTheirRequest, InFlight
  <2>3. \A x \in InFlight' : x.tag = req'[x.for].tag /\ x.for \in HeldReqs'
    <3>1. \A x \in InFlight : x.for \in Req /\ x.tag = req[x.for].tag /\ x.for \in HeldReqs
      BY <1>0, FlightSent
    <3> QED BY <1>2, <1>3, <1>4, <1>7, <3>1
  <2> QED BY <1>0, <1>6, <2>1, <2>2, <2>3 DEF RepliesReachTheirRequest
<1>10. CallersHoldRefs'
  BY <1>0, <1>3, <1>4, HoldFrame
<1>11. SendersHaveHope'
  BY <1>6 DEF SendersHaveHope
<1> QED BY <1>4, <1>8, <1>9, <1>10, <1>11 DEF P9fInv

LEMMA P9fSendFull ==
  ASSUME RingSize \in Nat \ {0}, P9fInv, NEW t \in Caller, XenSendFull(t)
  PROVE  P9fInv'
<1>0. /\ Uk9pInv /\ RepliesReachTheirRequest /\ CallersHoldRefs /\ P9fTypeOK
      /\ ~RingRoom /\ NoRoom(t) /\ UNCHANGED reqVars /\ UNCHANGED ringVars /\ Others
  BY DEF P9fInv, XenSendFull, Others
<1>1. out # <<>>
  BY <1>0 DEF RingRoom
<1>2. Uk9pInv' /\ cpu = t /\ Goto(t, "xenq") /\ "xenq" \in Pc /\ UNCHANGED <<waitq, blocked>>
  BY <1>0, NoRoomKeeps
<1>3. HeldReqs' = HeldReqs
  BY <1>0, <1>2, Moves DEF Uk9pInv
<1>4. Free' = Free /\ Fresh' = Fresh /\ req' = req
  BY <1>0 DEF Free, Fresh, reqVars
<1>5. RepliesReachTheirRequest' /\ CallersHoldRefs'
  BY <1>0, <1>3, <1>4, FlightSent, FlightFrame, HoldFrame
<1>6. SendersHaveHope'
  BY <1>0, <1>1 DEF SendersHaveHope, ringVars
<1> QED BY <1>0, <1>2, <1>5, <1>6, P9fOthers DEF P9fInv

\* p9front_handler wakes every thread that waits for room.
LEMMA P9fHandler ==
  ASSUME P9fInv, Handler
  PROVE  P9fInv'
<1>0. /\ Uk9pInv /\ RepliesReachTheirRequest /\ CallersHoldRefs /\ P9fTypeOK
      /\ event' = FALSE /\ data_avail' = TRUE /\ blocked' = Woken({xmit_wq, BhThread})
      /\ UNCHANGED <<req, tag_bm, req_list, req_free_list, call, waitq, cpu, out, backend, in, bh>>
  BY DEF P9fInv, Handler, HandlerWakes, reqVars
<1>1. blocked' \subseteq blocked \ waitq[xmit_wq]
  BY <1>0, Zenon DEF Woken
<1>2. Uk9pInv' /\ HeldReqs' = HeldReqs /\ Free' = Free /\ Fresh' = Fresh
  <2>1. req' \in [Req -> [state : State, tag : Tag, ref : 0..2]]
    BY <1>0 DEF Uk9pInv, Uk9pTypeOK
  <2> QED BY <1>0, <1>1, <2>1, ReceivedKeeps
<1>3. InFlight' = InFlight
  BY <1>0 DEF InFlight
<1>4. P9fTypeOK'
  <2>1. {event', data_avail'} \subseteq BOOLEAN
    BY <1>0, Zenon
  <2> QED BY <1>0, <2>1 DEF P9fTypeOK
<1>5. RepliesReachTheirRequest' /\ CallersHoldRefs'
  BY <1>0, <1>2, <1>3, HoldFrame, Zenon DEF RepliesReachTheirRequest
<1>6. SendersHaveHope'
  BY <1>0, <1>1, Zenon DEF Uk9pInv, WaitersLinked, SendersHaveHope
<1> QED BY <1>2, <1>4, <1>5, <1>6 DEF P9fInv

\* The bottom half's wait touches no caller.
LEMMA P9fBhWait ==
  ASSUME Uk9pAssumption, P9fInv, BhWait
  PROVE  P9fInv'
<1>0. /\ Uk9pInv /\ RepliesReachTheirRequest /\ CallersHoldRefs /\ P9fTypeOK
      /\ cpu = BhThread /\ UNCHANGED ringVars
      /\ UNCHANGED <<req, tag_bm, req_list, req_free_list, call, data_avail>>
  BY DEF P9fInv, BhWait, BhAt, reqVars
<1>1. BhThread \notin Caller /\ BhThread \notin Req /\ xmit_wq # BhThread
  BY QueueNames DEF xmit_wq, BhThread
<1>2. /\ waitq' \in [Req \cup {xmit_wq, BhThread} -> SUBSET AnyThread]
      /\ blocked' \subseteq AnyThread /\ cpu' \in {BhThread, None}
      /\ \A q \in Req \cup {xmit_wq} : waitq'[q] = waitq[q]
      /\ \A u \in Caller : u \in blocked' <=> u \in blocked
  <2>1. /\ waitq \in [Req \cup {xmit_wq, BhThread} -> SUBSET AnyThread]
        /\ blocked \subseteq AnyThread /\ BhThread \in AnyThread
    BY <1>0, QueueTypes DEF AnyThread
  <2>2. CASE Enqueue(BhThread, BhThread)
    BY <1>0, <1>1, <2>1, <2>2 DEF Enqueue
  <2>3. CASE Dequeue(BhThread, BhThread)
    BY <1>0, <1>1, <2>1, <2>3 DEF Dequeue
  <2>4. CASE UNCHANGED <<waitq, blocked>> /\ cpu' \in {BhThread, None}
    BY <2>1, <2>4
  <2> QED BY <1>0, <2>2, <2>3, <2>4 DEF BhWait, runVars, YieldCpu
<1>3. HeldReqs' = HeldReqs /\ Free' = Free /\ Fresh' = Fresh
  BY <1>0 DEF HeldReqs, Free, Fresh
<1>4. Uk9pInv'
  <2>1. Uk9pTypeOK'
    BY <1>0, <1>2, Zenon DEF Uk9pInv, Uk9pTypeOK, AnyThread
  <2>2. TagsExact' /\ RequestsOwned'
    BY <1>0, ListsFrame, Zenon
  <2>3. CallsMatch'
    BY <1>0, <1>1, Zenon DEF Uk9pInv, CallsMatch
  <2>4. WaitersLinked'
    <3>1. \A u \in Caller : call[u].pc # "out" => call[u].req \in Req
      BY <1>0, OwnRequest
    <3> QED BY <1>0, <1>2, <3>1, Zenon DEF Uk9pInv, WaitersLinked
  <2> QED BY <2>1, <2>2, <2>3, <2>4 DEF Uk9pInv
<1>5. P9fTypeOK'
  <2>1. bh' \in {"test", "enq", "chk", "deq", "recv", "clear"}
    BY Zenon DEF BhWait
  <2> QED BY <1>0, <2>1 DEF P9fTypeOK, ringVars
<1>6. RepliesReachTheirRequest' /\ CallersHoldRefs'
  BY <1>0, <1>3, FlightSent, FlightFrame, HoldFrame, Zenon
<1>7. SendersHaveHope'
  BY <1>0, <1>1, <1>2 DEF P9fInv, SendersHaveHope, ringVars
<1> QED BY <1>4, <1>5, <1>6, <1>7 DEF P9fInv

\* uk_9pdev_req_lookup finds the request a reply is about: its tag is nobody else's.
LEMMA LookupFinds ==
  ASSUME Uk9pInv, NEW r \in Listed
  PROVE  Matches(req[r].tag) # {} /\ Lookup(req[r].tag) = r
<1> DEFINE M == Matches(req[r].tag)
<1>1. /\ req_list \in Seq(Req) /\ IsInjective(req_list)
      /\ \A s \in Listed : req[s].tag = req[r].tag => s = r
  BY DEF Uk9pInv, Uk9pTypeOK, TagsExact
<1>2. PICK k \in DOMAIN req_list : req_list[k] = r
  BY DEF Listed, Range
<1>3. k \in Int
  BY <1>1, <1>2
<1>4. M = {k}
  <2>1. k \in M
    BY <1>2 DEF Matches
  <2>2. ASSUME NEW j \in M PROVE j = k
    <3>1. j \in DOMAIN req_list /\ req[req_list[j]].tag = req[r].tag
      BY <2>2 DEF Matches
    <3>2. req_list[j] \in Listed
      BY <3>1 DEF Listed, Range
    <3>3. req_list[j] = r
      BY <1>1, <3>1, <3>2
    <3> QED BY <1>1, <1>2, <3>1, <3>3 DEF IsInjective
  <2> QED BY <2>1, <2>2
<1>5. (CHOOSE x \in M : \A j \in M : x <= j) = k
  BY <1>3, <1>4
<1> QED BY <1>2, <1>4, <1>5, Zenon DEF Lookup

LEMMA P9fRecvReply ==
  ASSUME RingSize \in Nat \ {0}, P9fInv, RecvReply
  PROVE  P9fInv'
<1> DEFINE m == Head(in)
           r == m.for
<1>0. /\ Uk9pInv /\ RepliesReachTheirRequest /\ CallersHoldRefs /\ P9fTypeOK
      /\ in # <<>> /\ in' = Tail(in)
      /\ UNCHANGED <<tag_bm, req_list, req_free_list, call, waitq, cpu, out, backend, event,
                     data_avail, bh>>
  BY DEF P9fInv, RecvReply
<1>1. /\ m \in Range(in) /\ in' \in Seq([tag : Tag, for : Req]) /\ IsInjective(in')
      /\ Range(in') = Range(in) \ {m}
  <2>1. in \in Seq([tag : Tag, for : Req]) /\ IsInjective(in)
    BY <1>0 DEF P9fTypeOK, RepliesReachTheirRequest
  <2> QED BY <1>0, <2>1, HeadTailLemma
<1>2. Len(in') <= RingSize
  <2>1. in \in Seq([tag : Tag, for : Req]) /\ Len(in) <= RingSize
    BY <1>0 DEF P9fTypeOK
  <2>2. Len(in') = Len(in) - 1 /\ Len(in) \in Nat
    BY <1>0, <2>1, Rest, ZenonT(30)
  <2> QED BY <2>1, <2>2
<1>3. m \in InFlight /\ InFlight' = InFlight \ {m}
  BY <1>0, <1>1 DEF InFlight, RepliesReachTheirRequest
<1>4. r \in Req /\ req[r].state = "SENT" /\ m.tag = req[r].tag /\ r \in HeldReqs /\ r \in Listed
  BY <1>0, <1>3, FlightSent DEF Uk9pInv, RequestsOwned
<1>5. req' = [req EXCEPT ![r].state = "RECEIVED"] /\ blocked' = Woken({r})
  BY <1>0, <1>4, LookupFinds, Zenon DEF RecvReply, Receive
<1>6. /\ req' \in [Req -> [state : State, tag : Tag, ref : 0..2]]
      /\ req'[r].state = "RECEIVED" /\ req'[r].tag = req[r].tag /\ req'[r].ref = req[r].ref
      /\ \A s \in Req : s # r => req'[s] = req[s]
  <2>1. req \in [Req -> [state : State, tag : Tag, ref : 0..2]]
    BY <1>0 DEF Uk9pInv, Uk9pTypeOK
  <2> QED BY <1>4, <1>5, <2>1 DEF State
<1>7. blocked' \subseteq blocked
  BY <1>5 DEF Woken
<1>8. Uk9pInv' /\ HeldReqs' = HeldReqs /\ Free' = Free /\ Fresh' = Fresh
  BY <1>0, <1>4, <1>6, <1>7, ReceivedKeeps
<1>9. P9fTypeOK'
  BY <1>0, <1>1, <1>2 DEF P9fTypeOK
<1>10. RepliesReachTheirRequest'
  <2>1. \A x \in InFlight' : x \in InFlight /\ x.for # r
    BY <1>0, <1>3, OneMessage, Zenon
  <2>2. \A x \in InFlight' : x.tag = req'[x.for].tag /\ x.for \in HeldReqs'
    BY <1>0, <1>6, <1>8, <2>1, FlightSent
  <2>3. {x.for : x \in InFlight} = {s \in Req : req[s].state = "SENT"}
    BY <1>0 DEF RepliesReachTheirRequest
  <2>4. {x.for : x \in InFlight'} = {s \in Req : req'[s].state = "SENT"}
    BY ONLY <1>3, <1>4, <1>6, <2>1, <2>3
  <2>5. /\ Range(out') \cap backend' = {}
        /\ Range(in') \cap (Range(out') \cup backend') = {}
    BY <1>0, <1>1, Zenon DEF RepliesReachTheirRequest
  <2> QED BY <1>0, <1>1, <2>2, <2>4, <2>5 DEF RepliesReachTheirRequest
<1>11. CallersHoldRefs'
  BY <1>0, <1>6, <1>8, HoldFrame
<1>12. SendersHaveHope'
  BY <1>0, <1>7 DEF P9fInv, SendersHaveHope
<1> QED BY <1>8, <1>9, <1>10, <1>11, <1>12 DEF P9fInv

LEMMA P9fRecvEmpty ==
  ASSUME P9fInv, RecvEmpty \/ UNCHANGED p9fVars
  PROVE  P9fInv'
<1>0. /\ Uk9pInv /\ RepliesReachTheirRequest /\ CallersHoldRefs /\ P9fTypeOK /\ UNCHANGED ringVars
      /\ UNCHANGED <<req, tag_bm, req_list, req_free_list, call, waitq, blocked, cpu>>
  BY DEF P9fInv, RecvEmpty, p9fVars, uk9pVars, reqVars, runVars
<1>1. Uk9pInv' /\ HeldReqs' = HeldReqs /\ Free' = Free /\ Fresh' = Fresh
  <2>1. req' \in [Req -> [state : State, tag : Tag, ref : 0..2]]
    BY <1>0 DEF Uk9pInv, Uk9pTypeOK
  <2> QED BY <1>0, <2>1, ReceivedKeeps
<1>2. P9fTypeOK'
  <2>1. /\ data_avail' = data_avail \/ data_avail' = FALSE
        /\ bh' \in {"test", "enq", "chk", "deq", "recv", "clear"}
    BY <1>0 DEF RecvEmpty, p9fVars, P9fTypeOK
  <2>2. {event', data_avail'} \subseteq BOOLEAN
    <3>1. event \in BOOLEAN /\ data_avail \in BOOLEAN /\ event' = event
      BY <1>0, Zenon DEF P9fTypeOK, ringVars
    <3> QED BY <2>1, <3>1, Zenon
  <2> QED BY <1>0, <2>1, <2>2 DEF P9fTypeOK, ringVars
<1>3. RepliesReachTheirRequest' /\ CallersHoldRefs'
  BY <1>0, <1>1, FlightSent, FlightFrame, HoldFrame, Zenon
<1>4. SendersHaveHope'
  BY <1>0 DEF P9fInv, SendersHaveHope, ringVars
<1> QED BY <1>1, <1>2, <1>3, <1>4 DEF P9fInv

\* The backend moves a message from one place to the next.
LEMMA P9fBackend ==
  ASSUME RingSize \in Nat \ {0}, P9fInv, BackendTake \/ \E m \in backend : BackendAnswer(m)
  PROVE  P9fInv'
<1>0. /\ Uk9pInv /\ RepliesReachTheirRequest /\ CallersHoldRefs /\ P9fTypeOK
      /\ UNCHANGED <<req, tag_bm, req_list, req_free_list, call, waitq, blocked, cpu, data_avail, bh>>
  BY DEF P9fInv, BackendTake, BackendAnswer, uk9pVars, reqVars, runVars
<1>1. Uk9pInv' /\ HeldReqs' = HeldReqs /\ Free' = Free /\ Fresh' = Fresh
  <2>1. req' \in [Req -> [state : State, tag : Tag, ref : 0..2]]
    BY <1>0, Zenon DEF Uk9pInv, Uk9pTypeOK
  <2> QED BY <1>0, <2>1, ReceivedKeeps
<1> DEFINE Msg == [tag : Tag, for : Req]
<1>2. /\ out \in Seq(Msg) /\ in \in Seq(Msg) /\ backend \subseteq Msg
      /\ IsInjective(out) /\ IsInjective(in) /\ Len(out) <= RingSize /\ Len(in) <= RingSize
      /\ event \in BOOLEAN
      /\ Range(out) \cap backend = {} /\ Range(in) \cap (Range(out) \cup backend) = {}
  BY <1>0, Zenon DEF P9fTypeOK, RepliesReachTheirRequest
<1> HIDE DEF Msg
<1>3. /\ out' \in Seq(Msg) /\ in' \in Seq(Msg) /\ backend' \subseteq Msg
      /\ IsInjective(out') /\ IsInjective(in') /\ Len(out') <= RingSize /\ Len(in') <= RingSize
      /\ event' \in BOOLEAN
      /\ Range(out') \cap backend' = {} /\ Range(in') \cap (Range(out') \cup backend') = {}
      /\ Range(out') \cup backend' \cup Range(in') = Range(out) \cup backend \cup Range(in)
      /\ event' \/ backend' # {}
  <2>1. CASE BackendTake
    <3>1. /\ out # <<>> /\ backend' = backend \cup {Head(out)} /\ out' = Tail(out)
          /\ in' = in /\ event' = event
      BY <2>1 DEF BackendTake
    <3>2. /\ Head(out) \in Range(out) /\ Head(out) \in Msg /\ Tail(out) \in Seq(Msg)
          /\ Range(Tail(out)) = Range(out) \ {Head(out)} /\ IsInjective(Tail(out))
      BY <1>2, <3>1, HeadTailLemma
    <3>3. Len(Tail(out)) <= RingSize
      <4>1. Len(Tail(out)) = Len(out) - 1 /\ Len(out) \in Nat
        BY <1>2, <3>1, Rest, Zenon
      <4> QED BY <1>2, <4>1
    <3> QED BY <1>2, <3>1, <3>2, <3>3
  <2>2. ASSUME NEW m \in backend, BackendAnswer(m)
        PROVE  /\ out' \in Seq(Msg) /\ in' \in Seq(Msg) /\ backend' \subseteq Msg
               /\ IsInjective(out') /\ IsInjective(in')
               /\ Len(out') <= RingSize /\ Len(in') <= RingSize
               /\ event' \in BOOLEAN
               /\ Range(out') \cap backend' = {}
               /\ Range(in') \cap (Range(out') \cup backend') = {}
               /\ Range(out') \cup backend' \cup Range(in') = Range(out) \cup backend \cup Range(in)
               /\ event' \/ backend' # {}
    <3>1. /\ Len(in) < RingSize /\ backend' = backend \ {m} /\ in' = Append(in, m)
          /\ out' = out /\ event' = TRUE /\ m \in Msg /\ m \notin Range(in) /\ m \notin Range(out)
      BY <1>2, <2>2 DEF BackendAnswer
    <3>2. /\ Append(in, m) \in Seq(Msg) /\ Range(Append(in, m)) = Range(in) \cup {m}
          /\ IsInjective(Append(in, m))
      BY <1>2, <3>1, AppendLemma
    <3>3. Len(Append(in, m)) <= RingSize
      <4>1. Len(Append(in, m)) = Len(in) + 1 /\ Len(in) \in Nat
        BY <1>2, <3>1, Longer
      <4> QED BY <3>1, <4>1
    <3>4. Range(in') \cap (Range(out') \cup backend') = {}
      BY <1>2, <3>1, <3>2
    <3>5. Range(out') \cup backend' \cup Range(in') = Range(out) \cup backend \cup Range(in)
      BY <2>2, <3>1, <3>2
    <3> QED BY <1>2, <3>1, <3>2, <3>3, <3>4, <3>5
  <2> QED BY <2>1, <2>2
<1>4. InFlight' = InFlight
  BY <1>3 DEF InFlight
<1>5. P9fTypeOK'
  <2>1. {event', data_avail'} \subseteq BOOLEAN
    <3>1. data_avail' \in BOOLEAN
      BY <1>0, Zenon DEF P9fTypeOK
    <3> QED BY <1>3, <3>1
  <2> QED BY <1>0, <1>3, <2>1 DEF P9fTypeOK, Msg
<1>6. RepliesReachTheirRequest'
  <2>1. /\ {m.for : m \in InFlight}' = {r \in Req : req[r].state = "SENT"}'
        /\ (\A m \in InFlight : m.tag = req[m.for].tag /\ m.for \in HeldReqs)'
    BY <1>0, <1>1, <1>4 DEF RepliesReachTheirRequest
  <2> QED BY <1>3, <2>1, Zenon DEF RepliesReachTheirRequest
<1>7. CallersHoldRefs'
  BY <1>0, <1>1, HoldFrame
<1>8. SendersHaveHope'
  BY <1>3 DEF SendersHaveHope
<1> QED BY <1>1, <1>5, <1>6, <1>7, <1>8 DEF P9fInv

-----------------------------------------------------------------------------
(* A tag is left for every call.                                           *)

INSTANCE FiniteSetTheorems
WF == INSTANCE WellFoundedInduction

LEMMA LeastOf ==
  ASSUME NEW T, T \subseteq Nat, T # {}
  PROVE  \E x \in T : \A y \in T : x <= y
<1>1. PICK x \in T : \A y \in T : ~ (<<y, x>> \in WF!OpToRel(<, Nat))
  BY WF!WFMin, WF!NatLessThanWellFounded, Zenon
<1>2. \A y \in T : y < x => <<y, x>> \in WF!OpToRel(<, Nat)
  BY DEF WF!OpToRel
<1>3. \A y \in T : ~ (y < x)
  BY <1>1, <1>2, Zenon
<1>4. \A y \in T : x <= y
  BY <1>3
<1> QED BY <1>4

\* Callers are at most as many as tags: one without a request leaves a tag.
LEMMA TagLeft == ASSUME Uk9pAssumption, Uk9pInv PROVE TagsLeft
<1> SUFFICES ASSUME NEW t \in Caller, call[t].req = None
             PROVE  NextTag \in Tag \ tag_bm
  BY DEF TagsLeft
<1> DEFINE C == {u \in Caller : call[u].req # None}
           tagOf(u) == req[call[u].req].tag
<1>1. IsFiniteSet(Caller) /\ NumTags \in Nat /\ Cardinality(Caller) <= NumTags
  BY DEF Uk9pAssumption
<1>2. C \subseteq Caller \ {t}
  OBVIOUS
<1>3. IsFiniteSet(Caller \ {t}) /\ Cardinality(Caller \ {t}) = Cardinality(Caller) - 1
  BY <1>1, FS_RemoveElement, Zenon
<1>4. IsFiniteSet(C) /\ Cardinality(C) <= Cardinality(Caller \ {t})
  BY <1>2, <1>3, FS_Subset, Zenon
<1>5. tag_bm = {tagOf(u) : u \in C}
  BY DEF Uk9pInv, TagsExact, RequestsOwned, HeldReqs
<1>6. [u \in C |-> tagOf(u)] \in Surjection(C, tag_bm)
  BY <1>5, Zenon DEF Surjection
<1>7. IsFiniteSet(tag_bm) /\ Cardinality(tag_bm) <= Cardinality(C)
  BY <1>4, <1>6, FS_Surjection, Zenon
<1>8. Cardinality(Tag) = NumTags /\ IsFiniteSet(Tag)
  BY ONLY <1>1, FS_Interval DEF Tag
<1>9. Cardinality(Caller) \in Nat /\ Cardinality(C) \in Nat /\ Cardinality(tag_bm) \in Nat
  BY <1>1, <1>4, <1>7, FS_CardinalityType, Zenon
<1>10. ~ (Tag \subseteq tag_bm)
  <2>1. Tag \subseteq tag_bm => Cardinality(Tag) <= Cardinality(tag_bm)
    BY <1>7, FS_Subset
  <2> QED BY <2>1, <1>1, <1>3, <1>4, <1>7, <1>8, <1>9
<1>11. PICK i \in Tag \ tag_bm : \A j \in Tag \ tag_bm : i <= j
  <2>1. Tag \ tag_bm \subseteq Nat
    BY <1>1 DEF Tag
  <2> QED BY <2>1, <1>10, LeastOf, Zenon
<1> QED BY <1>10, <1>11 DEF NextTag

-----------------------------------------------------------------------------
\* V9pInv holds in every state: with at most NumTags callers and room for a request in the
\* virtqueue, virtio_9p.c and lib/uk9p keep tags, requests and references exact, and no
\* thread that waits for room or for a reply is forgotten.
THEOREM V9pInvariance ==
  ASSUME Uk9pAssumption, Slots \in Nat \ {0}
  PROVE  V9pSpec => []V9pInv
<1>1. V9pInit => V9pInv
  BY InitV9p
<1>2. V9pInv /\ [V9pNext]_v9pVars => V9pInv'
  <2> SUFFICES ASSUME V9pInv, [V9pNext]_v9pVars PROVE V9pInv'
    OBVIOUS
  <2>0. TagsLeft /\ Cardinality({}) = 0
    BY TagLeft, FS_EmptySet DEF V9pInv
  <2>1. ASSUME NEW t \in Caller, Step(t) PROVE V9pInv'
    <3>1. CASE CallerStep(t) /\ UNCHANGED queueVars
      BY <3>1, V9pCaller, V9pRemove, ZenonT(30) DEF CallerStep
    <3>2. CASE (Schedule(t) \/ Yield(t)) /\ UNCHANGED queueVars
      BY <3>2, V9pSwitch
    <3>3. CASE \E r \in Req : Create(t, r) /\ UNCHANGED queueVars
      BY <2>0, <3>3, V9pCreate, ZenonT(30)
    <3>4. CASE VirtioSend(t) \/ VirtioSendFull(t)
      BY <2>0, <3>4, V9pSend, V9pSendFull, ZenonT(30)
    <3> QED BY <2>1, <3>1, <3>2, <3>3, <3>4, ZenonT(30) DEF Step
  <2>2. CASE RecvRound
    BY <2>2, V9pRecvRound
  <2>3. CASE RecvEnd
    BY <2>3, V9pRecvEnd
  <2>4. CASE Interrupt \/ (\E r \in Req : Answer(r)) \/ UNCHANGED v9pVars
    BY <2>4, V9pDevice
  <2> QED BY <2>1, <2>2, <2>3, <2>4 DEF V9pNext
<1> QED BY <1>1, <1>2, PTL DEF V9pSpec

\* P9fInv holds in every state: with at most NumTags callers and room for a message in each
\* ring, 9pfront.c and lib/uk9p keep tags, requests and references exact, every reply finds
\* its request, and no thread that waits for room is forgotten.
THEOREM P9fInvariance ==
  ASSUME Uk9pAssumption, RingSize \in Nat \ {0}
  PROVE  P9fSpec => []P9fInv
<1>1. P9fInit => P9fInv
  BY InitP9f
<1>2. P9fInv /\ [P9fNext]_p9fVars => P9fInv'
  <2> SUFFICES ASSUME P9fInv, [P9fNext]_p9fVars PROVE P9fInv'
    OBVIOUS
  <2>0. TagsLeft
    BY TagLeft DEF P9fInv
  <2>1. ASSUME NEW t \in Caller, XenSend(t) \/ XenSendFull(t) PROVE P9fInv'
    BY <2>1, P9fSend, P9fSendFull
  <2>2. ASSUME NEW t \in Caller, CallerStep(t), Others PROVE P9fInv'
    BY <2>2, P9fCaller, P9fRemove, ZenonT(30) DEF CallerStep
  <2>3. ASSUME NEW t \in Caller, NEW r \in Req, Create(t, r), Others PROVE P9fInv'
    BY <2>0, <2>3, P9fCreate
  <2>4. CASE Others /\ ((\E t \in AnyThread : Schedule(t)) \/ \E t \in Caller : Yield(t))
    BY <2>4, P9fSwitch
  <2>5. CASE Handler \/ BhWait \/ RecvReply
    BY <2>5, P9fHandler, P9fBhWait, P9fRecvReply, Zenon
  <2>6. CASE RecvEmpty \/ UNCHANGED p9fVars
    BY <2>6, P9fRecvEmpty
  <2>7. CASE BackendTake \/ \E m \in backend : BackendAnswer(m)
    BY <2>7, P9fBackend
  <2> QED BY <2>1, <2>2, <2>3, <2>4, <2>5, <2>6, <2>7 DEF P9fNext, Bh
<1> QED BY <1>1, <1>2, PTL DEF P9fSpec
=============================================================================

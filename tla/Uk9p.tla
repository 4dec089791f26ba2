-------------------------------- MODULE Uk9p --------------------------------
(***************************************************************************)
(* The 9P client library (lib/uk9p): requests with their tags, reference   *)
(* counts, free list and wait queues, and the callers that send a request  *)
(* and wait for its reply.  The modules that extend this one add a         *)
(* transport: P9Front (Xen) and Virtio9p.                                  *)
(*                                                                         *)
(* Threads are cooperative: another thread runs only when the running one  *)
(* yields.  What runs with interrupts off is one step; an interrupt may    *)
(* come between any two steps.                                             *)
(***************************************************************************)
EXTENDS TailQueue, FiniteSets

CONSTANTS Caller,    \* threads that make 9P calls
          Req,       \* request structures that can be allocated
          NumTags,   \* UK_9P_NUMTAGS
          None

\* There are fewer threads than tags, which are 16 bits wide.
Uk9pAssumption ==
  /\ IsFiniteSet(Caller) /\ NumTags \in Nat \ {0} /\ Cardinality(Caller) <= NumTags
  /\ None \notin Caller \cup Req \cup {"bh"} /\ "bh" \notin Caller
  /\ {"xmit_wq", "bh"} \cap Req = {}

VARIABLES req,            \* state, tag and reference count of the requests
          tag_bm,         \* tags in use
          req_list,       \* requests with a tag, newest first
          req_free_list,  \* requests for reuse, newest first
          call,           \* where a caller is, and its request
          waitq,          \* waiting threads: on the requests and on xmit_wq
          blocked,        \* threads that are not runnable
          cpu             \* the running thread, or None

reqVars == <<req, tag_bm, req_list, req_free_list>>
runVars == <<waitq, blocked, cpu>>
uk9pVars == <<reqVars, call, runVars>>

xmit_wq == "xmit_wq"
BhThread == "bh"
AnyThread == Caller \cup {BhThread}

Tag == 0 .. NumTags - 1
State == {"NONE", "INITIALIZED", "READY", "SENT", "RECEIVED"}
Pc == {"out", "ready", "xtest", "xenq", "xchk", "xdeq", "rtest", "renq", "rchk", "rdeq",
       "remove"}

Uk9pInit ==
  /\ req = [r \in Req |-> [state |-> "NONE", tag |-> 0, ref |-> 0]]
  /\ tag_bm = {}
  /\ req_list = <<>> /\ req_free_list = <<>>
  /\ call = [t \in Caller |-> [pc |-> "out", req |-> None]]
  /\ waitq = [q \in Req \cup {xmit_wq, BhThread} |-> {}]
  /\ blocked = {}
  /\ cpu = None

-----------------------------------------------------------------------------
\* Threads and wait queues.

Runs(t, pc) == cpu = t /\ call[t].pc = pc
Goto(t, pc) == call' = [call EXCEPT ![t].pc = pc]

\* The scheduler runs a thread; a caller between two calls may give up the CPU.
Schedule(t) ==
  /\ cpu = None /\ t \notin blocked
  /\ cpu' = t
  /\ UNCHANGED <<reqVars, call, waitq, blocked>>

Yield(t) ==
  /\ Runs(t, "out")
  /\ cpu' = None
  /\ UNCHANGED <<reqVars, call, waitq, blocked>>

\* wait_event: the entry is linked and the thread blocked; the thread yields after a
\* failed test; it wakes itself and unlinks the entry after a successful one.
Enqueue(t, q) ==
  /\ waitq' = [waitq EXCEPT ![q] = @ \cup {t}]
  /\ blocked' = blocked \cup {t}
  /\ UNCHANGED cpu
Dequeue(t, q) ==
  /\ waitq' = [waitq EXCEPT ![q] = @ \ {t}]
  /\ blocked' = blocked \ {t}
  /\ UNCHANGED cpu
YieldCpu == cpu' = None /\ UNCHANGED <<waitq, blocked>>

\* The threads that wake-ups of the queues in Q leave blocked.
Woken(Q) == blocked \ UNION {waitq[q] : q \in Q}

-----------------------------------------------------------------------------
\* Requests.

Fresh == {r \in Req : req[r].state = "NONE"}

\* _req_mgmt_next_tag_locked: the first free tag; uk_find_next_zero_bit returns the size
\* of the bitmap when there is none, which is cut to the width of a tag.
NextTag == IF Tag \subseteq tag_bm THEN NumTags % NumTags
           ELSE CHOOSE i \in Tag : i \notin tag_bm /\ \A j \in Tag \ tag_bm : i <= j

\* uk_9pdev_req_create with request r, which is taken off the free list or allocated.
Create(t, r) ==
  /\ Runs(t, "out")
  /\ IF req_free_list # <<>>
       THEN r = Head(req_free_list) /\ req_free_list' = Tail(req_free_list)
       ELSE r \in Fresh /\ UNCHANGED req_free_list
  /\ req' = [req EXCEPT ![r] = [state |-> "INITIALIZED", tag |-> NextTag, ref |-> 1]]
  /\ tag_bm' = tag_bm \cup {NextTag}
  /\ req_list' = <<r>> \o req_list
  /\ waitq' = [waitq EXCEPT ![r] = {}]
  /\ call' = [call EXCEPT ![t] = [pc |-> "ready", req |-> r]]
  /\ UNCHANGED <<blocked, cpu>>

\* uk_9preq_ready.
Ready(t) ==
  /\ Runs(t, "ready")
  /\ req' = [req EXCEPT ![call[t].req].state = "READY"]
  /\ Goto(t, "xtest")
  /\ UNCHANGED <<tag_bm, req_list, req_free_list, runVars>>

\* uk_9preq_put: the last reference puts the request on the free list.
ReqPut(rs, free, r) ==
  [req  |-> [rs EXCEPT ![r].ref = @ - 1],
   free |-> IF rs[r].ref > 1 THEN free ELSE <<r>> \o free]

\* uk_9preq_receive_cb for a well-formed reply.
Receive(rs, r) == IF rs[r].state = "SENT" THEN [rs EXCEPT ![r].state = "RECEIVED"] ELSE rs

\* uk_9pdev_req_remove.
RequestRemove(t) ==
  LET r == call[t].req
      p == ReqPut(req, req_free_list, r)
  IN  /\ Runs(t, "remove")
      /\ tag_bm' = tag_bm \ {req[r].tag}
      /\ req_list' = TAILQ_REMOVE(req_list, r)
      /\ req' = p.req /\ req_free_list' = p.free
      /\ call' = [call EXCEPT ![t] = [pc |-> "out", req |-> None]]
      /\ UNCHANGED runVars

-----------------------------------------------------------------------------
\* uk_9pdev_request waits on xmit_wq while the transport has no room.  An attempt that
\* succeeds is an action of the transport, which uses SendNext.
SendNext(pc) == CASE pc = "xtest" -> "rtest" [] pc = "xchk" -> "xdeq"

NoRoom(t) ==
  \/ Runs(t, "xtest") /\ Goto(t, "xenq") /\ UNCHANGED runVars
  \/ Runs(t, "xchk") /\ Goto(t, "xenq") /\ YieldCpu

XmitWait(t) ==
  /\ \/ Runs(t, "xenq") /\ Enqueue(t, xmit_wq) /\ Goto(t, "xchk")
     \/ Runs(t, "xdeq") /\ Dequeue(t, xmit_wq) /\ Goto(t, "rtest")
  /\ UNCHANGED reqVars

\* uk_9preq_waitreply.
WaitReply(t) ==
  LET r == call[t].req
      received == req[r].state = "RECEIVED"
  IN  /\ \/ Runs(t, "rtest") /\ Goto(t, IF received THEN "remove" ELSE "renq")
                             /\ UNCHANGED runVars
         \/ Runs(t, "renq") /\ Enqueue(t, r) /\ Goto(t, "rchk")
         \/ Runs(t, "rchk") /\ received /\ Goto(t, "rdeq") /\ UNCHANGED runVars
         \/ Runs(t, "rchk") /\ ~received /\ Goto(t, "renq") /\ YieldCpu
         \/ Runs(t, "rdeq") /\ Dequeue(t, r) /\ Goto(t, "remove")
      /\ UNCHANGED reqVars

CallerStep(t) == Ready(t) \/ XmitWait(t) \/ WaitReply(t) \/ RequestRemove(t)

-----------------------------------------------------------------------------
Uk9pTypeOK ==
  /\ req \in [Req -> [state : State, tag : Tag, ref : 0..2]]
  /\ tag_bm \subseteq Tag
  /\ req_list \in Seq(Req) /\ IsInjective(req_list)
  /\ req_free_list \in Seq(Req) /\ IsInjective(req_free_list)
  /\ call \in [Caller -> [pc : Pc, req : Req \cup {None}]]
  /\ waitq \in [Req \cup {xmit_wq, BhThread} -> SUBSET AnyThread]
  /\ blocked \subseteq AnyThread
  /\ cpu \in AnyThread \cup {None}

Listed == Range(req_list)
Free == Range(req_free_list)
HeldReqs == {call[t].req : t \in Caller} \ {None}

\* Requests with a tag have different tags, and the bitmap holds exactly these.
TagsExact ==
  /\ tag_bm = {req[r].tag : r \in Listed}
  /\ \A r, s \in Listed : req[r].tag = req[s].tag => r = s

\* A request with a tag is the one of one caller, and a request on the free list or not
\* yet allocated is nobody's.
RequestsOwned ==
  /\ Listed = HeldReqs
  /\ \A t, u \in Caller : call[t].req = call[u].req => t = u \/ call[t].req = None
  /\ HeldReqs \cap Free = {} /\ Fresh \cap (HeldReqs \cup Free) = {}

\* How far the request of a caller is, and where a caller gives up the CPU.
Fits(pc, state) ==
  /\ pc = "ready" => state = "INITIALIZED"
  /\ pc \in {"xtest", "xenq", "xchk"} => state = "READY"
  /\ pc \in {"xdeq", "rtest", "renq", "rchk"} => state \in {"SENT", "RECEIVED"}
  /\ pc \in {"rdeq", "remove"} => state = "RECEIVED"

CallsMatch ==
  \A t \in Caller : LET c == call[t] IN
    /\ c.req = None <=> c.pc = "out"
    /\ c.pc # "out" => Fits(c.pc, req[c.req].state)
    /\ cpu = t \/ c.pc \in {"out", "xenq", "renq"}

\* A caller that is blocked is linked on the queue it waits on, and only the caller of a
\* request is linked on the request's: nobody waits on a request that is reused.
WaitersLinked ==
  /\ \A r \in Req : \A t \in waitq[r] :
       t \in Caller /\ call[t].req = r /\ call[t].pc \in {"renq", "rchk", "rdeq"}
  /\ \A t \in blocked \cap Caller :
       \/ call[t].pc \in {"xenq", "xchk", "xdeq"} /\ t \in waitq[xmit_wq]
       \/ call[t].pc \in {"renq", "rchk", "rdeq"} /\ t \in waitq[call[t].req]

\* What both transports keep.
Uk9pInv == Uk9pTypeOK /\ TagsExact /\ RequestsOwned /\ CallsMatch /\ WaitersLinked
=============================================================================

------------------------------- MODULE Xenbus -------------------------------
(***************************************************************************)
(* How a Xen front end driver connects to its back end and disconnects     *)
(* (plat/xen/drivers/9p/9pfront_xs.c, plat/xen/drivers/blk/blkfront_xs.c), *)
(* with the wait for a change of the back end's state                      *)
(* (plat/xen/xenbus/client.c) and the watches it uses.  A request to the   *)
(* Xenstore is one step: module XsComms is about the requests themselves.  *)
(***************************************************************************)
EXTENDS Integers

CONSTANTS Drivers,      \* of "9p" and "blk"
          MaxCloses,    \* bound on how often the back end closes the device on its own
          MayVanish     \* the back end's directory may be removed

ASSUME XenbusAssumption ==
  Drivers \subseteq {"9p", "blk"} /\ MaxCloses \in Nat /\ MayVanish \in BOOLEAN

\* XenbusState, and a directory that is no longer there.
Initialising == 1
InitWait == 2
Initialised == 3
Connected == 4
Closing == 5
Closed == 6
Gone == 9

VARIABLES driver,          \* whose device it is
          front, back,     \* the states in the store
          rings,           \* whether the front end's ring references are in the store
          watch,           \* whether a watch on the back end's state is set
          sent,            \* its events that are on their way to the guest
          pending_events,
          pc,              \* where the driver is,
          stage,           \* which state of the back end it waits for,
          seen,            \* and what it takes the state to be
          closes

busVars == <<driver, front, back, rings, watch, sent, pending_events, pc, stage, seen, closes>>

BusInit ==
  /\ driver \in Drivers
  /\ front = Initialising /\ back = Initialising /\ rings = "none"
  /\ watch = "none" /\ sent = 0 /\ pending_events = 0
  /\ pc = "down" /\ stage = "connect" /\ seen = Initialising /\ closes = 0

-----------------------------------------------------------------------------
\* Watches.  Bad... are wrong variants of the definitions that follow them.

\* xs_watch_path; the store sends a first event at once.
SetWatch == watch' = "set" /\ sent' = 1 /\ pending_events' = 0

\* xs_unwatch; events that still come find no watch.
DropWatch == watch' = "none" /\ sent' = 0 /\ pending_events' = 0

\* xenbus_watch_notify_event
Deliver ==
  /\ sent > 0
  /\ sent' = sent - 1 /\ pending_events' = pending_events + 1
  /\ UNCHANGED <<front, back, rings, watch, pc, stage, seen, closes>>

-----------------------------------------------------------------------------
\* WAIT_BE_STATE_CHANGE_WHILE_COND and xenbus_wait_for_state_change.

\* The condition under which the driver goes on waiting.
WaitOn(s) ==
  CASE stage = "connect"  -> s < Connected
    [] stage = "closing"  -> s < Closing
    [] stage = "closed"   -> s < Closed
    [] stage = "initwait" -> s < InitWait \/ s >= Closed

\* A failed read ends the wait: 9pfront takes its rings out of the store, blkfront does not.
ReadFails ==
  /\ back = Gone
  /\ pc' = "failed"
  /\ rings' = IF driver = "blk" THEN rings ELSE "none"
  /\ IF watch = "set" /\ driver = "blk" THEN DropWatch ELSE UNCHANGED <<watch, sent, pending_events>>
  /\ UNCHANGED <<front, back, stage, seen, closes>>

Looked(s) == pc' = IF ~WaitOn(s) THEN "decide" ELSE IF watch' = "set" THEN "read" ELSE "watch"

\* The first read of the state.
FirstRead ==
  /\ pc = "first" /\ back # Gone
  /\ seen' = back
  /\ UNCHANGED <<front, back, rings, watch, sent, pending_events, stage, closes>>
  /\ Looked(back)

\* Without a watch of the device the wait sets one of its own,
LocalWatch ==
  /\ pc = "watch"
  /\ SetWatch
  /\ pc' = "read"
  /\ UNCHANGED <<front, back, rings, stage, seen, closes>>

\* and drops it when it has found another state.
Read ==
  /\ pc = "read" /\ back # Gone
  /\ IF back = seen
       THEN pc' = "event" /\ UNCHANGED <<seen, watch, sent, pending_events>>
       ELSE /\ seen' = back
            /\ IF driver = "blk" THEN DropWatch ELSE UNCHANGED <<watch, sent, pending_events>>
            /\ Looked(back)
  /\ UNCHANGED <<front, back, rings, stage, closes>>

BadWaitEvent ==  \* the state is not read again
  /\ pc = "event" /\ pending_events > 0
  /\ pending_events' = pending_events - 1
  /\ UNCHANGED <<front, back, rings, watch, sent, pc, stage, seen, closes>>

\* xenbus_watch_wait_event
WaitEvent ==
  /\ pc = "event" /\ pending_events > 0
  /\ pending_events' = pending_events - 1
  /\ pc' = "read"
  /\ UNCHANGED <<front, back, rings, watch, sent, stage, seen, closes>>

-----------------------------------------------------------------------------
\* p9front_xb_connect and blkfront_xb_connect.  A transaction that fails with EAGAIN is
\* begun again, which is no step here.

Publish ==
  /\ pc = "down"
  /\ rings' = "published"
  /\ front' = IF driver = "9p" THEN Initialised ELSE front
  /\ pc' = "published" /\ stage' = "connect"
  /\ UNCHANGED <<back, watch, sent, pending_events, seen, closes>>

\* be_watch_start in 9pfront, xenbus_switch_state in blkfront.
Published ==
  /\ pc = "published"
  /\ IF driver = "9p" THEN SetWatch /\ UNCHANGED front
                      ELSE front' = Connected /\ UNCHANGED <<watch, sent, pending_events>>
  /\ pc' = "first"
  /\ UNCHANGED <<back, rings, stage, seen, closes>>

\* 9pfront: the back end has connected, or it is not available.  The second is logged, and
\* the return code is still that of the last call that succeeded.
Decide9p ==
  /\ pc = "decide" /\ driver = "9p"
  /\ IF seen = Connected
       THEN front' = Connected /\ UNCHANGED <<watch, sent, pending_events>>
       ELSE DropWatch /\ UNCHANGED front
  /\ pc' = "up"
  /\ UNCHANGED <<back, rings, stage, seen, closes>>

DecideBlk ==
  /\ pc = "decide" /\ driver = "blk" /\ stage = "connect"
  /\ pc' = IF seen = Connected THEN "up" ELSE "failed"
  /\ UNCHANGED <<front, back, rings, watch, sent, pending_events, stage, seen, closes>>

-----------------------------------------------------------------------------
\* blkfront_xb_disconnect and blkfront_xb_wait_be_disconnect.

BadDisconnect ==  \* the references are deleted first
  /\ pc = "up" /\ driver = "blk"
  /\ front' = Closing /\ rings' = "none"
  /\ pc' = "first" /\ stage' = "closing"
  /\ UNCHANGED <<back, watch, sent, pending_events, seen, closes>>

Disconnect ==
  /\ pc = "up" /\ driver = "blk"
  /\ front' = Closing
  /\ pc' = "first" /\ stage' = "closing"
  /\ UNCHANGED <<back, rings, watch, sent, pending_events, seen, closes>>

Advance(from, to, state) ==
  /\ pc = "decide" /\ stage = from
  /\ front' = state
  /\ pc' = "first" /\ stage' = to
  /\ UNCHANGED <<back, rings, watch, sent, pending_events, seen, closes>>

\* blkfront_xb_delete_rings_info
DeleteRings ==
  /\ pc = "decide" /\ stage = "initwait"
  /\ rings' = "none"
  /\ pc' = "down"
  /\ UNCHANGED <<front, back, watch, sent, pending_events, stage, seen, closes>>

-----------------------------------------------------------------------------
\* The back end, as the drivers expect it to behave.

BackTo(state) ==
  /\ back' = state
  /\ sent' = IF watch = "set" THEN sent + 1 ELSE sent
  /\ UNCHANGED <<front, rings, watch, pending_events, pc, stage, seen>>

Answers(state) == BackTo(state) /\ UNCHANGED closes

Back ==
  \/ back = Initialising /\ Answers(InitWait)
  \/ back = InitWait /\ front \in {Initialised, Connected} /\ rings = "published"
     /\ Answers(Connected)
  \/ back \in {InitWait, Connected} /\ front \in {Closing, Closed} /\ Answers(Closing)
  \/ back = Closing /\ Answers(Closed)
  \/ back = Closed /\ front = Initialising /\ Answers(InitWait)

BackCloses ==
  /\ back < Closing /\ closes < MaxCloses
  /\ closes' = closes + 1
  /\ BackTo(Closing)

BackVanishes == MayVanish /\ back # Gone /\ Answers(Gone)

Driving ==
  \/ pc \in {"first", "read"} /\ ReadFails
  \/ FirstRead \/ LocalWatch \/ Read \/ WaitEvent
  \/ Published \/ Decide9p \/ DecideBlk
  \/ Advance("closing", "closed", Closed) \/ Advance("closed", "initwait", Initialising)
  \/ DeleteRings

BusNext ==
  /\ Publish \/ Disconnect \/ Driving \/ Deliver \/ Back \/ BackCloses \/ BackVanishes
  /\ UNCHANGED driver

BusSpec == BusInit /\ [][BusNext]_busVars

-----------------------------------------------------------------------------
BusTypeOK ==
  /\ driver \in {"9p", "blk"}
  /\ closes \in 0..MaxCloses
  /\ front \in 1..6 /\ back \in (1..6) \cup {Gone} /\ seen \in 1..6
  /\ rings \in {"none", "published"} /\ watch \in {"none", "set"}
  /\ sent \in Nat /\ pending_events \in Nat
  /\ pc \in {"down", "published", "first", "watch", "read", "event", "decide", "up", "failed"}
  /\ stage \in {"connect", "closing", "closed", "initwait"}

\* A driver that sleeps in xenbus_wait_for_state_change has seen the current state, or an
\* event is on its way to it: no change of the back end is missed.
NoChangeMissed == pc = "event" /\ sent + pending_events = 0 => back = seen

\* While the back end is connected the references of the rings it uses stay in the store:
\* blkfront_xb_disconnect deletes them only after it has closed.
RingsWhileConnected == back = Connected => rings = "published"

\* blkfront_xb_connect returns 0 only with a connected back end: the driver has seen it
\* connected and is connected itself.
UpMeansConnected == driver = "blk" /\ pc = "up" => front = Connected /\ seen = Connected

\* p9front_xb_connect does not have this property: Decide9p also returns 0 when the back
\* end has closed.
P9UpMeansConnected == driver = "9p" /\ pc = "up" => front = Connected /\ seen = Connected

\* Whoever sleeps for an event, or is about to, has its watch.
Watched == pc \in {"read", "event"} => watch = "set"

\* What the stage of a disconnection tells of both ends: from the moment the back end has
\* been seen closing it does not connect before the driver publishes its rings again.
StageTells ==
  /\ stage = "closing" => front = Closing
  /\ stage = "closing" /\ pc = "decide" => back \in {Closing, Closed, Gone}
  /\ stage = "closed" => front = Closed /\ back \in {Closing, Closed, Gone}
  /\ stage = "initwait" => front = Initialising /\ back # Connected
  /\ pc = "down" => rings = "none"
  /\ pc = "published" \/ driver = "9p" => stage = "connect"

\* Before it decides, the block front end has announced itself as connected.
Announced ==
  driver = "blk" =>
    /\ stage = "connect" /\ pc \notin {"down", "published", "failed"} => front = Connected
    /\ pc = "up" => stage = "connect" /\ seen = Connected

\* The inductive invariant of connecting and disconnecting: no change of the back end's
\* state is missed, a connected back end has its rings, and a block device that is up is
\* connected.
BusInv ==
  /\ BusTypeOK /\ Watched /\ StageTells /\ Announced
  /\ NoChangeMissed /\ RingsWhileConnected /\ UpMeansConnected

\* Connecting and disconnecting come to an end, also when the back end closes or vanishes.
WaitsEnd == (pc \notin {"down", "up", "failed"}) ~> (pc \in {"down", "up", "failed"})
=============================================================================

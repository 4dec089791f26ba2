----------------------------- MODULE MCWaiting ------------------------------
(***************************************************************************)
(* Three users of wait queues, a pipe, a Xen front end that connects to    *)
(* its back end, and the 9P client on the Xen transport; and the grant     *)
(* table, whose entries another domain uses.  A behaviour is that of one   *)
(* of them, chosen at the start; the others stay in an initial state.      *)
(***************************************************************************)
EXTENDS Pipe, Xenbus, P9Front, Gnttab

VARIABLE part

ASSUME Uk9pAssumption

\* Iovecs of reads go around the end of the buffer or stop there; those of writes have
\* more than fit.
Short == {<<1>>, <<0, 1>>, <<2>>, <<1, 2>>}
Long == {<<1>>, <<3>>, <<2, 1>>}

\* A part that rests has one initial state.
Init ==
  /\ part \in {"pipe", "xenbus", "9pfront", "gnttab"}
  /\ PipeInit /\ BusInit /\ P9fInit /\ GntInit
  /\ part # "pipe" => \A i \in DOMAIN data : data[i] = 0
  /\ part # "xenbus" => driver = "9p"

vars == <<part, pipeVars, busVars, p9fVars, gntVars>>
OfPipe == part = "pipe" /\ UNCHANGED <<part, busVars, p9fVars, gntVars>>
OfBus == part = "xenbus" /\ UNCHANGED <<part, pipeVars, driver, p9fVars, gntVars>>
OfP9 == part = "9pfront" /\ UNCHANGED <<part, pipeVars, busVars, gntVars>>
OfGnt == part = "gnttab" /\ UNCHANGED <<part, pipeVars, busVars, p9fVars>>

Next ==
  (PipeNext /\ OfPipe) \/ (BusNext /\ OfBus) \/ (P9fNext /\ OfP9) \/ (GntNext /\ OfGnt)

\* The scheduler runs every thread that stays runnable: those of the two ends of the pipe,
\* the driver's and the xenstore thread; and the back end answers.  No liveness is claimed
\* of the 9P client, whose bottom half may sleep on a reply.
Spec ==
  /\ Init /\ [][Next]_vars
  /\ WF_vars(Writing /\ OfPipe) /\ WF_vars(Reading /\ OfPipe)
  /\ WF_vars(Driving /\ OfBus) /\ WF_vars(Deliver /\ OfBus) /\ WF_vars(Back /\ OfBus)
=============================================================================

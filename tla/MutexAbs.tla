------------------------------ MODULE MutexAbs ------------------------------
(***************************************************************************)
(* What a recursive mutex promises its callers: a call of lock is over     *)
(* once nobody else holds the mutex and the caller does.                   *)
(***************************************************************************)
EXTENDS Naturals

CONSTANT Caller   \* the threads

VARIABLES held,   \* how often each caller holds the mutex
          wants   \* the callers inside lock

absVars == <<held, wants>>

AbsInit == held = [c \in Caller |-> 0] /\ wants = {}

FreeFor(c) == \A d \in Caller \ {c} : held[d] = 0

Want(c) == wants' = wants \cup {c} /\ UNCHANGED held

Acquire(c) ==
  /\ c \in wants /\ FreeFor(c)
  /\ held' = [held EXCEPT ![c] = @ + 1]
  /\ wants' = wants \ {c}

\* A trylock that succeeds.
Try(c) ==
  /\ FreeFor(c)
  /\ held' = [held EXCEPT ![c] = @ + 1]
  /\ UNCHANGED wants

Release(c) ==
  /\ held[c] > 0
  /\ held' = [held EXCEPT ![c] = @ - 1]
  /\ UNCHANGED wants

AbsNext == \E c \in Caller : Want(c) \/ Acquire(c) \/ Try(c) \/ Release(c)

AbsSpec == AbsInit /\ [][AbsNext]_absVars

\* A mutex that stays free is acquired by one of the callers that want it, and a
\* holder that locks again gets through.
AbsFairness ==
  /\ WF_absVars(\E c \in Caller : Acquire(c))
  /\ \A c \in Caller : WF_absVars(held[c] > 0 /\ Acquire(c))
=============================================================================

---------------------------- MODULE SemaphoreAbs ----------------------------
(***************************************************************************)
(* What a counting semaphore promises its callers, with no scheduler, no   *)
(* wait queue and no clock: a call is over once it has taken a token or,   *)
(* if it has a timeout, once it has given up at a moment when there was no *)
(* token to take.                                                          *)
(***************************************************************************)
EXTENDS Naturals

CONSTANTS Caller,     \* the threads
          InitCount   \* the initial number of tokens

VARIABLES count,  \* tokens
          call    \* what each caller is in: nothing, a down, a down_to

absVars == <<count, call>>

AbsInit == count = InitCount /\ call = [c \in Caller |-> "none"]

Down(c, kind) ==
  /\ call[c] = "none"
  /\ call' = [call EXCEPT ![c] = kind]
  /\ UNCHANGED count

Take(c) ==
  /\ call[c] # "none" /\ count > 0
  /\ count' = count - 1
  /\ call' = [call EXCEPT ![c] = "none"]

GiveUp(c) ==
  /\ call[c] = "down_to" /\ count = 0
  /\ call' = [call EXCEPT ![c] = "none"]
  /\ UNCHANGED count

\* down_try: takes a token if there is one, and leaves no trace otherwise.
Try == count > 0 /\ count' = count - 1 /\ UNCHANGED call

Up == count' = count + 1 /\ UNCHANGED call

AbsNext ==
  \/ Up \/ Try
  \/ \E c \in Caller : Take(c) \/ GiveUp(c) \/ \E k \in {"down", "down_to"} : Down(c, k)

AbsSpec == AbsInit /\ [][AbsNext]_absVars

(***************************************************************************)
(* A token that stays available is taken by some caller; a call with a     *)
(* timeout returns.  A particular caller of down may be overtaken forever. *)
(***************************************************************************)
AbsFairness ==
  /\ WF_absVars(\E c \in Caller : Take(c))
  /\ \A c \in Caller : WF_absVars(call[c] = "down_to" /\ (Take(c) \/ GiveUp(c)))

FairAbsSpec == AbsSpec /\ AbsFairness
=============================================================================

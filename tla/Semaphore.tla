----------------------------- MODULE Semaphore -----------------------------
(***************************************************************************)
(* Counting semaphores (lib/uklock, uk/semaphore.h), used by any number of *)
(* threads and by interrupt handlers.                                      *)
(***************************************************************************)
EXTENDS WaitQueue

CONSTANTS Sem,        \* the semaphore's wait queue
          InitCount,  \* uk_semaphore_init's count
          MaxCount,   \* bound on count
          IrqTakes    \* whether interrupt handlers call down_try

ASSUME SemAssumption == /\ Sem \in Queue
                        /\ InitCount \in Nat /\ MaxCount \in Nat
                        /\ IrqTakes \in BOOLEAN

VARIABLE count   \* s->count

semVars == <<vars, waitVars, count>>

Available == count > 0

-----------------------------------------------------------------------------
\* uk_semaphore_down.
SemDown ==
  /\ At("out")
  /\ wait_event(Sem, 0)
  /\ UNCHANGED <<vars, count>>

\* uk_semaphore_down_to: the deadline is computed before the first test.
SemDownTo(until) ==
  /\ At("out")
  /\ until >= now
  /\ wait_event(Sem, until)
  /\ UNCHANGED <<vars, count>>

BadSemTakeTimeout ==  \* the deadline is looked at before the count
  /\ At("take")
  /\ \/ DeadlinePassed(cur) /\ UNCHANGED count /\ Return
     \/ ~DeadlinePassed(cur) /\ Available /\ count' = count - 1 /\ Return
     \/ ~DeadlinePassed(cur) /\ ~Available /\ UNCHANGED count /\ Retry
  /\ UNCHANGED vars

\* The section with interrupts off that ends down and down_to: take a token, or
\* give up at the deadline, or wait again.
SemTake ==
  /\ At("take")
  /\ \/ Available /\ count' = count - 1 /\ Return
     \/ ~Available /\ DeadlinePassed(cur) /\ UNCHANGED count /\ Return
     \/ ~Available /\ ~DeadlinePassed(cur) /\ UNCHANGED count /\ Retry
  /\ UNCHANGED vars

\* uk_semaphore_down_try, by a thread.
SemDownTry ==
  /\ At("out")
  /\ count' = IF Available THEN count - 1 ELSE count
  /\ UNCHANGED <<vars, waitVars>>

BadSemUp ==  \* the waiters are not woken
  /\ At("out")
  /\ count < MaxCount
  /\ count' = count + 1
  /\ UNCHANGED <<vars, waitVars>>

\* uk_semaphore_up, by a thread.
SemUp ==
  /\ At("out")
  /\ count < MaxCount
  /\ count' = count + 1
  /\ wake_up(Sem, FALSE)
  /\ UNCHANGED <<vars, pc, on, deadline, waitq>>

\* uk_semaphore_up, by an interrupt handler.
IrqUp ==
  /\ waking = <<>>
  /\ count < MaxCount
  /\ IrqOther
  /\ count' = count + 1
  /\ wake_up(Sem, TRUE)
  /\ UNCHANGED <<pc, on, deadline, waitq>>

\* uk_semaphore_down_try, by an interrupt handler.
IrqDownTry ==
  /\ IrqTakes
  /\ waking = <<>>
  /\ IrqOther
  /\ count' = IF Available THEN count - 1 ELSE count
  /\ UNCHANGED waitVars

\* A thread that uses the semaphore is created.
SemSpawn(t) ==
  /\ At("out")
  /\ Create(t, FALSE)
  /\ UNCHANGED <<waitVars, count>>

SemInit == WaitInit /\ count = InitCount

SemWait == WaitEvent(Available) /\ UNCHANGED count
SemWake == WakeUpStep /\ UNCHANGED count
SemBackground == Background /\ UNCHANGED count

SemNext ==
  \/ SemDown \/ SemTake \/ SemDownTry \/ SemUp \/ IrqUp \/ IrqDownTry
  \/ \E until \in 1..MaxTime : SemDownTo(until)
  \/ \E t \in Thread : SemSpawn(t)
  \/ SemWait \/ SemWake \/ SemBackground

SemSpec == SemInit /\ [][SemNext]_semVars

(***************************************************************************)
(* The fairness of SchedCoop, and that the code of a call and of a wake_up *)
(* loop is executed.  It is strong where an interrupt handler that calls   *)
(* up delays the interrupted code: interrupts do not take all of the CPU.  *)
(* No up is assumed to happen.  A handler that takes tokens as fast as     *)
(* others put them there can keep a thread spinning in down, and the CPU   *)
(* from all others: liveness is claimed for IrqTakes = FALSE only.         *)
(***************************************************************************)
SemFairness ==
  /\ SF_semVars(SemWait) /\ SF_semVars(SemTake) /\ WF_semVars(SemWake)
  /\ SF_semVars(SemBackground /\ (SchedulerStep \/ IdleLoop))
  /\ SF_semVars(SemBackground /\ Yield)
  /\ SF_semVars(SemBackground /\ Tick)
  /\ SF_semVars(SemBackground /\ HaltTimeout /\ ~NoneExpired)

FairSemSpec == SemSpec /\ SemFairness

-----------------------------------------------------------------------------
\* No lost wake-up: a thread that has gone to sleep in down or down_to, having
\* found no token, is linked on the wait queue and there is still no token,
\* unless an up is about to wake it.  An up may come from an interrupt at any
\* point between the test of the condition and the switch.
NoLostWakeup ==
  \A t \in Thread :
    Sleeps(t) => t \in Range(waitq[Sem]) /\ (count = 0 \/ t \in Range(waking))

\* The count stays a natural number, the scheduler and the wait queues are consistent,
\* nobody waits on another queue, and a thread that found no token and is going to
\* sleep, or sleeps, misses no up.
SemInv ==
  /\ WaitInv /\ count \in Nat
  /\ \A t \in Thread :
       /\ pc[t] # "out" => on[t] = Sem
       /\ Dozes(t) => count = 0 \/ t \in Range(waking)

\* The call of down or down_to each thread is in.
callBar == [t \in Thread |-> IF pc[t] = "out" THEN "none"
                             ELSE IF deadline[t] = 0 THEN "down" ELSE "down_to"]

AbsSem == INSTANCE SemaphoreAbs WITH Caller <- Thread, call <- callBar

\* Every call and every return is a step of the abstract semaphore: no token is
\* taken twice, none is lost, and down_to fails only when there is none.
AtomicSemaphore == AbsSem!AbsSpec

\* Under the scheduler's fairness the semaphore is live: a token that remains is
\* taken as long as somebody wants one, and down_to returns.
LiveSemaphore == AbsSem!AbsFairness
=============================================================================

----------------------------- MODULE WaitQueue -----------------------------
(***************************************************************************)
(* Wait queues (lib/uksched, uk/wait.h) on the cooperative scheduler.      *)
(*                                                                         *)
(* uk_waitq_wait_event is a loop whose interrupts-off sections alternate   *)
(* with tests of the condition that an interrupt may overtake; pc says     *)
(* where in it a thread is.  uk_waitq_wake_up runs with interrupts off and *)
(* takes one step per waiter: waking holds the waiters it has still to     *)
(* wake, and while there is one nothing else happens.                      *)
(*                                                                         *)
(* The modules that extend this one say what the threads wait for and when *)
(* they call; each of their steps is a step of the scheduler's SchedSpec,  *)
(* or leaves the scheduler alone.                                          *)
(***************************************************************************)
EXTENDS SchedCoop

CONSTANT Queue   \* the wait queues

VARIABLES
  pc,        \* where in its call a thread is, see Pcs
  on,        \* the queue of the wait_event the thread is in, or NoThread
  deadline,  \* the deadline of that wait_event, 0 for none
  waitq,     \* the waiters linked on each queue
  waking,    \* the waiters uk_waitq_wake_up has still to wake
  inIrq      \* that wake_up was called by an interrupt handler

waitVars == <<pc, on, deadline, waitq, waking, inIrq>>

(***************************************************************************)
(* out    not in a call that waits                                         *)
(* test   about to test the condition for the first time                   *)
(* enq    about to link the entry and block                                *)
(* chk    blocked, about to test the condition and the deadline            *)
(* yield  the test failed, about to call uk_sched_yield                    *)
(* deq    about to wake itself and unlink the entry                        *)
(* take   wait_event is over, its caller goes on                           *)
(***************************************************************************)
Pcs == {"out", "test", "enq", "chk", "yield", "deq", "take"}

schedVars == vars

\* The running thread may take a step of its own that is at p.
At(p) == waking = <<>> /\ ThreadRuns /\ pc[cur] = p

Goto(p) == pc' = [pc EXCEPT ![cur] = p]

\* The caller enters uk_waitq_wait_event(_deadline) on q.
wait_event(q, until) ==
  /\ pc' = [pc EXCEPT ![cur] = "test"]
  /\ on' = [on EXCEPT ![cur] = q]
  /\ deadline' = [deadline EXCEPT ![cur] = until]
  /\ UNCHANGED <<waitq, waking, inIrq>>

\* The caller of wait_event returns.
Return ==
  /\ pc' = [pc EXCEPT ![cur] = "out"]
  /\ on' = [on EXCEPT ![cur] = NoThread]
  /\ deadline' = [deadline EXCEPT ![cur] = 0]
  /\ UNCHANGED <<waitq, waking, inIrq>>

\* It calls wait_event again.
Retry == Goto("test") /\ UNCHANGED <<on, deadline, waitq, waking, inIrq>>

-----------------------------------------------------------------------------
(* __wq_wait_event_deadline, for the running thread.                       *)

WaitTest(condition) ==
  /\ At("test")
  /\ Goto(IF condition THEN "take" ELSE "enq")
  /\ UNCHANGED <<schedVars, on, deadline, waitq, waking, inIrq>>

BadLinked(q, t) == Append(q, t)

\* uk_waitq_add: a waiter that is linked already stays where it is.
Linked(q, t) == IF t \in Range(q) THEN q ELSE Append(q, t)

WaitEnq ==
  /\ At("enq")
  /\ Block(deadline[cur])
  /\ waitq' = [waitq EXCEPT ![on[cur]] = Linked(@, cur)]
  /\ Goto("chk")
  /\ UNCHANGED <<on, deadline, waking, inIrq>>

DeadlinePassed(t) == deadline[t] > 0 /\ now >= deadline[t]

WaitCheck(condition) ==
  /\ At("chk")
  /\ Goto(IF condition \/ DeadlinePassed(cur) THEN "deq" ELSE "yield")
  /\ UNCHANGED <<schedVars, on, deadline, waitq, waking, inIrq>>

\* uk_sched_yield; the thread resumes at the top of the loop.
WaitYield ==
  /\ At("yield")
  /\ Yield
  /\ Goto("enq")
  /\ UNCHANGED <<on, deadline, waitq, waking, inIrq>>

WaitDeq ==
  /\ At("deq")
  /\ Wake(cur)
  /\ waitq' = [waitq EXCEPT ![on[cur]] = TAILQ_REMOVE(@, cur)]
  /\ Goto("take")
  /\ UNCHANGED <<on, deadline, waking, inIrq>>

WaitEvent(condition) ==
  \/ WaitTest(condition) \/ WaitEnq \/ WaitCheck(condition) \/ WaitYield \/ WaitDeq

-----------------------------------------------------------------------------
(* uk_waitq_wake_up.                                                       *)

\* The loop of wake_up on q begins, called by a thread or by a handler.
wake_up(q, irq) == waking' = waitq[q] /\ inIrq' = irq

BadWakeUpStep ==  \* the waiter's flag is set, the scheduler is not told
  /\ waking # <<>>
  /\ waking' = Tail(waking)
  /\ runnable' = runnable \cup {Head(waking)}
  /\ UNCHANGED <<cpuVars, lifeVars, timeVars, runq, sleeping, queueable, wakeup>>
  /\ UNCHANGED <<pc, on, deadline, waitq, inIrq>>

\* One iteration.
WakeUpStep ==
  /\ waking # <<>>
  /\ waking' = Tail(waking)
  /\ \E me \in (IF inIrq THEN IrqCurrent ELSE {cur}) : uk_thread_wake(Head(waking), me)
  /\ UNCHANGED <<cpuVars, lifeVars, timeVars, pc, on, deadline, waitq, inIrq>>

-----------------------------------------------------------------------------
\* What goes on beside the calls: the scheduler, the clock, other interrupts,
\* and threads that give up the CPU of their own accord.
Background ==
  /\ waking = <<>>
  /\ \/ SchedulerStep \/ IdleLoop \/ Tick \/ HaltTimeout \/ IrqOther
     \/ Yield /\ pc[cur] = "out"
  /\ UNCHANGED waitVars

WaitInit ==
  /\ SchedInit
  /\ pc = [t \in Thread |-> "out"]
  /\ on = [t \in Thread |-> NoThread]
  /\ deadline = [t \in Thread |-> 0]
  /\ waitq = [q \in Queue |-> <<>>]
  /\ waking = <<>> /\ inIrq = FALSE

WaitTypeOK ==
  /\ TypeOK
  /\ pc \in [Thread -> Pcs] /\ on \in [Thread -> Queue \cup {NoThread}]
  /\ deadline \in [Thread -> 0..MaxTime]
  /\ waitq \in [Queue -> Seq(Thread)] /\ waking \in Seq(Thread)
  /\ inIrq \in BOOLEAN

\* A thread has given up the CPU inside wait_event and nobody has woken it.
Sleeps(t) == pc[t] = "enq" /\ t \notin runnable

\* It has, or it is about to: the test after it blocked has failed.
Dozes(t) == pc[t] \in {"enq", "yield"} /\ t \notin runnable

\* Who is linked on a wait queue is inside wait_event on that queue, linked once,
\* and only because it has blocked since it called, so that no entry outlives its
\* stack frame; and who has blocked and not yet unlinked itself, or sleeps, is linked.
WaitqExact ==
  /\ \A q \in Queue : IsInjective(waitq[q])
  /\ \A q \in Queue : \A t \in Range(waitq[q]) :
       on[t] = q /\ pc[t] \in {"enq", "chk", "yield", "deq"}
  /\ \A t \in Thread :
       pc[t] \in {"chk", "yield", "deq"} \/ Sleeps(t) => t \in Range(waitq[on[t]])

\* A thread's own code is executing, or an interrupts-off section that it called.
Executing == mode = "run" /\ cur \in Thread /\ cur # removing

\* A thread inside wait_event exists, has not exited, and waits on a queue; and the
\* running thread blocks, or returns, only while it is runnable.
WaiterSound ==
  /\ \A t \in Thread : pc[t] # "out" => on[t] \in Queue /\ t \in alive \ isExited
  /\ Executing /\ pc[cur] \in {"out", "test", "enq", "take"} => cur \in runnable

\* The loop of uk_waitq_wake_up wakes every waiter once, only threads that are still
\* inside wait_event, and nothing has moved the CPU since it began.
WakeUpSound ==
  /\ IsInjective(waking)
  /\ \A t \in Range(waking) : pc[t] # "out"
  /\ waking # <<>> /\ inIrq => IrqsEnabled /\ pending
  /\ waking # <<>> /\ ~inIrq => ThreadRuns \/ removing # NoThread

\* The invariant of every user of wait queues.  Without the scheduler's own invariant,
\* and without the other conjuncts, none of its parts is inductive.
WaitInv == IInv /\ WaitTypeOK /\ WaitqExact /\ WaiterSound /\ WakeUpSound
=============================================================================

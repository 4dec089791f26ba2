------------------------------ MODULE Threads ------------------------------
(***************************************************************************)
(* The life of threads (lib/uksched): creation, exit, kill, join, detach,  *)
(* and a thread that waits for an event which interrupt handlers signal,   *)
(* as the bottom half of the Xen 9P front end does.                        *)
(*                                                                         *)
(* The scheduler leaves some rules to its callers, none of which it        *)
(* checks.  They are conjuncts of the actions here: at most one thread     *)
(* joins a given one, a joined thread is not detached, and a thread is     *)
(* killed while it is on the run queue.  KillWaiters drops a fourth: that  *)
(* the killed thread is not inside uk_waitq_wait_event.                    *)
(***************************************************************************)
EXTENDS WaitQueue

CONSTANTS Ev,          \* the wait queue of the event
          KillWaiters  \* whether a thread inside wait_event may be killed

ASSUME ThreadsAssumption == /\ Thread \cup {Ev} \subseteq Queue /\ Ev \notin Thread
                            /\ KillWaiters \in BOOLEAN

VARIABLE avail   \* data_avail: the event has been signalled

threadVars == <<vars, waitVars, avail>>

\* What the thread that waits on q waits for; the queue of a thread is its
\* waiting_threads.
Condition(q) == IF q = Ev THEN avail ELSE q \in isExited

Joined(t) == \E u \in Thread : pc[u] # "out" /\ on[u] = t

-----------------------------------------------------------------------------
\* uk_sched_thread_create, with a new, empty waiting_threads.
ThreadCreate(t, d) ==
  /\ At("out")
  /\ Create(t, d)
  /\ waitq' = [waitq EXCEPT ![t] = <<>>]
  /\ pc' = [pc EXCEPT ![t] = "out"]
  /\ UNCHANGED <<on, deadline, waking, inIrq, avail>>

\* uk_thread_wait up to its wait_event; a detached thread is refused.
ThreadWait(t) ==
  /\ At("out")
  /\ t \in alive \ {cur} /\ ~Joined(t)
  /\ t \notin detached
  /\ wait_event(t, 0)
  /\ UNCHANGED <<vars, avail>>

\* The rest of uk_thread_wait: the joined thread is destroyed.
ThreadJoined ==
  /\ At("take") /\ on[cur] # Ev
  /\ Destroy(on[cur])
  /\ Return
  /\ UNCHANGED avail

BadThreadDetach(t) ==  \* a thread that is being joined is detached
  /\ At("out")
  /\ t \in alive \ detached
  /\ Detach(t)
  /\ UNCHANGED <<waitVars, avail>>

\* uk_thread_detach.
ThreadDetach(t) ==
  /\ At("out")
  /\ t \in alive \ detached /\ ~Joined(t)
  /\ Detach(t)
  /\ UNCHANGED <<waitVars, avail>>

Bad_thread_remove(t) ==  \* nobody who waits for the thread is woken
  /\ RemoveBegin(t)
  /\ UNCHANGED waitVars

\* schedcoop_thread_remove with uk_thread_exit: whoever waits for the thread is
\* woken, unless it is detached.
thread_remove(t) ==
  /\ RemoveBegin(t)
  /\ waking' = IF t \in detached THEN <<>> ELSE waitq[t]
  /\ inIrq' = FALSE
  /\ UNCHANGED <<pc, on, deadline, waitq>>

\* uk_sched_thread_exit.
ThreadExit ==
  /\ At("out") /\ removing = NoThread
  /\ thread_remove(cur)
  /\ UNCHANGED avail

BadThreadKill(t) ==  \* the killed thread may be anywhere
  /\ At("out")
  /\ t # cur
  /\ thread_remove(t)
  /\ UNCHANGED avail

\* uk_sched_thread_kill of another thread.
ThreadKill(t) ==
  /\ At("out")
  /\ t # cur
  /\ pc[t] = "out" \/ KillWaiters
  /\ thread_remove(t)
  /\ UNCHANGED avail

\* The end of schedcoop_thread_remove, and the exiting thread's last schedule.
ThreadRemoved ==
  /\ waking = <<>>
  /\ RemoveEnd \/ ExitSchedule
  /\ UNCHANGED <<waitVars, avail>>

\* The bottom half waits for data, and takes it.
EventWait ==
  /\ At("out")
  /\ wait_event(Ev, 0)
  /\ UNCHANGED <<vars, avail>>

EventTake ==
  /\ At("take") /\ on[cur] = Ev
  /\ avail' = FALSE
  /\ Return
  /\ UNCHANGED vars

\* The interrupt handler announces data and wakes the bottom half.
IrqEvent ==
  /\ waking = <<>>
  /\ IrqOther
  /\ avail' = TRUE
  /\ wake_up(Ev, TRUE)
  /\ UNCHANGED <<pc, on, deadline, waitq>>

ThreadsInit == WaitInit /\ avail = FALSE

ThreadsWait == WaitEvent(Condition(on[cur])) /\ UNCHANGED avail
ThreadsWake == WakeUpStep /\ UNCHANGED avail
ThreadsBackground == Background /\ UNCHANGED avail

ThreadsNext ==
  \/ ThreadJoined \/ ThreadExit \/ ThreadRemoved
  \/ EventWait \/ EventTake \/ IrqEvent
  \/ \E t \in Thread :
       \/ ThreadWait(t) \/ ThreadDetach(t) \/ ThreadKill(t)
       \/ \E d \in BOOLEAN : ThreadCreate(t, d)
  \/ ThreadsWait \/ ThreadsWake \/ ThreadsBackground

ThreadsSpec == ThreadsInit /\ [][ThreadsNext]_threadVars

(***************************************************************************)
(* The fairness of SchedCoop, and that the code of a call, of a removal    *)
(* and of a wake_up loop is executed; it is strong where an interrupt      *)
(* handler delays the interrupted code.  No exit, no kill and no event is  *)
(* assumed to happen.                                                      *)
(***************************************************************************)
ThreadsFairness ==
  /\ SF_threadVars(ThreadsWait) /\ WF_threadVars(ThreadsWake)
  /\ SF_threadVars(ThreadJoined \/ EventTake)
  /\ SF_threadVars(ThreadRemoved)
  /\ SF_threadVars(ThreadsBackground /\ (SchedulerStep \/ IdleLoop))
  /\ SF_threadVars(ThreadsBackground /\ Yield)

FairThreadsSpec == ThreadsSpec /\ ThreadsFairness

-----------------------------------------------------------------------------
ThreadsTypeOK == WaitTypeOK /\ avail \in BOOLEAN

\* A thread inside uk_thread_wait waits for one whose memory is there and which
\* nobody detached, so that neither exit, kill nor reaping frees it; nobody else
\* waits for that thread; and it destroys it only once it has exited.
JoinSound ==
  \A t \in Thread :
    pc[t] # "out" /\ on[t] # Ev =>
      /\ on[t] \in alive \ detached
      /\ \A u \in Thread : pc[u] # "out" /\ on[u] = on[t] => u = t
      /\ pc[t] \in {"deq", "take"} => on[t] \in isExited

\* No lost wake-up: a thread that sleeps in uk_thread_wait or for the event does
\* so because the joined thread has not exited, or the event has not come.
JoinNoLostWakeup ==
  \A t \in alive \ isExited :
    Sleeps(t) => t \in Range(waking) \/ ~Condition(on[t])

\* A call waits without a timeout, for a thread or for the event; and a thread that is
\* going to sleep, or sleeps, does not miss what it waits for.
JoinCalls ==
  \A t \in Thread : deadline[t] = 0 /\ (pc[t] # "out" => on[t] \in Thread \cup {Ev})

JoinWoken ==
  \A t \in Thread : Dozes(t) => t \in Range(waking) \/ ~Condition(on[t])

\* The fields have their types, the scheduler and the wait queues are consistent, the
\* joins are sound, and whoever waits for an exit or for the event is woken by it.
ThreadsInv ==
  WaitInv /\ ThreadsTypeOK /\ JoinSound /\ JoinCalls /\ JoinWoken

\* uk_thread_wait returns once the joined thread has exited.
JoinReturns ==
  \A t, u \in Thread :
    pc[t] # "out" /\ on[t] = u /\ u \in isExited ~> pc[t] = "out"

\* The memory of a detached thread that has exited is freed, provided threads go
\* on resuming in schedcoop_schedule, which frees it on their behalf.
DetachedFreed ==
  []<>(mode = "reap") =>
    \A t \in Thread : t \in Range(exited) /\ t \in detached ~> t \notin alive
=============================================================================

----------------------------- MODULE SchedCoop -----------------------------
(***************************************************************************)
(* The cooperative scheduler (lib/ukschedcoop) with the thread primitives  *)
(* it shares its state with (lib/uksched), on one CPU with interrupts.     *)
(*                                                                         *)
(* A section of code that runs with interrupts disabled is one step.  The  *)
(* two loops inside such sections take one step per iteration, during      *)
(* which no interrupt is enabled.  Everything else interleaves with        *)
(* interrupt handlers, never with another thread: threads switch only in   *)
(* schedcoop_schedule.                                                     *)
(*                                                                         *)
(* SchedSpec lets the running thread and the interrupt handlers call the   *)
(* scheduler in every way the interface permits; the modules built on this *)
(* one (threads, semaphores, mutexes, mailboxes) are particular clients    *)
(* and are shown to implement it.                                          *)
(***************************************************************************)
EXTENDS TailQueue

CONSTANTS Thread,    \* addresses a struct uk_thread can have
          Idle,      \* sched->idle, embedded in struct uk_sched
          Main,      \* the thread ukplat_entry creates before starting
          NoThread,  \* NULL
          MaxTime    \* bound on the monotonic clock

ASSUME ThreadAssumption == /\ Main \in Thread
                           /\ Idle \notin Thread
                           /\ NoThread \notin Thread \cup {Idle}
ASSUME TimeAssumption == MaxTime \in Nat

AllThread == Thread \cup {Idle}

VARIABLES
  cur,       \* uk_thread_current(): the thread whose stack the CPU is on
  next,      \* schedcoop_schedule's next between irq restore and the switch
  mode,      \* where the CPU is, see Modes
  removing,  \* the thread schedcoop_thread_remove is working on, irqs off
  alive,     \* the threads of Thread whose memory is allocated
  started,   \* the threads that have run before: they resume in schedule()
  runq,      \* prv->thread_list
  sleeping,  \* prv->sleeping_threads
  exited,    \* s->exited_threads
  runnable,  \* threads with RUNNABLE_FLAG
  queueable, \* threads with QUEUEABLE_FLAG
  isExited,  \* threads with EXITED_FLAG
  detached,  \* threads with detached set
  wakeup,    \* wakeup_time of each thread, 0 for none
  now,       \* ukplat_monotonic_clock()
  pending    \* sched_have_pending_events

cpuVars  == <<cur, next, mode, removing>>
lifeVars == <<alive, started, isExited, detached, exited>>
timeVars == <<now, pending>>
vars == <<cur, next, mode, removing, alive, started, runq, sleeping, exited,
          runnable, queueable, isExited, detached, wakeup, now, pending>>

(***************************************************************************)
(* run      thread code, interrupts enabled                                *)
(* schedule the do-while loop of schedcoop_schedule, interrupts disabled   *)
(* halt     ukplat_lcpu_halt_to in that loop, interrupts enabled           *)
(* switch   interrupts restored, sp not yet moved to next's stack          *)
(* reap     the loop over exited_threads that ends schedcoop_schedule      *)
(* exit     the current thread removed itself and is about to schedule     *)
(***************************************************************************)
Modes == {"run", "schedule", "halt", "switch", "reap", "exit"}

IrqsEnabled == mode # "schedule" /\ removing = NoThread

\* The thread that owns the CPU: the one being switched to, if any.
OnCpu == IF mode = "switch" THEN next ELSE cur

-----------------------------------------------------------------------------
(* State changes shared by several operations.                             *)

\* Wrong variants of definitions, named Bad..., each with a slip the code could
\* contain, stand before the definitions they vary; nothing uses them.

BadWokenQueued(t, me) == TRUE

\* schedcoop_thread_woken, called where uk_thread_current() is me: the current
\* thread is queued only while it is being switched away from.
WokenQueued(t, me) == t # me \/ t \in queueable

Bad_uk_thread_wake(t, me) ==  \* the sleeping list is forgotten
  IF t \in runnable
  THEN UNCHANGED <<runq, sleeping, runnable, queueable, wakeup>>
  ELSE /\ runq' = IF WokenQueued(t, me) THEN Append(runq, t) ELSE runq
       /\ queueable' = IF WokenQueued(t, me) THEN queueable \ {t} ELSE queueable
       /\ wakeup' = [wakeup EXCEPT ![t] = 0]
       /\ runnable' = runnable \cup {t}
       /\ UNCHANGED sleeping

uk_thread_wake(t, me) ==
  IF t \in runnable
  THEN UNCHANGED <<runq, sleeping, runnable, queueable, wakeup>>
  ELSE /\ sleeping' = IF wakeup[t] > 0 THEN TAILQ_REMOVE(sleeping, t) ELSE sleeping
       /\ runq' = IF WokenQueued(t, me) THEN Append(runq, t) ELSE runq
       /\ queueable' = IF WokenQueued(t, me) THEN queueable \ {t} ELSE queueable
       /\ wakeup' = [wakeup EXCEPT ![t] = 0]
       /\ runnable' = runnable \cup {t}

Bad_block_current(until) ==  \* schedcoop_thread_blocked is not called
  /\ wakeup' = [wakeup EXCEPT ![cur] = until]
  /\ runnable' = runnable \ {cur}
  /\ UNCHANGED <<runq, queueable, sleeping>>

\* The interrupts-off section that blocks the current thread until a deadline,
\* in uk_thread_block_until and in uk_waitq_wait_event.
block_current(until) ==
  /\ wakeup' = [wakeup EXCEPT ![cur] = until]
  /\ runnable' = runnable \ {cur}
  /\ sleeping' = IF until > 0 THEN Append(sleeping, cur) ELSE sleeping
  /\ UNCHANGED <<runq, queueable>>

\* uk_sched_thread_destroy: off the exited list, memory freed.
thread_destroy(t) ==
  /\ exited' = TAILQ_REMOVE(exited, t)
  /\ alive' = alive \ {t}
  /\ UNCHANGED <<started, isExited>>

-----------------------------------------------------------------------------
(* The scheduler.                                                          *)

\* schedcoop_yield: enter schedcoop_schedule.
Yield ==
  /\ mode = "run" /\ removing = NoThread
  /\ cur \in Thread
  /\ mode' = "schedule"
  /\ UNCHANGED <<cur, next, removing, runq, sleeping, runnable, queueable, wakeup>>
  /\ UNCHANGED <<lifeVars, timeVars>>

\* idle_thread_fn: block without a deadline, schedule, again.
IdleLoop ==
  /\ mode = "run" /\ cur = Idle
  /\ block_current(0)
  /\ mode' = "schedule"
  /\ UNCHANGED <<cur, next, removing, lifeVars, timeVars>>

Expired(t) == wakeup[t] > 0 /\ wakeup[t] <= now

FirstExpired(t) ==
  \E i \in DOMAIN sleeping :
    /\ sleeping[i] = t /\ Expired(t)
    /\ \A j \in 1..(i - 1) : ~Expired(sleeping[j])

\* One iteration of the loop that wakes expired sleepers.
WakeExpired(t) ==
  /\ mode = "schedule"
  /\ FirstExpired(t)
  /\ uk_thread_wake(t, cur)
  /\ UNCHANGED <<cpuVars, lifeVars, timeVars>>

NoneExpired == \A t \in Range(sleeping) : ~Expired(t)

BadRequeuePrev(q) == IF cur \in runnable THEN TAILQ_INSERT_HEAD(q, cur) ELSE q

RequeuePrev(q) == IF cur \in runnable THEN Append(q, cur) ELSE q

\* The previous thread, if blocked, may be queued by a wake that comes before the
\* switch is complete; the next one may not.
QueueableAt(n) ==
  (IF cur \in runnable THEN queueable ELSE queueable \cup {cur}) \ {n}

\* The next thread comes off the run queue; the previous one goes to its tail
\* or is marked queueable.
PickNext ==
  /\ mode = "schedule" /\ NoneExpired
  /\ runq # <<>>
  /\ next' = Head(runq)
  /\ runq' = RequeuePrev(Tail(runq))
  /\ queueable' = QueueableAt(Head(runq))
  /\ mode' = "switch"
  /\ UNCHANGED <<cur, removing, sleeping, runnable, wakeup, lifeVars, timeVars>>

BadPickPrev ==  \* the previous thread carries on although others wait
  /\ mode = "schedule" /\ NoneExpired
  /\ cur \in runnable
  /\ mode' = "reap"
  /\ UNCHANGED <<cur, next, removing, runq, sleeping, runnable, queueable, wakeup>>
  /\ UNCHANGED <<lifeVars, timeVars>>

\* Nobody else is ready and the previous thread still is: it carries on.
PickPrev ==
  /\ mode = "schedule" /\ NoneExpired
  /\ runq = <<>> /\ cur \in runnable
  /\ mode' = "reap"
  /\ UNCHANGED <<cur, next, removing, runq, sleeping, runnable, queueable, wakeup>>
  /\ UNCHANGED <<lifeVars, timeVars>>

\* Nobody is ready: halt until the next deadline, ten seconds at most.
Halt ==
  /\ mode = "schedule" /\ NoneExpired
  /\ runq = <<>> /\ cur \notin runnable
  /\ mode' = "halt"
  /\ UNCHANGED <<cur, next, removing, runq, sleeping, runnable, queueable, wakeup>>
  /\ UNCHANGED <<lifeVars, timeVars>>

\* time_block_until stops halting because an interrupt left a pending event.
HaltPending ==
  /\ mode = "halt" /\ pending
  /\ mode' = "schedule"
  /\ pending' = FALSE
  /\ UNCHANGED <<cur, next, removing, runq, sleeping, runnable, queueable, wakeup>>
  /\ UNCHANGED <<lifeVars, now>>

\* time_block_until stops halting because min_wakeup_time has come: the
\* deadline of a sleeper, or ten seconds (which may have passed at any time).
HaltTimeout ==
  /\ mode = "halt"
  /\ mode' = "schedule"
  /\ UNCHANGED <<cur, next, removing, runq, sleeping, runnable, queueable, wakeup>>
  /\ UNCHANGED <<lifeVars, timeVars>>

\* uk_sched_thread_switch: a thread that ran before resumes behind the switch
\* in schedcoop_schedule, a new one at its entry function.
Switch ==
  /\ mode = "switch"
  /\ cur' = next
  /\ next' = NoThread
  /\ mode' = IF next \in started THEN "reap" ELSE "run"
  /\ started' = started \cup {next}
  /\ UNCHANGED <<removing, runq, sleeping, runnable, queueable, wakeup>>
  /\ UNCHANGED <<alive, isExited, detached, exited, timeVars>>

Reapable(t) == t \in detached /\ t # cur

\* One iteration of the loop that destroys detached exited threads.
Reap(t) ==
  /\ mode = "reap"
  /\ \E i \in DOMAIN exited :
       /\ exited[i] = t /\ Reapable(t)
       /\ \A j \in 1..(i - 1) : ~Reapable(exited[j])
  /\ thread_destroy(t)
  /\ UNCHANGED <<cpuVars, detached, timeVars>>
  /\ UNCHANGED <<runq, sleeping, runnable, queueable, wakeup>>

BadReapDone ==  \* the exited list is not walked to its end
  /\ mode = "reap"
  /\ mode' = "run"
  /\ UNCHANGED <<cur, next, removing, runq, sleeping, runnable, queueable, wakeup>>
  /\ UNCHANGED <<lifeVars, timeVars>>

\* schedcoop_schedule returns to its caller.
ReapDone ==
  /\ mode = "reap"
  /\ \A t \in Range(exited) : ~Reapable(t)
  /\ mode' = "run"
  /\ UNCHANGED <<cur, next, removing, runq, sleeping, runnable, queueable, wakeup>>
  /\ UNCHANGED <<lifeVars, timeVars>>

SchedulerStep ==
  \/ PickNext \/ PickPrev \/ Halt \/ HaltPending \/ Switch \/ ReapDone
  \/ \E t \in Thread : WakeExpired(t) \/ Reap(t)

-----------------------------------------------------------------------------
(* What the running thread may call.                                       *)

ThreadRuns == mode = "run" /\ removing = NoThread /\ cur \in Thread

\* uk_sched_thread_create: flags and wakeup_time cleared by uk_thread_init,
\* detached taken from the attributes, then schedcoop_thread_add.
Create(t, d) ==
  /\ ThreadRuns
  /\ t \notin alive
  /\ alive' = alive \cup {t}
  /\ started' = started \ {t}
  /\ isExited' = isExited \ {t}
  /\ detached' = IF d THEN detached \cup {t} ELSE detached \ {t}
  /\ runnable' = runnable \cup {t}
  /\ queueable' = queueable \ {t}
  /\ wakeup' = [wakeup EXCEPT ![t] = 0]
  /\ runq' = Append(runq, t)
  /\ UNCHANGED <<cpuVars, sleeping, exited, timeVars>>

\* uk_thread_block_until on the current thread, or the first half of an
\* iteration of uk_waitq_wait_event.
Block(until) ==
  /\ ThreadRuns
  /\ cur \in runnable
  /\ block_current(until)
  /\ UNCHANGED <<cpuVars, lifeVars, timeVars>>

MayWake(t) == t \in alive \ isExited

\* uk_thread_wake called by a thread.
Wake(t) ==
  /\ ThreadRuns
  /\ MayWake(t)
  /\ uk_thread_wake(t, cur)
  /\ UNCHANGED <<cpuVars, lifeVars, timeVars>>

\* schedcoop_thread_remove up to set_exited.  A thread other than the current
\* one is taken off the run queue, where it has to be.
RemoveBegin(t) ==
  /\ ThreadRuns
  /\ (t = cur /\ cur \in runnable) \/ t \in Range(runq)
  /\ removing' = t
  /\ runq' = IF t = cur THEN runq ELSE TAILQ_REMOVE(runq, t)
  /\ runnable' = runnable \ {t}
  /\ isExited' = isExited \cup {t}
  /\ UNCHANGED <<cur, next, mode, alive, started, detached, exited>>
  /\ UNCHANGED <<sleeping, queueable, wakeup, timeVars>>

\* uk_thread_exit waking a thread that waits for the removed one.
RemoveWake(t) ==
  /\ removing # NoThread
  /\ MayWake(t)
  /\ uk_thread_wake(t, cur)
  /\ UNCHANGED <<cpuVars, lifeVars, timeVars>>

\* The rest of schedcoop_thread_remove: onto the exited list, interrupts on.
RemoveEnd ==
  /\ removing # NoThread
  /\ exited' = TAILQ_INSERT_HEAD(exited, removing)
  /\ mode' = IF removing = cur THEN "exit" ELSE mode
  /\ removing' = NoThread
  /\ UNCHANGED <<cur, next, alive, started, isExited, detached>>
  /\ UNCHANGED <<runq, sleeping, runnable, queueable, wakeup, timeVars>>

\* schedcoop_schedule called by the exiting thread.
ExitSchedule ==
  /\ mode = "exit"
  /\ mode' = "schedule"
  /\ UNCHANGED <<cur, next, removing, runq, sleeping, runnable, queueable, wakeup>>
  /\ UNCHANGED <<lifeVars, timeVars>>

\* uk_thread_detach.
Detach(t) ==
  /\ ThreadRuns
  /\ t \in alive
  /\ detached' = detached \cup {t}
  /\ UNCHANGED <<cpuVars, alive, started, isExited, exited>>
  /\ UNCHANGED <<runq, sleeping, runnable, queueable, wakeup, timeVars>>

\* The end of uk_thread_wait, once the awaited thread has exited.
Destroy(t) ==
  /\ ThreadRuns
  /\ t \in Range(exited)
  /\ detached' = detached \cup {t}
  /\ thread_destroy(t)
  /\ UNCHANGED <<cpuVars, runq, sleeping, runnable, queueable, wakeup, timeVars>>

-----------------------------------------------------------------------------
(* Interrupts and time.                                                    *)

\* uk_thread_current() in an interrupt handler.  On ARM and in linuxu the handler
\* runs on the stack of the interrupted thread.  On x86 it has a stack of its own,
\* in which ukplat_stack_set_current_thread has already stored the next thread.
IrqCurrent == {cur, OnCpu}

\* An interrupt handler that wakes a thread.
IrqWake(t, me) ==
  /\ IrqsEnabled
  /\ MayWake(t)
  /\ pending' = TRUE
  /\ uk_thread_wake(t, me)
  /\ UNCHANGED <<cpuVars, lifeVars, now>>

\* An interrupt handler that wakes nobody.
IrqOther ==
  /\ IrqsEnabled
  /\ pending' = TRUE
  /\ UNCHANGED <<cpuVars, lifeVars, runq, sleeping, runnable, queueable, wakeup, now>>

\* The clock; a pass of schedcoop_schedule reads it once.
Tick ==
  /\ IrqsEnabled
  /\ now < MaxTime
  /\ now' = now + 1
  /\ UNCHANGED <<cpuVars, lifeVars, runq, sleeping, runnable, queueable, wakeup, pending>>

-----------------------------------------------------------------------------
\* uk_sched_start: the idle context runs, the main thread is queued.
SchedInit ==
  /\ cur = Idle /\ next = NoThread /\ mode = "run" /\ removing = NoThread
  /\ alive = {Main} /\ started = {Idle}
  /\ runq = <<Main>> /\ sleeping = <<>> /\ exited = <<>>
  /\ runnable = {Main} /\ queueable = {} /\ isExited = {} /\ detached = {}
  /\ wakeup = [t \in AllThread |-> 0]
  /\ now = 0 /\ pending = FALSE

ThreadStep ==
  \/ Yield \/ IdleLoop \/ RemoveEnd \/ ExitSchedule
  \/ \E until \in 0..MaxTime : Block(until)
  \/ \E t \in Thread :
       \/ \E d \in BOOLEAN : Create(t, d)
       \/ Wake(t) \/ RemoveBegin(t) \/ RemoveWake(t) \/ Detach(t) \/ Destroy(t)

Environment == Tick \/ HaltTimeout \/ IrqOther \/ \E t \in Thread, me \in IrqCurrent : IrqWake(t, me)

SchedNext == SchedulerStep \/ ThreadStep \/ Environment

SchedSpec == SchedInit /\ [][SchedNext]_vars

(***************************************************************************)
(* Fairness.  The CPU executes the scheduler's own code; a thread that     *)
(* runs calls the scheduler after finitely many steps, as cooperative      *)
(* scheduling demands; the clock advances however often the scheduler, in  *)
(* which the model's clock stands still, is entered; a halt ends once a    *)
(* deadline has passed.  Nothing is assumed of interrupts or of the        *)
(* ten-second limit.                                                       *)
(***************************************************************************)
SchedFairness ==
  /\ WF_vars(SchedulerStep)
  /\ SF_vars(Yield) /\ WF_vars(IdleLoop)
  /\ WF_vars(RemoveEnd) /\ WF_vars(ExitSchedule)
  /\ SF_vars(Tick)
  /\ WF_vars(HaltTimeout /\ ~NoneExpired)

FairSchedSpec == SchedSpec /\ SchedFairness

-----------------------------------------------------------------------------
(* Properties.                                                             *)

TypeOK ==
  /\ cur \in AllThread /\ next \in AllThread \cup {NoThread}
  /\ mode \in Modes /\ removing \in Thread \cup {NoThread}
  /\ alive \subseteq Thread /\ started \subseteq AllThread
  /\ runq \in Seq(Thread) /\ sleeping \in Seq(Thread) /\ exited \in Seq(Thread)
  /\ runnable \subseteq Thread /\ queueable \subseteq AllThread
  /\ isExited \subseteq Thread /\ detached \subseteq Thread
  /\ wakeup \in [AllThread -> Nat] /\ wakeup[Idle] = 0
  /\ now \in Nat /\ pending \in BOOLEAN

\* A struct uk_thread has one list link (thread_list), shared by the run queue,
\* the sleeping list and the exited list: a thread is on at most one of them,
\* and only once, however wakes, timeouts, exits and switches interleave.
ListsExclusive ==
  /\ IsInjective(runq) /\ IsInjective(sleeping) /\ IsInjective(exited)
  /\ Range(runq) \cap Range(sleeping) = {}
  /\ Range(runq) \cap Range(exited) = {}
  /\ Range(sleeping) \cap Range(exited) = {}

\* RUNNABLE_FLAG, QUEUEABLE_FLAG and the run queue agree: a runnable thread is
\* queued unless it owns the CPU, and the owner is not queued.  In the window
\* between the choice of next and the switch, the previous thread is either
\* queued or still queueable, so that a wake can neither lose nor double it.
RunQueueExact ==
  /\ Range(runq) = runnable \ {OnCpu}
  /\ mode = "switch" => next \in runnable /\ (cur \in runnable \/ cur \in queueable)
  /\ queueable \cap runnable = {}

\* A wakeup_time is set exactly for the threads on the sleeping list, which is
\* the condition under which schedcoop_thread_woken removes a thread from it.
SleepingExact == Range(sleeping) = {t \in AllThread : wakeup[t] > 0}

\* The three assertions of schedcoop_schedule on the thread it picks.
ScheduleAsserts ==
  mode = "schedule" /\ runq # <<>> =>
    /\ Head(runq) # cur
    /\ Head(runq) \in runnable
    /\ Head(runq) \notin isExited

\* No list, and neither the CPU nor a pending switch, refers to freed memory,
\* although exited threads are freed by whichever thread runs next.
NoDanglingThread ==
  /\ Range(runq) \cup Range(sleeping) \cup Range(exited) \subseteq alive
  /\ {cur, next, removing} \subseteq alive \cup {Idle, NoThread}

\* schedcoop_thread_remove never sees "schedule() returned!": an exited thread
\* keeps the CPU only until the scheduler has found another one.
ExitedNeverResumes ==
  /\ mode = "run" /\ removing = NoThread => cur \notin isExited
  /\ mode = "reap" => cur \in runnable /\ cur \notin isExited
  /\ mode = "switch" => next \notin isExited

\* A CPU that halts with a thread ready has a pending event that ends the halt
\* before min_wakeup_time: no wake by an interrupt is slept through.
HaltNeverOversleeps == mode = "halt" /\ runnable # {} => pending

\* What is on the exited list is exactly what has exited and is not yet freed.
ExitedExact == Range(exited) = (isExited \cap alive) \ {removing}

\* The flags agree with where the CPU is: outside the window of a switch the
\* current thread is not queueable; an exited thread is not runnable and sleeps
\* on no list, nor does a runnable one; and while schedcoop_thread_remove works,
\* nobody has freed the thread it removes, and its caller has not exited unless
\* it removes itself.
FlagsConsistent ==
  /\ mode # "switch" => cur \notin queueable /\ next = NoThread
  /\ isExited \cap runnable = {}
  /\ Range(sleeping) \cap (runnable \cup isExited) = {}
  /\ removing # NoThread =>
       /\ mode = "run" /\ cur \in Thread
       /\ removing \in isExited \cap alive
       /\ cur \in isExited => cur = removing

Precedes(q, t, u) == \E i, j \in DOMAIN q : i < j /\ q[i] = t /\ q[j] = u

\* The scheduler is consistent between any two steps: a thread is on one list at most,
\* the run queue, the sleep list and the exited list hold exactly the threads that their
\* flags and deadlines say, nobody refers to a freed thread, an exited thread never
\* resumes, and the CPU does not halt past a wakeup.  No conjunct but the first is
\* inductive without the others.
IInv ==
  /\ TypeOK
  /\ ListsExclusive
  /\ RunQueueExact
  /\ SleepingExact
  /\ ExitedExact
  /\ NoDanglingThread
  /\ ExitedNeverResumes
  /\ HaltNeverOversleeps
  /\ FlagsConsistent

\* The run queue is first come, first served: while a thread is queued nobody
\* gets ahead of it, and the thread schedcoop_schedule picks has nobody ahead.
RunQueueFifo ==
  [][/\ \A t \in Range(runq) \cap Range(runq'), u \in Range(runq') :
          Precedes(runq', u, t) => Precedes(runq, u, t)
     /\ mode' = "switch" /\ mode # "switch" =>
          ~ \E u \in Range(runq) : Precedes(runq, u, next')]_vars

\* A queued thread runs, unless it is killed first.
ReadyRuns == \A t \in Thread : t \in Range(runq) ~> (cur = t \/ t \in isExited)

\* A thread that blocked with a deadline becomes runnable again.
SleeperWakes == \A t \in Thread : wakeup[t] > 0 ~> t \in runnable
=============================================================================

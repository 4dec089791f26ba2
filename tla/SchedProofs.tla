---------------------------- MODULE SchedProofs -----------------------------
(***************************************************************************)
(* The scheduler and the wait queues on it, for every set of threads.  The *)
(* lists and flags of the scheduler are consistent; and each step of       *)
(* uk_waitq_wait_event and of uk_waitq_wake_up is a step of the scheduler  *)
(* or leaves it alone, and keeps WaitInv: one lemma per step, which the    *)
(* proofs about the users of wait queues cite.                             *)
(***************************************************************************)
EXTENDS WaitQueue, QueueLemmas

-----------------------------------------------------------------------------
(* The scheduler.                                                          *)

listVars == <<runq, sleeping, runnable, queueable, wakeup>>

-----------------------------------------------------------------------------
\* The initial state, in which only the main thread exists and is queued.
LEMMA InitInv == SchedInit => IInv
<1> SUFFICES ASSUME SchedInit PROVE IInv
  OBVIOUS
<1> USE ThreadAssumption DEF SchedInit, AllThread
<1>1. /\ Range(runq) = {Main} /\ Range(sleeping) = {} /\ Range(exited) = {}
      /\ runq \in Seq(Thread) /\ sleeping \in Seq(Thread) /\ exited \in Seq(Thread)
  BY DEF Range
<1>2. IsInjective(runq) /\ IsInjective(sleeping) /\ IsInjective(exited)
  BY DEF IsInjective
<1>3. TypeOK
  BY <1>1, Zenon DEF TypeOK, Modes
<1>4. ListsExclusive
  BY <1>1, <1>2 DEF ListsExclusive
<1>5. RunQueueExact /\ SleepingExact /\ ExitedExact
  BY <1>1 DEF RunQueueExact, SleepingExact, ExitedExact, OnCpu
<1>6. NoDanglingThread /\ ExitedNeverResumes /\ HaltNeverOversleeps
  BY <1>1 DEF NoDanglingThread, ExitedNeverResumes, HaltNeverOversleeps
<1>7. FlagsConsistent
  BY <1>1 DEF FlagsConsistent
<1> QED BY <1>3, <1>4, <1>5, <1>6, <1>7 DEF IInv

\* What uk_thread_wake does to the lists, read as sets.
LEMMA WakeLists ==
  ASSUME IInv, NEW t \in Thread, NEW me, t \notin runnable, uk_thread_wake(t, me)
  PROVE  /\ runq' \in Seq(Thread) /\ sleeping' \in Seq(Thread)
         /\ IsInjective(runq') /\ IsInjective(sleeping')
         /\ Range(runq') = IF WokenQueued(t, me) THEN Range(runq) \cup {t} ELSE Range(runq)
         /\ Range(sleeping') = Range(sleeping) \ {t}
         /\ queueable' = IF WokenQueued(t, me) THEN queueable \ {t} ELSE queueable
         /\ wakeup' = [wakeup EXCEPT ![t] = 0]
         /\ runnable' = runnable \cup {t}
<1> USE DEF IInv, TypeOK, ListsExclusive
<1>1. t \notin Range(runq)
  BY DEF RunQueueExact
<1>2. wakeup[t] \in Nat /\ (wakeup[t] > 0 <=> t \in Range(sleeping))
  BY DEF SleepingExact, AllThread
<1>3. /\ Append(runq, t) \in Seq(Thread)
      /\ Range(Append(runq, t)) = Range(runq) \cup {t}
      /\ IsInjective(Append(runq, t))
  BY <1>1, AppendLemma
<1>4. /\ TAILQ_REMOVE(sleeping, t) \in Seq(Thread)
      /\ Range(TAILQ_REMOVE(sleeping, t)) = Range(sleeping) \ {t}
      /\ IsInjective(TAILQ_REMOVE(sleeping, t))
  BY RemoveLemma
<1> QED BY <1>2, <1>3, <1>4, Zenon DEF uk_thread_wake

\* A wake of a live thread preserves the invariant, whoever calls it and wherever
\* the CPU is, provided a wake during a halt leaves a pending event.
LEMMA WakeInv ==
  ASSUME IInv, NEW t \in Thread, NEW me \in {cur, OnCpu}, MayWake(t),
         uk_thread_wake(t, me), UNCHANGED <<cpuVars, lifeVars, now>>,
         pending' \in BOOLEAN, pending => pending', pending' \/ mode # "halt"
  PROVE  IInv'
<1> USE DEF cpuVars, lifeVars
<1>1. CASE t \in runnable
  <2>1. UNCHANGED listVars
    BY <1>1 DEF uk_thread_wake, listVars
  <2> QED BY <2>1 DEF IInv, TypeOK, ListsExclusive, RunQueueExact, SleepingExact,
       ExitedExact, NoDanglingThread, ExitedNeverResumes, HaltNeverOversleeps,
       FlagsConsistent, OnCpu, listVars
<1>2. CASE t \notin runnable
  <2>1. /\ runq' \in Seq(Thread) /\ sleeping' \in Seq(Thread)
        /\ IsInjective(runq') /\ IsInjective(sleeping')
        /\ Range(runq') = IF WokenQueued(t, me) THEN Range(runq) \cup {t} ELSE Range(runq)
        /\ Range(sleeping') = Range(sleeping) \ {t}
        /\ queueable' = IF WokenQueued(t, me) THEN queueable \ {t} ELSE queueable
        /\ wakeup' = [wakeup EXCEPT ![t] = 0]
        /\ runnable' = runnable \cup {t}
    BY <1>2, WakeLists
  <2>2. t \in alive /\ t \notin isExited /\ t \notin Range(exited)
    BY DEF MayWake, IInv, ExitedExact
  <2>3. TypeOK'
    BY <2>1, ThreadAssumption DEF IInv, TypeOK, AllThread
  <2>4. ListsExclusive'
    BY <1>2, <2>1, <2>2 DEF IInv, ListsExclusive, RunQueueExact
  <2>5. RunQueueExact'
    BY <1>2, <2>1 DEF IInv, RunQueueExact, FlagsConsistent, WokenQueued, OnCpu
  <2>6. SleepingExact'
    BY <2>1 DEF IInv, TypeOK, SleepingExact
  <2>7. ExitedExact' /\ ExitedNeverResumes' /\ HaltNeverOversleeps'
    BY <2>1, <2>2 DEF IInv, ExitedExact, ExitedNeverResumes, HaltNeverOversleeps
  <2>8. NoDanglingThread'
    BY <2>1, <2>2 DEF IInv, NoDanglingThread
  <2>9. FlagsConsistent'
    BY <2>1, <2>2 DEF IInv, FlagsConsistent
  <2> QED BY <2>3, <2>4, <2>5, <2>6, <2>7, <2>8, <2>9 DEF IInv
<1> QED BY <1>1, <1>2

\* uk_sched_thread_destroy of a thread on the exited list that is not current.
LEMMA DestroyInv ==
  ASSUME IInv, NEW t \in Range(exited), thread_destroy(t), t # cur,
         mode # "switch", removing = NoThread, detached' \subseteq Thread,
         UNCHANGED <<cpuVars, listVars, timeVars>>
  PROVE  IInv'
<1> USE DEF cpuVars, listVars, timeVars, thread_destroy
<1>1. /\ exited' \in Seq(Thread) /\ IsInjective(exited')
      /\ Range(exited') = Range(exited) \ {t}
      /\ alive' = alive \ {t}
  BY RemoveLemma DEF IInv, TypeOK, ListsExclusive
<1>2. t \notin Range(runq) /\ t \notin Range(sleeping)
  BY DEF IInv, ListsExclusive
<1>3. TypeOK'
  BY <1>1 DEF IInv, TypeOK
<1>4. ListsExclusive' /\ RunQueueExact' /\ SleepingExact'
  BY <1>1 DEF IInv, ListsExclusive, RunQueueExact, SleepingExact, OnCpu
<1>5. ExitedExact' /\ ExitedNeverResumes' /\ HaltNeverOversleeps'
  BY <1>1 DEF IInv, ExitedExact, ExitedNeverResumes, HaltNeverOversleeps
<1>6. NoDanglingThread'
  BY <1>1, <1>2 DEF IInv, NoDanglingThread, FlagsConsistent
<1>7. FlagsConsistent'
  BY <1>1 DEF IInv, FlagsConsistent
<1> QED BY <1>3, <1>4, <1>5, <1>6, <1>7 DEF IInv

\* Blocking the current thread, which owns the CPU and is not queued.
LEMMA BlockLists ==
  ASSUME IInv, NEW until \in Nat, mode = "run", removing = NoThread,
         (cur \in Thread /\ cur \in runnable) \/ (cur = Idle /\ until = 0),
         block_current(until)
  PROVE  /\ sleeping' \in Seq(Thread) /\ IsInjective(sleeping')
         /\ Range(sleeping') = IF until > 0 THEN Range(sleeping) \cup {cur}
                                            ELSE Range(sleeping)
         /\ wakeup' = [wakeup EXCEPT ![cur] = until]
         /\ cur \notin Range(sleeping)
         /\ runnable' = runnable \ {cur}
         /\ runq' = runq /\ queueable' = queueable
<1>1. cur \notin Range(sleeping)
  BY ThreadAssumption DEF IInv, TypeOK, FlagsConsistent, SleepingExact
<1>2. cur \in Thread => /\ Append(sleeping, cur) \in Seq(Thread)
                        /\ Range(Append(sleeping, cur)) = Range(sleeping) \cup {cur}
                        /\ IsInjective(Append(sleeping, cur))
  BY <1>1, AppendLemma DEF IInv, TypeOK, ListsExclusive
<1>3. CASE until > 0
  BY <1>1, <1>2, <1>3 DEF block_current
<1>4. CASE ~ (until > 0)
  BY <1>1, <1>4 DEF block_current, IInv, TypeOK, ListsExclusive
<1> QED BY <1>3, <1>4

\* A blocking step of a thread, or of the idle thread, preserves the invariant.
LEMMA BlockInv ==
  ASSUME IInv, NEW until \in Nat, mode = "run", removing = NoThread,
         (cur \in Thread /\ cur \in runnable) \/ (cur = Idle /\ until = 0),
         block_current(until), mode' \in {"run", "schedule"},
         UNCHANGED <<cur, next, removing, lifeVars, timeVars>>
  PROVE  IInv'
<1> USE DEF lifeVars, timeVars
<1>1. /\ sleeping' \in Seq(Thread) /\ IsInjective(sleeping')
      /\ Range(sleeping') = IF until > 0 THEN Range(sleeping) \cup {cur}
                                         ELSE Range(sleeping)
      /\ wakeup' = [wakeup EXCEPT ![cur] = until]
      /\ cur \notin Range(sleeping)
      /\ runnable' = runnable \ {cur}
      /\ runq' = runq /\ queueable' = queueable
  BY BlockLists
<1>2. cur \notin isExited /\ cur \notin Range(exited) /\ cur \notin Range(runq)
  BY DEF IInv, ExitedNeverResumes, ExitedExact, RunQueueExact, OnCpu
<1>3. TypeOK'
  BY <1>1, ThreadAssumption DEF IInv, TypeOK, AllThread, Modes
<1>4. ListsExclusive'
  BY <1>1, <1>2 DEF IInv, ListsExclusive
<1>5. RunQueueExact'
  BY <1>1 DEF IInv, RunQueueExact, OnCpu
<1>6. SleepingExact'
  <2>1. wakeup \in [AllThread -> Nat] /\ cur \in AllThread
    BY DEF IInv, TypeOK
  <2>2. wakeup[cur] = 0
    BY <1>1, <2>1 DEF IInv, SleepingExact
  <2> QED BY <1>1, <2>1, <2>2 DEF IInv, SleepingExact
<1>7. ExitedExact' /\ ExitedNeverResumes' /\ HaltNeverOversleeps'
  BY <1>1, <1>2 DEF IInv, ExitedExact, ExitedNeverResumes, HaltNeverOversleeps
<1>8. NoDanglingThread'
  BY <1>1, ThreadAssumption DEF IInv, NoDanglingThread
<1>9. FlagsConsistent'
  BY <1>1, <1>2 DEF IInv, FlagsConsistent
<1> QED BY <1>3, <1>4, <1>5, <1>6, <1>7, <1>8, <1>9 DEF IInv

\* A step that moves the CPU from one place to another in the scheduler's code
\* without touching a list, a flag or a thread.
LEMMA ModeInv ==
  ASSUME IInv, UNCHANGED <<cur, next, removing, listVars, lifeVars, now>>,
         removing = NoThread, pending' \in BOOLEAN,
         mode # "switch", mode' \in Modes \ {"switch"},
         mode' = "run" => mode = "reap",
         mode' = "reap" => cur \in runnable,
         mode' = "halt" => runq = <<>> /\ cur \notin runnable
  PROVE  IInv'
<1> USE DEF listVars, lifeVars
<1>1. TypeOK'
  BY DEF IInv, TypeOK
<1>2. ListsExclusive' /\ RunQueueExact' /\ SleepingExact'
  BY DEF IInv, ListsExclusive, RunQueueExact, SleepingExact, OnCpu
<1>3. ExitedExact' /\ NoDanglingThread' /\ FlagsConsistent'
  BY DEF IInv, ExitedExact, NoDanglingThread, FlagsConsistent
<1>4. ExitedNeverResumes'
  BY DEF IInv, ExitedNeverResumes, FlagsConsistent
<1>5. HaltNeverOversleeps'
  <2>1. runq = <<>> => Range(runq) = {}
    BY DEF Range
  <2> QED BY <2>1 DEF IInv, RunQueueExact, OnCpu, HaltNeverOversleeps
<1> QED BY <1>1, <1>2, <1>3, <1>4, <1>5 DEF IInv

\* The choice of the next thread and the re-queueing of the previous one.
LEMMA PickNextInv == IInv /\ PickNext => IInv'
<1> SUFFICES ASSUME IInv, PickNext PROVE IInv'
  OBVIOUS
<1> DEFINE h == Head(runq)
<1> USE DEF PickNext, RequeuePrev, QueueableAt, lifeVars, timeVars
<1>1. /\ h \in Range(runq) /\ h \in Thread /\ Tail(runq) \in Seq(Thread)
      /\ Range(Tail(runq)) = Range(runq) \ {h} /\ IsInjective(Tail(runq))
  BY HeadTailLemma DEF IInv, TypeOK, ListsExclusive
<1>2. Range(runq) = runnable \ {cur} /\ removing = NoThread
  BY DEF IInv, RunQueueExact, OnCpu, FlagsConsistent
<1>3. h \in runnable /\ h # cur /\ h \notin isExited
  BY <1>1, <1>2 DEF IInv, FlagsConsistent
<1>4. /\ runq' \in Seq(Thread) /\ IsInjective(runq')
      /\ Range(runq') = runnable \ {h}
  <2>1. CASE cur \in runnable
    <3>1. cur \in Thread /\ cur \notin Range(Tail(runq))
      BY <1>1, <1>2, <2>1 DEF IInv, TypeOK
    <3>2. /\ Append(Tail(runq), cur) \in Seq(Thread)
          /\ Range(Append(Tail(runq), cur)) = Range(Tail(runq)) \cup {cur}
          /\ IsInjective(Append(Tail(runq), cur))
      <4> HIDE DEF PickNext, h
      <4> DEFINE q == Tail(runq)
      <4>1. q \in Seq(Thread) /\ IsInjective(q) /\ cur \notin Range(q)
        BY <1>1, <3>1
      <4> HIDE DEF q
      <4>2. /\ Append(q, cur) \in Seq(Thread)
            /\ Range(Append(q, cur)) = Range(q) \cup {cur}
            /\ IsInjective(Append(q, cur))
        BY <3>1, <4>1, AppendLemma
      <4> QED BY <4>2 DEF q
    <3> QED BY <1>1, <1>2, <1>3, <2>1, <3>2
  <2>2. CASE cur \notin runnable
    BY <1>1, <1>2, <2>2
  <2> QED BY <2>1, <2>2
<1> HIDE DEF h
<1>5. /\ next' = h /\ mode' = "switch"
      /\ queueable' = (IF cur \in runnable THEN queueable ELSE queueable \cup {cur}) \ {h}
      /\ UNCHANGED <<cur, removing, sleeping, runnable, wakeup, lifeVars, timeVars>>
  BY DEF h
<1> USE <1>5
<1>6. TypeOK'
  BY <1>1, <1>4 DEF IInv, TypeOK, Modes, AllThread
<1>7. ListsExclusive'
  BY <1>2, <1>3, <1>4 DEF IInv, ListsExclusive, FlagsConsistent, ExitedExact
<1>8. RunQueueExact'
  BY <1>3, <1>4 DEF IInv, RunQueueExact, OnCpu
<1>9. SleepingExact' /\ ExitedExact' /\ HaltNeverOversleeps'
  BY DEF IInv, SleepingExact, ExitedExact, HaltNeverOversleeps
<1>10. NoDanglingThread'
  <2>1. runnable \subseteq alive
    BY <1>2, ThreadAssumption DEF IInv, TypeOK, NoDanglingThread
  <2> QED BY <1>3, <1>4, <2>1 DEF IInv, NoDanglingThread
<1>11. ExitedNeverResumes' /\ FlagsConsistent'
  BY <1>2, <1>3 DEF IInv, ExitedNeverResumes, FlagsConsistent
<1> QED BY <1>6, <1>7, <1>8, <1>9, <1>10, <1>11 DEF IInv

\* The switch itself: next becomes current.
LEMMA SwitchInv == IInv /\ Switch => IInv'
<1> SUFFICES ASSUME IInv, Switch PROVE IInv'
  OBVIOUS
<1> USE DEF Switch, timeVars
<1>1. next \in runnable /\ next \in Thread /\ next \notin queueable /\ removing = NoThread
  BY DEF IInv, TypeOK, RunQueueExact, FlagsConsistent
<1>2. TypeOK'
  BY <1>1 DEF IInv, TypeOK, Modes, AllThread
<1>3. ListsExclusive' /\ RunQueueExact' /\ SleepingExact' /\ ExitedExact'
  BY <1>1 DEF IInv, ListsExclusive, RunQueueExact, SleepingExact, ExitedExact, OnCpu
<1>4. NoDanglingThread' /\ ExitedNeverResumes' /\ HaltNeverOversleeps'
  BY <1>1 DEF IInv, NoDanglingThread, ExitedNeverResumes, HaltNeverOversleeps
<1>5. FlagsConsistent'
  BY <1>1 DEF IInv, FlagsConsistent
<1> QED BY <1>2, <1>3, <1>4, <1>5 DEF IInv

\* Creation of a thread in memory that nothing refers to.
LEMMA CreateInv ==
  ASSUME IInv, NEW t \in Thread, NEW d \in BOOLEAN, Create(t, d)
  PROVE  IInv'
<1> USE DEF Create, ThreadRuns, cpuVars, timeVars
<1>1. /\ t \notin Range(runq) /\ t \notin Range(sleeping) /\ t \notin Range(exited)
      /\ t # cur /\ t \notin runnable
  BY ThreadAssumption DEF IInv, NoDanglingThread, RunQueueExact, OnCpu
<1>2. /\ runq' \in Seq(Thread) /\ IsInjective(runq')
      /\ Range(runq') = Range(runq) \cup {t}
  BY <1>1, AppendLemma DEF IInv, TypeOK, ListsExclusive
<1>3. TypeOK'
  BY <1>2, ThreadAssumption DEF IInv, TypeOK, AllThread
<1>4. ListsExclusive'
  BY <1>1, <1>2 DEF IInv, ListsExclusive
<1>5. RunQueueExact'
  BY <1>1, <1>2 DEF IInv, RunQueueExact, OnCpu
<1>6. SleepingExact'
  BY <1>1 DEF IInv, TypeOK, SleepingExact
<1>7. ExitedExact' /\ ExitedNeverResumes' /\ HaltNeverOversleeps'
  BY <1>1 DEF IInv, ExitedExact, ExitedNeverResumes, HaltNeverOversleeps
<1>8. NoDanglingThread'
  BY <1>2 DEF IInv, NoDanglingThread
<1>9. FlagsConsistent'
  BY <1>1 DEF IInv, FlagsConsistent
<1> QED BY <1>3, <1>4, <1>5, <1>6, <1>7, <1>8, <1>9 DEF IInv

\* Exit of the current thread or kill of a queued one, up to set_exited.
LEMMA RemoveBeginInv ==
  ASSUME IInv, NEW t \in Thread, RemoveBegin(t)
  PROVE  IInv'
<1> USE DEF RemoveBegin, ThreadRuns, timeVars
<1>1. /\ t \in runnable /\ t \in alive /\ t \notin Range(sleeping)
      /\ t \notin isExited /\ t \notin Range(exited) /\ t \notin queueable
      /\ (t = cur <=> t \notin Range(runq))
  BY ThreadAssumption DEF IInv, RunQueueExact, OnCpu, NoDanglingThread,
     FlagsConsistent, ExitedExact
<1>2. /\ runq' \in Seq(Thread) /\ IsInjective(runq')
      /\ Range(runq') = Range(runq) \ {t}
  BY <1>1, RemoveLemma DEF IInv, TypeOK, ListsExclusive
<1>3. TypeOK'
  BY <1>2 DEF IInv, TypeOK
<1>4. ListsExclusive' /\ SleepingExact'
  BY <1>1, <1>2 DEF IInv, ListsExclusive, SleepingExact
<1>5. RunQueueExact'
  BY <1>1, <1>2 DEF IInv, RunQueueExact, OnCpu
<1>6. ExitedExact' /\ ExitedNeverResumes' /\ HaltNeverOversleeps'
  BY <1>1, ThreadAssumption DEF IInv, TypeOK, ExitedExact, ExitedNeverResumes,
     HaltNeverOversleeps
<1>7. NoDanglingThread'
  BY <1>1, <1>2 DEF IInv, NoDanglingThread
<1>8. FlagsConsistent'
  BY <1>1 DEF IInv, FlagsConsistent, ExitedNeverResumes
<1> QED BY <1>3, <1>4, <1>5, <1>6, <1>7, <1>8 DEF IInv

\* The removed thread joins the exited list.
LEMMA RemoveEndInv == IInv /\ RemoveEnd => IInv'
<1> SUFFICES ASSUME IInv, RemoveEnd PROVE IInv'
  OBVIOUS
<1> USE DEF RemoveEnd, timeVars
<1>1. /\ removing \in Thread /\ removing \in isExited /\ removing \in alive
      /\ mode = "run" /\ removing \notin Range(exited)
  BY DEF IInv, TypeOK, FlagsConsistent, ExitedExact
<1>2. removing \notin Range(runq) /\ removing \notin Range(sleeping)
  BY <1>1 DEF IInv, RunQueueExact, FlagsConsistent
<1>3. /\ exited' \in Seq(Thread) /\ IsInjective(exited')
      /\ Range(exited') = Range(exited) \cup {removing}
  BY <1>1, ConsLemma DEF IInv, TypeOK, ListsExclusive
<1>4. TypeOK'
  BY <1>1, <1>3 DEF IInv, TypeOK, Modes
<1>5. ListsExclusive'
  BY <1>2, <1>3 DEF IInv, ListsExclusive
<1>6. RunQueueExact' /\ SleepingExact' /\ HaltNeverOversleeps'
  BY <1>1 DEF IInv, RunQueueExact, SleepingExact, HaltNeverOversleeps, OnCpu
<1>7. ExitedExact' /\ NoDanglingThread'
  BY <1>1, <1>3, ThreadAssumption DEF IInv, TypeOK, ExitedExact, NoDanglingThread
<1>8. ExitedNeverResumes' /\ FlagsConsistent'
  BY <1>1 DEF IInv, ExitedNeverResumes, FlagsConsistent
<1> QED BY <1>4, <1>5, <1>6, <1>7, <1>8 DEF IInv

-----------------------------------------------------------------------------
\* Every step of schedcoop_schedule preserves the invariant.
LEMMA SchedulerStepInv == IInv /\ SchedulerStep => IInv'
<1> SUFFICES ASSUME IInv, SchedulerStep PROVE IInv'
  OBVIOUS
<1> USE DEF cpuVars, listVars, lifeVars, timeVars, Modes
<1>0. mode # "run" => removing = NoThread
  BY DEF IInv, FlagsConsistent
<1>1. CASE PickNext
  BY <1>1, PickNextInv
<1>2. CASE PickPrev
  BY <1>0, <1>2, ModeInv DEF PickPrev, IInv, TypeOK
<1>3. CASE Halt
  BY <1>0, <1>3, ModeInv DEF Halt, IInv, TypeOK
<1>4. CASE HaltPending
  BY <1>0, <1>4, ModeInv, Zenon DEF HaltPending
<1>5. CASE Switch
  BY <1>5, SwitchInv
<1>6. CASE ReapDone
  BY <1>0, <1>6, ModeInv DEF ReapDone, IInv, TypeOK
<1>7. ASSUME NEW t \in Thread, WakeExpired(t) PROVE IInv'
  <2>1. t \in Range(sleeping)
    BY <1>7 DEF WakeExpired, FirstExpired, Range
  <2>2. MayWake(t)
    BY <2>1 DEF MayWake, IInv, NoDanglingThread, FlagsConsistent
  <2> QED BY <1>7, <2>2, WakeInv DEF WakeExpired, IInv, TypeOK
<1>8. ASSUME NEW t \in Thread, Reap(t) PROVE IInv'
  <2>1. t \in Range(exited) /\ t # cur
    BY <1>8 DEF Reap, Reapable, Range
  <2> QED BY <1>0, <1>8, <2>1, DestroyInv DEF Reap, IInv, TypeOK
<1> QED BY <1>1, <1>2, <1>3, <1>4, <1>5, <1>6, <1>7, <1>8 DEF SchedulerStep

\* Every call the running thread may make preserves the invariant.
LEMMA ThreadStepInv == IInv /\ ThreadStep => IInv'
<1> SUFFICES ASSUME IInv, ThreadStep PROVE IInv'
  OBVIOUS
<1> USE DEF cpuVars, listVars, lifeVars, timeVars, Modes
<1>0. mode # "run" => removing = NoThread
  BY DEF IInv, FlagsConsistent
<1>1. CASE Yield
  BY <1>1, ModeInv DEF Yield, IInv, TypeOK
<1>2. CASE IdleLoop
  <2>1. removing = NoThread
    BY <1>2, ThreadAssumption DEF IdleLoop, IInv, FlagsConsistent
  <2> QED BY <1>2, <2>1, BlockInv DEF IdleLoop
<1>3. CASE RemoveEnd
  BY <1>3, RemoveEndInv
<1>4. CASE ExitSchedule
  BY <1>0, <1>4, ModeInv DEF ExitSchedule, IInv, TypeOK
<1>5. ASSUME NEW until \in 0..MaxTime, Block(until) PROVE IInv'
  <2>1. until \in Nat
    BY TimeAssumption DEF IInv, TypeOK
  <2> QED BY <1>5, <2>1, BlockInv DEF Block, ThreadRuns
<1>6. ASSUME NEW t \in Thread, NEW d \in BOOLEAN, Create(t, d) PROVE IInv'
  BY <1>6, CreateInv
<1>7. ASSUME NEW t \in Thread, Wake(t) PROVE IInv'
  BY <1>7, WakeInv DEF Wake, ThreadRuns, IInv, TypeOK
<1>8. ASSUME NEW t \in Thread, RemoveBegin(t) PROVE IInv'
  BY <1>8, RemoveBeginInv
<1>9. ASSUME NEW t \in Thread, RemoveWake(t) PROVE IInv'
  BY <1>0, <1>9, WakeInv DEF RemoveWake, IInv, TypeOK
<1>10. ASSUME NEW t \in Thread, Detach(t) PROVE IInv'
  BY <1>10 DEF Detach, IInv, TypeOK, ListsExclusive, RunQueueExact, SleepingExact,
     ExitedExact, NoDanglingThread, ExitedNeverResumes, HaltNeverOversleeps,
     FlagsConsistent, OnCpu
<1>11. ASSUME NEW t \in Thread, Destroy(t) PROVE IInv'
  <2>1. t # cur /\ t \in Range(exited)
    BY <1>11 DEF Destroy, ThreadRuns, IInv, ExitedExact, ExitedNeverResumes
  <2>2. detached' \subseteq Thread
    BY <1>11 DEF Destroy, IInv, TypeOK
  <2> QED BY <1>11, <2>1, <2>2, DestroyInv DEF Destroy, ThreadRuns
<1> QED BY <1>1, <1>2, <1>3, <1>4, <1>5, <1>6, <1>7, <1>8, <1>9, <1>10, <1>11
        DEF ThreadStep

\* Interrupts, the clock and the end of a halt preserve the invariant.
LEMMA EnvironmentInv == IInv /\ Environment => IInv'
<1> SUFFICES ASSUME IInv, Environment PROVE IInv'
  OBVIOUS
<1> USE DEF cpuVars, listVars, lifeVars, timeVars
<1>1. CASE Tick
  BY <1>1 DEF Tick, IInv, TypeOK, ListsExclusive, RunQueueExact, SleepingExact,
     ExitedExact, NoDanglingThread, ExitedNeverResumes, HaltNeverOversleeps,
     FlagsConsistent, OnCpu
<1>2. CASE HaltTimeout
  <2>1. removing = NoThread
    BY <1>2 DEF HaltTimeout, IInv, FlagsConsistent
  <2> QED BY <1>2, <2>1, ModeInv DEF HaltTimeout, IInv, TypeOK, Modes
<1>3. CASE IrqOther
  BY <1>3 DEF IrqOther, IInv, TypeOK, ListsExclusive, RunQueueExact, SleepingExact,
     ExitedExact, NoDanglingThread, ExitedNeverResumes, HaltNeverOversleeps,
     FlagsConsistent, OnCpu
<1>4. ASSUME NEW t \in Thread, NEW me \in IrqCurrent, IrqWake(t, me) PROVE IInv'
  BY <1>4, WakeInv DEF IrqWake, IrqCurrent
<1> QED BY <1>1, <1>2, <1>3, <1>4 DEF Environment

\* The inductive step.
LEMMA NextInv == IInv /\ [SchedNext]_vars => IInv'
<1> SUFFICES ASSUME IInv, [SchedNext]_vars PROVE IInv'
  OBVIOUS
<1>1. CASE SchedNext
  BY <1>1, SchedulerStepInv, ThreadStepInv, EnvironmentInv DEF SchedNext
<1>2. CASE UNCHANGED vars
  BY <1>2 DEF vars, IInv, TypeOK, ListsExclusive, RunQueueExact, SleepingExact,
     ExitedExact, NoDanglingThread, ExitedNeverResumes, HaltNeverOversleeps,
     FlagsConsistent, OnCpu
<1> QED BY <1>1, <1>2

-----------------------------------------------------------------------------
(* The order of the run queue.                                             *)

\* Inserting at the tail of the run queue puts nobody ahead of an element that
\* was on it already.
LEMMA AppendOrder ==
  ASSUME NEW S, NEW s \in Seq(S), NEW x \in S, NEW t, NEW u, t # x,
         Precedes(Append(s, x), u, t)
  PROVE  Precedes(s, u, t)
<1>1. /\ Len(s) \in Nat /\ DOMAIN s = 1..Len(s)
      /\ DOMAIN Append(s, x) = 1..(Len(s) + 1)
      /\ Append(s, x)[Len(s) + 1] = x
      /\ \A i \in 1..Len(s) : Append(s, x)[i] = s[i]
  OBVIOUS
<1>2. PICK i, j \in 1..(Len(s) + 1) :
        i < j /\ Append(s, x)[i] = u /\ Append(s, x)[j] = t
  BY <1>1, Zenon DEF Precedes
<1>3. j # Len(s) + 1
  BY <1>1, <1>2
<1>4. i \in 1..Len(s) /\ j \in 1..Len(s)
  BY <1>1, <1>2, <1>3
<1> QED BY <1>1, <1>2, <1>4 DEF Precedes

\* Taking the head off the run queue keeps the order of the others.
LEMMA TailOrder ==
  ASSUME NEW S, NEW s \in Seq(S), s # <<>>, NEW t, NEW u, Precedes(Tail(s), u, t)
  PROVE  Precedes(s, u, t)
<1>1. /\ Len(s) \in Nat /\ DOMAIN s = 1..Len(s)
      /\ DOMAIN Tail(s) = 1..(Len(s) - 1)
      /\ \A i \in 1..(Len(s) - 1) : Tail(s)[i] = s[i + 1]
  OBVIOUS
<1>2. PICK i, j \in 1..(Len(s) - 1) : i < j /\ Tail(s)[i] = u /\ Tail(s)[j] = t
  BY <1>1 DEF Precedes
<1>3. i + 1 \in 1..Len(s) /\ j + 1 \in 1..Len(s) /\ i + 1 < j + 1
  BY <1>1, <1>2
<1>4. s[i + 1] = u /\ s[j + 1] = t
  BY <1>1, <1>2
<1> QED BY <1>1, <1>3, <1>4 DEF Precedes

\* Unlinking a thread keeps the order of the others.
LEMMA RemoveOrder ==
  ASSUME NEW S, NEW s \in Seq(S), IsInjective(s), NEW x \in Range(s),
         NEW t, NEW u, Precedes(TAILQ_REMOVE(s, x), u, t)
  PROVE  Precedes(s, u, t)
<1> DEFINE r == TAILQ_REMOVE(s, x)
<1>1. PICK k \in 1..Len(s) :
        /\ s[k] = x /\ r \in Seq(S) /\ DOMAIN r = 1..(Len(s) - 1)
        /\ \A i \in 1..(Len(s) - 1) : r[i] = IF i < k THEN s[i] ELSE s[i + 1]
  BY RemoveShape
<1>2. Len(s) \in Nat /\ DOMAIN s = 1..Len(s)
  OBVIOUS
<1>3. PICK i, j \in 1..(Len(s) - 1) : i < j /\ r[i] = u /\ r[j] = t
  BY <1>1 DEF Precedes
<1> HIDE DEF r
<1> DEFINE at(n) == IF n < k THEN n ELSE n + 1
<1>4. \A n \in 1..(Len(s) - 1) : at(n) \in 1..Len(s) /\ r[n] = s[at(n)]
  BY <1>1, <1>2
<1>5. at(i) < at(j)
  BY <1>2, <1>3
<1> HIDE DEF at
<1> QED BY <1>2, <1>3, <1>4, <1>5 DEF Precedes

\* No step lets anybody get ahead of a queued thread.
LEMMA OrderKept ==
  ASSUME IInv, SchedNext, NEW t \in Range(runq) \cap Range(runq'),
         NEW u, Precedes(runq', u, t)
  PROVE  Precedes(runq, u, t)
<1>0. runq \in Seq(Thread) /\ IsInjective(runq) /\ cur \in AllThread
  BY DEF IInv, TypeOK, ListsExclusive
<1>1. ASSUME NEW x \in Thread, NEW me, uk_thread_wake(x, me) PROVE Precedes(runq, u, t)
  <2>1. CASE x \in runnable
    BY <1>1, <2>1 DEF uk_thread_wake
  <2>2. CASE x \notin runnable
    <3>1. x # t
      BY <2>2 DEF IInv, RunQueueExact
    <3>2. runq' = runq \/ runq' = Append(runq, x)
      BY <1>1 DEF uk_thread_wake
    <3> QED BY <1>0, <3>1, <3>2, AppendOrder, Zenon
  <2> QED BY <2>1, <2>2
<1>2. CASE PickNext
  <2> DEFINE q == Tail(runq)
  <2>1. q \in Seq(Thread)
    BY <1>0, <1>2, HeadTailLemma DEF PickNext
  <2>2. t # cur
    BY <1>2 DEF PickNext, IInv, RunQueueExact, OnCpu
  <2>3. runq' = IF cur \in runnable THEN Append(q, cur) ELSE q
    BY <1>2 DEF PickNext, RequeuePrev
  <2>4. runnable \subseteq Thread
    BY DEF IInv, TypeOK
  <2>5. Precedes(q, u, t)
    <3> HIDE DEF q
    <3>1. CASE cur \in runnable
      BY <2>1, <2>2, <2>3, <2>4, <3>1, AppendOrder
    <3> QED BY <2>3, <3>1
  <2> QED BY <1>0, <1>2, <2>5, TailOrder DEF PickNext
<1>3. ASSUME NEW x \in Thread, RemoveBegin(x) PROVE Precedes(runq, u, t)
  <2>1. CASE x = cur
    BY <1>3, <2>1 DEF RemoveBegin
  <2>2. CASE x # cur
    <3>1. x \in Range(runq) /\ runq' = TAILQ_REMOVE(runq, x)
      BY <1>3, <2>2 DEF RemoveBegin
    <3> QED BY <1>0, <3>1, RemoveOrder
  <2> QED BY <2>1, <2>2
<1>4. ASSUME NEW x \in Thread, NEW d \in BOOLEAN, Create(x, d)
      PROVE  Precedes(runq, u, t)
  <2>1. x # t
    BY <1>4 DEF Create, IInv, NoDanglingThread
  <2> QED BY <1>0, <1>4, <2>1, AppendOrder DEF Create
<1>5. CASE runq' = runq
  BY <1>5
<1>6. \/ runq' = runq \/ PickNext
      \/ \E x \in Thread : \/ \E me \in {cur, OnCpu} : uk_thread_wake(x, me)
                           \/ RemoveBegin(x)
                           \/ \E d \in BOOLEAN : Create(x, d)
  <2>1. CASE SchedulerStep
    BY <2>1 DEF SchedulerStep, PickPrev, Halt, HaltPending, Switch, ReapDone,
       WakeExpired, Reap
  <2>2. CASE ThreadStep
    BY <2>2 DEF ThreadStep, Yield, IdleLoop, RemoveEnd, ExitSchedule, Block, Wake,
       RemoveWake, Detach, Destroy, block_current
  <2>3. CASE Environment
    BY <2>3 DEF Environment, Tick, HaltTimeout, IrqOther, IrqWake, IrqCurrent
  <2> QED BY <2>1, <2>2, <2>3 DEF SchedNext
<1> QED BY <1>1, <1>2, <1>3, <1>4, <1>5, <1>6

\* The thread that is picked is the head of the queue.
LEMMA PickedHasNobodyAhead ==
  ASSUME IInv, SchedNext, mode' = "switch", mode # "switch"
  PROVE  ~ \E u \in Range(runq) : Precedes(runq, u, next')
<1>1. PickNext
  <2>1. CASE SchedulerStep
    BY <2>1 DEF SchedulerStep, PickPrev, Halt, HaltPending, Switch, ReapDone,
       WakeExpired, Reap, cpuVars
  <2>2. CASE ThreadStep
    BY <2>2 DEF ThreadStep, Yield, IdleLoop, RemoveEnd, ExitSchedule, Block, Wake,
       RemoveWake, Detach, Destroy, Create, RemoveBegin, cpuVars
  <2>3. CASE Environment
    BY <2>3 DEF Environment, Tick, HaltTimeout, IrqOther, IrqWake, cpuVars
  <2> QED BY <2>1, <2>2, <2>3 DEF SchedNext
<1>2. /\ runq \in Seq(Thread) /\ IsInjective(runq) /\ runq # <<>>
      /\ next' = Head(runq)
  BY <1>1 DEF PickNext, IInv, TypeOK, ListsExclusive
<1>3. /\ DOMAIN runq = 1..Len(runq) /\ Len(runq) \in Nat /\ Len(runq) > 0
      /\ Head(runq) = runq[1]
  BY <1>2
<1>4. \A j \in DOMAIN runq : runq[j] = next' => j = 1
  BY <1>2, <1>3 DEF IsInjective
<1>5. \A i \in DOMAIN runq : ~ (i < 1)
  BY <1>3
<1> QED BY <1>4, <1>5 DEF Precedes

\* The invariant holds in every reachable state of the scheduler.
THEOREM Invariance == SchedSpec => []IInv
<1> QED BY InitInv, NextInv, PTL DEF SchedSpec

\* The state stays within its types: no list ever holds the idle thread, which
\* uk_sched_idle_init never adds, and the idle thread never has a deadline.
THEOREM TypeCorrect == SchedSpec => []TypeOK
<1>1. IInv => TypeOK
  BY DEF IInv
<1> QED BY Invariance, <1>1, PTL

\* The single list link of struct uk_thread is never in use by two lists of
\* schedcoop.c at once, nor twice by one.
THEOREM ListsAreExclusive == SchedSpec => []ListsExclusive
<1>1. IInv => ListsExclusive
  BY DEF IInv
<1> QED BY Invariance, <1>1, PTL

\* The run queue of schedcoop.c holds exactly the runnable threads that do not own
\* the CPU, also in the window in which interrupts are back on before the switch.
THEOREM RunQueueIsExact == SchedSpec => []RunQueueExact
<1>1. IInv => RunQueueExact
  BY DEF IInv
<1> QED BY Invariance, <1>1, PTL

\* The three assertions of schedcoop_schedule on the thread it picks never fail.
THEOREM AssertsHold == SchedSpec => []ScheduleAsserts
<1>1. IInv => ScheduleAsserts
  <2> SUFFICES ASSUME IInv, mode = "schedule", runq # <<>>
               PROVE  /\ Head(runq) # cur /\ Head(runq) \in runnable
                      /\ Head(runq) \notin isExited
    BY DEF ScheduleAsserts
  <2>1. Head(runq) \in Range(runq)
    BY HeadTailLemma DEF IInv, TypeOK, ListsExclusive
  <2> QED BY <2>1 DEF IInv, RunQueueExact, OnCpu, FlagsConsistent
<1> QED BY Invariance, <1>1, PTL

\* No list, no pending switch and not the CPU refers to a thread that
\* uk_sched_thread_destroy has freed.
THEOREM NoThreadDangles == SchedSpec => []NoDanglingThread
<1>1. IInv => NoDanglingThread
  BY DEF IInv
<1> QED BY Invariance, <1>1, PTL

\* The "schedule() returned!" branch of schedcoop_thread_remove is unreachable.
THEOREM NoExitedThreadResumes == SchedSpec => []ExitedNeverResumes
<1>1. IInv => ExitedNeverResumes
  BY DEF IInv
<1> QED BY Invariance, <1>1, PTL

\* time_block_until never sleeps through the wake of a thread by an interrupt.
THEOREM NoOversleep == SchedSpec => []HaltNeverOversleeps
<1>1. IInv => HaltNeverOversleeps
  BY DEF IInv
<1> QED BY Invariance, <1>1, PTL

\* schedcoop_schedule serves the run queue first come, first served.
THEOREM RunQueueIsFifo == SchedSpec => RunQueueFifo
<1> DEFINE Fifo ==
      /\ \A t \in Range(runq) \cap Range(runq'), u \in Range(runq') :
           Precedes(runq', u, t) => Precedes(runq, u, t)
      /\ mode' = "switch" /\ mode # "switch" =>
           ~ \E u \in Range(runq) : Precedes(runq, u, next')
<1>1. IInv /\ [SchedNext]_vars => [Fifo]_vars
  BY OrderKept, PickedHasNobodyAhead
<1> QED BY Invariance, <1>1, PTL DEF SchedSpec, RunQueueFifo

\* schedcoop_thread_woken takes exactly the threads with a deadline off the sleeping list.
THEOREM SleepingIsExact == SchedSpec => []SleepingExact
<1>1. IInv => SleepingExact
  BY DEF IInv
<1> QED BY Invariance, <1>1, PTL

\* The exited list of struct uk_sched loses no thread and keeps none that is freed.
THEOREM ExitedIsExact == SchedSpec => []ExitedExact
<1>1. IInv => ExitedExact
  BY DEF IInv
<1> QED BY Invariance, <1>1, PTL

\* The flags of struct uk_thread agree with where the CPU and the lists are.
THEOREM FlagsAreConsistent == SchedSpec => []FlagsConsistent
<1>1. IInv => FlagsConsistent
  BY DEF IInv
<1> QED BY Invariance, <1>1, PTL

-----------------------------------------------------------------------------
(* Wait queues.                                                            *)

\* Initially nobody waits.
LEMMA WaitInitInv == WaitInit => WaitInv
<1> SUFFICES ASSUME WaitInit PROVE WaitInv
  OBVIOUS
<1>1. IInv
  BY InitInv DEF WaitInit
<1>2. WaitTypeOK
  <2>1. 0 \in 0..MaxTime
    BY TimeAssumption
  <2>2. waitq \in [Queue -> Seq(Thread)] /\ waking \in Seq(Thread)
    BY DEF WaitInit
  <2> QED BY <1>1, <2>1, <2>2, Zenon DEF WaitInit, WaitTypeOK, IInv, Pcs
<1>3. \A q \in Queue : IsInjective(waitq[q]) /\ Range(waitq[q]) = {}
  BY DEF WaitInit, IsInjective, Range
<1>4. IsInjective(waking) /\ Range(waking) = {}
  BY DEF WaitInit, IsInjective, Range
<1>5. WaitqExact
  BY <1>3 DEF WaitqExact, WaitInit, Sleeps
<1>6. WaiterSound
  BY ThreadAssumption DEF WaiterSound, WaitInit, SchedInit, Executing
<1>7. WakeUpSound
  BY <1>4 DEF WakeUpSound, WaitInit
<1> QED BY <1>1, <1>2, <1>5, <1>6, <1>7 DEF WaitInv

\* A step that leaves the wait queues alone preserves their invariant if it blocks
\* nobody, kills no waiter and lets no blocked thread run.
LEMMA WaitFrame ==
  ASSUME WaitInv, IInv', UNCHANGED waitVars, waking = <<>>,
         runnable \subseteq runnable',
         \A t \in Thread : pc[t] # "out" => t \in alive' \ isExited',
         Executing' => cur' \in runnable' \/ (cur' = cur /\ Executing)
  PROVE  WaitInv'
<1> USE DEF waitVars
<1>1. WaitTypeOK'
  BY DEF WaitInv, WaitTypeOK, IInv
<1>2. WaitqExact'
  BY DEF WaitInv, WaitqExact, Sleeps
<1>3. WaiterSound'
  BY DEF WaitInv, WaiterSound
<1>4. WakeUpSound'
  BY DEF WaitInv, WakeUpSound
<1> QED BY <1>1, <1>2, <1>3, <1>4 DEF WaitInv

\* So does one that leaves the scheduler alone too.
LEMMA WaitStutter ==
  ASSUME WaitInv, UNCHANGED <<vars, waitVars>>
  PROVE  WaitInv'
<1>1. IInv'
  BY NextInv DEF WaitInv
<1>2. WaitTypeOK' /\ WaitqExact'
  BY <1>1 DEF WaitInv, WaitTypeOK, IInv, WaitqExact, Sleeps, waitVars, vars
<1>3. WaiterSound' /\ WakeUpSound'
  BY DEF WaitInv, WaiterSound, WakeUpSound, Executing, ThreadRuns, IrqsEnabled, waitVars,
     vars
<1> QED BY <1>1, <1>2, <1>3 DEF WaitInv

\* The scheduler's own steps are of that kind.
LEMMA SchedulerFrame ==
  ASSUME WaitInv, SchedulerStep
  PROVE  /\ runnable \subseteq runnable'
         /\ \A t \in Thread : pc[t] # "out" => t \in alive' \ isExited'
         /\ Executing' => cur' \in runnable'
<1> USE DEF lifeVars, timeVars, cpuVars, Executing
<1>0. IInv /\ \A t \in Thread : pc[t] # "out" => t \in alive \ isExited
  BY DEF WaitInv, WaiterSound
<1>1. CASE PickNext
  BY <1>0, <1>1 DEF PickNext
<1>2. CASE PickPrev \/ Halt \/ HaltPending
  BY <1>0, <1>2 DEF PickPrev, Halt, HaltPending
<1>3. CASE Switch
  BY <1>0, <1>3 DEF Switch, IInv, RunQueueExact
<1>4. CASE ReapDone
  BY <1>0, <1>4 DEF ReapDone, IInv, ExitedNeverResumes
<1>5. ASSUME NEW t \in Thread, WakeExpired(t)
      PROVE  /\ runnable \subseteq runnable'
             /\ \A u \in Thread : pc[u] # "out" => u \in alive' \ isExited'
             /\ Executing' => cur' \in runnable'
  BY <1>0, <1>5 DEF WakeExpired, uk_thread_wake
<1>6. ASSUME NEW t \in Thread, Reap(t)
      PROVE  /\ runnable \subseteq runnable'
             /\ \A u \in Thread : pc[u] # "out" => u \in alive' \ isExited'
             /\ Executing' => cur' \in runnable'
  <2>1. t \in isExited
    BY <1>0, <1>6 DEF Reap, Range, IInv, ExitedExact
  <2> QED BY <1>0, <1>6, <2>1 DEF Reap, thread_destroy
<1> QED BY <1>1, <1>2, <1>3, <1>4, <1>5, <1>6 DEF SchedulerStep

\* What goes on beside the calls preserves the invariant, as steps of the scheduler.
LEMMA BackgroundInv ==
  ASSUME WaitInv, Background
  PROVE  WaitInv' /\ SchedNext /\ runnable \subseteq runnable'
<1>0. IInv /\ \A t \in Thread : pc[t] # "out" => t \in alive \ isExited
  BY DEF WaitInv, WaiterSound
<1>1. SchedNext
  BY DEF Background, SchedNext, ThreadStep, Environment
<1>2. IInv'
  BY <1>0, <1>1, NextInv
<1>3. UNCHANGED waitVars /\ waking = <<>>
  BY DEF Background
<1>4. SUFFICES /\ runnable \subseteq runnable'
               /\ \A t \in Thread : pc[t] # "out" => t \in alive' \ isExited'
               /\ Executing' => cur' \in runnable' \/ (cur' = cur /\ Executing)
  BY <1>1, <1>2, <1>3, WaitFrame
<1>5. CASE SchedulerStep
  BY <1>5, SchedulerFrame
<1>6. CASE IdleLoop
  <2>1. runnable' = runnable
    BY <1>0, <1>6, ThreadAssumption DEF IdleLoop, block_current, IInv, TypeOK
  <2> QED BY <1>0, <1>6, <2>1 DEF IdleLoop, lifeVars, Executing
<1>7. CASE Tick \/ HaltTimeout \/ IrqOther
  BY <1>0, <1>7 DEF Tick, HaltTimeout, IrqOther, lifeVars, cpuVars, Executing
<1>8. CASE Yield
  BY <1>0, <1>8 DEF Yield, lifeVars, Executing
<1> QED BY <1>5, <1>6, <1>7, <1>8 DEF Background

\* The running thread exists and has not exited.
LEMMA RunnerAlive ==
  ASSUME WaitInv, ThreadRuns
  PROVE  cur \in Thread /\ cur \in alive \ isExited /\ Executing
BY ThreadAssumption
   DEF WaitInv, IInv, NoDanglingThread, ExitedNeverResumes, ThreadRuns, Executing

\* The running thread enters, leaves or goes on in wait_event, neither linked nor
\* blocked, and the scheduler is left alone.
LEMMA CurMoves ==
  ASSUME WaitInv, ThreadRuns, waking = <<>>,
         UNCHANGED <<vars, waitq, waking, inIrq>>,
         pc[cur] \in {"out", "test", "take"},
         NEW p \in {"out", "test", "enq", "take"}, NEW q \in Queue \cup {NoThread},
         NEW d \in 0..MaxTime, p # "out" => q \in Queue,
         pc' = [pc EXCEPT ![cur] = p], on' = [on EXCEPT ![cur] = q],
         deadline' = [deadline EXCEPT ![cur] = d]
  PROVE  WaitInv'
<1>0. /\ cur \in Thread /\ cur \in alive \ isExited
      /\ cur \in runnable
  BY RunnerAlive DEF WaitInv, WaiterSound
<1>1. IInv'
  BY NextInv DEF WaitInv
<1>2. pc \in [Thread -> Pcs] /\ on \in [Thread -> Queue \cup {NoThread}]
  BY DEF WaitInv, WaitTypeOK
<1>3. WaitTypeOK'
  BY <1>0, <1>1 DEF WaitInv, WaitTypeOK, IInv, Pcs
<1> USE DEF vars
<1>4. WaitqExact'
  <2>1. \A r \in Queue : cur \notin Range(waitq[r])
    BY DEF WaitInv, WaitqExact
  <2>2. \A r \in Queue : \A t \in Range(waitq[r]) : t \in Thread
    BY DEF WaitInv, WaitTypeOK, Range
  <2>3. (\A r \in Queue : \A t \in Range(waitq[r]) :
          on[t] = r /\ pc[t] \in {"enq", "chk", "yield", "deq"})'
    BY <1>0, <1>2, <2>1, <2>2 DEF WaitInv, WaitqExact
  <2>4. (\A t \in Thread : pc[t] \in {"chk", "yield", "deq"} \/ Sleeps(t)
                             => t \in Range(waitq[on[t]]))'
    BY <1>0, <1>2 DEF WaitInv, WaitqExact, Sleeps
  <2> QED BY <2>3, <2>4 DEF WaitInv, WaitqExact
<1>5. WaiterSound'
  BY <1>0, <1>2 DEF WaitInv, WaiterSound, Executing
<1>6. WakeUpSound'
  BY DEF WaitInv, WakeUpSound, Range
<1> QED BY <1>1, <1>3, <1>4, <1>5, <1>6 DEF WaitInv

\* The call of uk_waitq_wait_event.
LEMMA CallInv ==
  ASSUME WaitInv, At("out"), NEW q \in Queue, NEW until \in 0..MaxTime,
         wait_event(q, until), UNCHANGED vars
  PROVE  WaitInv'
BY CurMoves, Zenon DEF At, wait_event

\* The first test of the condition.
LEMMA TestInv ==
  ASSUME WaitInv, NEW c \in BOOLEAN, WaitTest(c)
  PROVE  WaitInv'
<1>1. cur \in Thread /\ on[cur] \in Queue
  BY RunnerAlive DEF WaitTest, At, WaitInv, WaiterSound
<1>2. on \in [Thread -> Queue \cup {NoThread}] /\ deadline \in [Thread -> 0..MaxTime]
  BY DEF WaitInv, WaitTypeOK
<1>3. on' = [on EXCEPT ![cur] = on[cur]] /\ deadline' = [deadline EXCEPT ![cur] = deadline[cur]]
  BY <1>1, <1>2 DEF WaitTest
<1>4. deadline[cur] \in 0..MaxTime
  BY <1>1, <1>2
<1>5. /\ ThreadRuns /\ waking = <<>> /\ pc[cur] = "test"
      /\ UNCHANGED <<vars, waitq, waking, inIrq>>
      /\ pc' = [pc EXCEPT ![cur] = IF c THEN "take" ELSE "enq"]
  BY DEF WaitTest, At, Goto, schedVars
<1> QED BY <1>1, <1>3, <1>4, <1>5, CurMoves, Zenon

\* The caller of wait_event, which is over, calls it again or returns.
LEMMA TakeInv ==
  ASSUME WaitInv, At("take"), Return \/ Retry, UNCHANGED vars
  PROVE  WaitInv'
<1>1. cur \in Thread /\ on[cur] \in Queue
  BY RunnerAlive DEF At, WaitInv, WaiterSound
<1>2. on \in [Thread -> Queue \cup {NoThread}] /\ deadline \in [Thread -> 0..MaxTime]
  BY DEF WaitInv, WaitTypeOK
<1>3. CASE Return
  <2>1. 0 \in 0..MaxTime
    BY TimeAssumption
  <2> QED BY <1>3, <2>1, CurMoves, Zenon DEF At, Return
<1>4. CASE Retry
  <2>1. on' = [on EXCEPT ![cur] = on[cur]] /\ deadline' = [deadline EXCEPT ![cur] = deadline[cur]]
    BY <1>1, <1>2, <1>4 DEF Retry
  <2>2. deadline[cur] \in 0..MaxTime
    BY <1>1, <1>2
  <2> QED BY <1>1, <1>4, <2>1, <2>2, CurMoves, Zenon DEF At, Retry, Goto
<1> QED BY <1>3, <1>4

\* A thread that is linked goes on inside wait_event.
LEMMA StillLinked ==
  ASSUME WaitqExact, pc \in [Thread -> Pcs], cur \in Thread, NEW p, pc' = [pc EXCEPT ![cur] = p],
         pc[cur] \in {"chk", "yield"}, p \in {"enq", "yield", "deq"},
         UNCHANGED <<on, waitq, runnable>>, waitq \in [Queue -> Seq(Thread)]
  PROVE  WaitqExact'
<1>1. pc'[cur] = p /\ \A t \in Thread : t # cur => pc'[t] = pc[t]
  OBVIOUS
<1>2. \A q \in Queue : \A t \in Range(waitq[q]) :
        on[t] = q /\ pc'[t] \in {"enq", "chk", "yield", "deq"}
  <2>1. \A q \in Queue : Range(waitq[q]) \subseteq Thread
    BY DEF Range
  <2> QED BY <1>1, <2>1 DEF WaitqExact
<1>3. cur \in Range(waitq[on[cur]])
  BY DEF WaitqExact
<1>4. \A t \in Thread : t # cur =>
        (pc'[t] \in {"chk", "yield", "deq"} \/ Sleeps(t)' => t \in Range(waitq[on[t]]))
  BY <1>1 DEF WaitqExact, Sleeps
<1> QED BY <1>2, <1>3, <1>4 DEF WaitqExact

\* The test of the condition and of the deadline after the thread has blocked.
LEMMA CheckInv ==
  ASSUME WaitInv, NEW c \in BOOLEAN, WaitCheck(c)
  PROVE  WaitInv'
<1>0. cur \in Thread /\ cur \in alive \ isExited /\ pc[cur] = "chk" /\ waking = <<>>
  BY RunnerAlive DEF WaitCheck, At
<1>1. UNCHANGED vars
  BY DEF WaitCheck, schedVars
<1>2. IInv'
  BY <1>1, NextInv DEF WaitInv
<1>3. pc \in [Thread -> Pcs]
  BY DEF WaitInv, WaitTypeOK
<1>4. PICK p \in {"deq", "yield"} : pc' = [pc EXCEPT ![cur] = p]
  BY Zenon DEF WaitCheck, Goto
<1>6. WaitqExact'
  <2>1. UNCHANGED <<on, waitq, runnable>> /\ WaitqExact /\ waitq \in [Queue -> Seq(Thread)]
    BY <1>1 DEF WaitCheck, vars, WaitInv, WaitTypeOK
  <2> QED BY <1>0, <1>3, <1>4, <2>1, StillLinked, Zenon
<1> USE <1>1, <1>4 DEF vars, WaitCheck
<1>5. WaitTypeOK'
  BY <1>0, <1>2 DEF WaitInv, WaitTypeOK, IInv, Pcs
<1>7. WaiterSound'
  BY <1>0, <1>3 DEF WaitInv, WaiterSound, Executing
<1>8. WakeUpSound'
  BY <1>0 DEF WaitInv, WakeUpSound, Range
<1> QED BY <1>2, <1>5, <1>6, <1>7, <1>8 DEF WaitInv

\* The thread links its entry, if it is not linked, and blocks.
LEMMA EnqInv ==
  ASSUME WaitInv, WaitEnq
  PROVE  WaitInv' /\ SchedNext /\ runnable' = runnable \ {cur}
<1> DEFINE q == on[cur]
<1>0. /\ cur \in Thread /\ cur \in alive \ isExited /\ pc[cur] = "enq" /\ waking = <<>>
      /\ q \in Queue /\ ThreadRuns
  BY RunnerAlive DEF WaitEnq, At, WaitInv, WaiterSound
<1>1. /\ pc \in [Thread -> Pcs] /\ deadline[cur] \in 0..MaxTime
      /\ waitq \in [Queue -> Seq(Thread)] /\ waitq[q] \in Seq(Thread)
  BY <1>0, Zenon DEF WaitInv, WaitTypeOK
<1>2. SchedNext
  BY <1>1 DEF WaitEnq, SchedNext, ThreadStep
<1>3. IInv'
  BY <1>2, NextInv DEF WaitInv
<1>4. runnable' = runnable \ {cur} /\ UNCHANGED <<cpuVars, lifeVars, timeVars>>
  BY DEF WaitEnq, Block, block_current
<1>5. /\ Linked(waitq[q], cur) \in Seq(Thread) /\ IsInjective(Linked(waitq[q], cur))
      /\ Range(Linked(waitq[q], cur)) = Range(waitq[q]) \cup {cur}
  <2>1. IsInjective(waitq[q])
    BY <1>0 DEF WaitInv, WaitqExact
  <2> QED BY <1>0, <1>1, <2>1, AppendLemma DEF Linked
<1>6. /\ waitq' = [waitq EXCEPT ![q] = Linked(waitq[q], cur)]
      /\ pc' = [pc EXCEPT ![cur] = "chk"]
      /\ UNCHANGED <<on, deadline, waking, inIrq>>
  BY DEF WaitEnq, Goto
<1>7. WaitTypeOK'
  BY <1>0, <1>1, <1>3, <1>5, <1>6, Zenon DEF WaitInv, WaitTypeOK, IInv, Pcs
<1>8. WaitqExact'
  <2>1. (\A r \in Queue : IsInjective(waitq[r]))'
    BY <1>0, <1>1, <1>5, <1>6, ZenonT(30) DEF WaitInv, WaitqExact
  <2>2. \A r \in Queue : Range(waitq'[r]) = IF r = q THEN Range(waitq[q]) \cup {cur}
                                                     ELSE Range(waitq[r])
    BY <1>0, <1>1, <1>5, <1>6, Zenon
  <2>3. (\A r \in Queue : \A t \in Range(waitq[r]) :
          on[t] = r /\ pc[t] \in {"enq", "chk", "yield", "deq"})'
    <3> SUFFICES ASSUME NEW r \in Queue, NEW t \in Range(waitq'[r])
                 PROVE  on[t] = r /\ pc'[t] \in {"enq", "chk", "yield", "deq"}
      BY <1>6
    <3>1. CASE t = cur
      <4>1. on[t] = r
        BY <1>0, <2>2, <3>1 DEF WaitInv, WaitqExact
      <4> QED BY <1>0, <1>1, <1>6, <3>1, <4>1
    <3>2. CASE t # cur
      <4>1. t \in Range(waitq[r])
        BY <2>2, <3>2
      <4>2. on[t] = r /\ pc[t] \in {"enq", "chk", "yield", "deq"}
        BY <4>1 DEF WaitInv, WaitqExact
      <4> QED BY <1>1, <1>6, <3>2, <4>2
    <3> QED BY <3>1, <3>2
  <2>4. (\A t \in Thread : pc[t] \in {"chk", "yield", "deq"} \/ Sleeps(t)
                             => t \in Range(waitq[on[t]]))'
    <3> SUFFICES ASSUME NEW t \in Thread,
                        (pc[t] \in {"chk", "yield", "deq"} \/ Sleeps(t))'
                 PROVE  t \in Range(waitq'[on[t]])
      BY <1>6
    <3>1. CASE t = cur
      BY <1>0, <2>2, <3>1
    <3>2. CASE t # cur
      <4>1. pc[t] \in {"chk", "yield", "deq"} \/ Sleeps(t)
        BY <1>1, <1>4, <1>6, <3>2, Zenon DEF Sleeps
      <4>2. t \in Range(waitq[on[t]]) /\ on[t] \in Queue
        BY <4>1, Zenon DEF WaitInv, WaitqExact, WaiterSound, Sleeps
      <4> QED BY <2>2, <4>2, Zenon
    <3> QED BY <3>1, <3>2
  <2> QED BY <2>1, <2>3, <2>4, Zenon DEF WaitqExact
<1>9. WaiterSound'
  BY <1>0, <1>1, <1>4, <1>6 DEF WaitInv, WaiterSound, Executing, lifeVars, cpuVars
<1>10. WakeUpSound'
  BY <1>0, <1>6 DEF WaitInv, WakeUpSound, Range
<1> QED BY <1>2, <1>3, <1>4, <1>7, <1>8, <1>9, <1>10, Zenon DEF WaitInv

\* The blocked thread, or the one that was woken meanwhile, gives up the CPU.
LEMMA YieldInv ==
  ASSUME WaitInv, WaitYield
  PROVE  WaitInv' /\ SchedNext /\ runnable' = runnable
<1>0. cur \in Thread /\ cur \in alive \ isExited /\ pc[cur] = "yield" /\ waking = <<>>
  BY RunnerAlive DEF WaitYield, At
<1>1. SchedNext
  BY DEF WaitYield, SchedNext, ThreadStep
<1>2. IInv'
  BY <1>1, NextInv DEF WaitInv
<1>3. pc \in [Thread -> Pcs] /\ pc' = [pc EXCEPT ![cur] = "enq"]
  BY DEF WaitInv, WaitTypeOK, WaitYield, Goto
<1>4. /\ runnable' = runnable /\ alive' = alive /\ isExited' = isExited
      /\ mode' = "schedule" /\ UNCHANGED <<on, deadline, waitq, waking, inIrq>>
  BY DEF WaitYield, Yield, lifeVars
<1>5. WaitTypeOK'
  BY <1>0, <1>2, <1>3, <1>4, ZenonT(30) DEF WaitInv, WaitTypeOK, IInv, Pcs
<1>6. WaitqExact'
  BY <1>0, <1>3, <1>4, StillLinked, Zenon DEF WaitInv, WaitTypeOK
<1>7. WaiterSound'
  BY <1>0, <1>3, <1>4 DEF WaitInv, WaiterSound, Executing
<1>8. WakeUpSound'
  BY <1>0, <1>4 DEF WaitInv, WakeUpSound, Range
<1> QED BY <1>1, <1>2, <1>4, <1>5, <1>6, <1>7, <1>8 DEF WaitInv

\* The thread makes itself runnable and unlinks its entry.
LEMMA DeqInv ==
  ASSUME WaitInv, WaitDeq
  PROVE  WaitInv' /\ SchedNext /\ runnable' = runnable \cup {cur}
<1> DEFINE q == on[cur]
<1>0. /\ cur \in Thread /\ cur \in alive \ isExited /\ pc[cur] = "deq" /\ waking = <<>>
      /\ q \in Queue /\ ThreadRuns
  BY RunnerAlive DEF WaitDeq, At, WaitInv, WaiterSound
<1>1. /\ pc \in [Thread -> Pcs]
      /\ waitq \in [Queue -> Seq(Thread)] /\ waitq[q] \in Seq(Thread)
  BY <1>0 DEF WaitInv, WaitTypeOK
<1>2. SchedNext
  BY <1>0 DEF WaitDeq, SchedNext, ThreadStep
<1>3. IInv'
  BY <1>2, NextInv DEF WaitInv
<1>4. runnable' = runnable \cup {cur} /\ UNCHANGED <<cpuVars, lifeVars, timeVars>>
  BY DEF WaitDeq, Wake, uk_thread_wake
<1>5. /\ TAILQ_REMOVE(waitq[q], cur) \in Seq(Thread) /\ IsInjective(TAILQ_REMOVE(waitq[q], cur))
      /\ Range(TAILQ_REMOVE(waitq[q], cur)) = Range(waitq[q]) \ {cur}
  <2>1. IsInjective(waitq[q])
    BY <1>0 DEF WaitInv, WaitqExact
  <2> QED BY <1>1, <2>1, RemoveLemma
<1>6. /\ waitq' = [waitq EXCEPT ![q] = TAILQ_REMOVE(waitq[q], cur)]
      /\ pc' = [pc EXCEPT ![cur] = "take"]
      /\ UNCHANGED <<on, deadline, waking, inIrq>>
  BY DEF WaitDeq, Goto
<1>7. WaitTypeOK'
  BY <1>0, <1>1, <1>3, <1>5, <1>6, ZenonT(30) DEF WaitInv, WaitTypeOK, IInv, Pcs
<1>8. WaitqExact'
  <2>1. (\A r \in Queue : IsInjective(waitq[r]))'
    BY <1>0, <1>1, <1>5, <1>6 DEF WaitInv, WaitqExact
  <2>2. \A r \in Queue : Range(waitq'[r]) = IF r = q THEN Range(waitq[q]) \ {cur}
                                                     ELSE Range(waitq[r])
    BY <1>0, <1>1, <1>5, <1>6, Zenon
  <2>3. (\A r \in Queue : \A t \in Range(waitq[r]) :
          on[t] = r /\ pc[t] \in {"enq", "chk", "yield", "deq"})'
    <3> SUFFICES ASSUME NEW r \in Queue, NEW t \in Range(waitq'[r])
                 PROVE  on[t] = r /\ pc'[t] \in {"enq", "chk", "yield", "deq"}
      BY <1>6
    <3>1. t \in Range(waitq[r])
      BY <2>2
    <3>2. on[t] = r /\ pc[t] \in {"enq", "chk", "yield", "deq"}
      BY <3>1 DEF WaitInv, WaitqExact
    <3>3. t # cur
      BY <2>2, <3>2
    <3> QED BY <1>1, <1>6, <3>2, <3>3
  <2>4. (\A t \in Thread : pc[t] \in {"chk", "yield", "deq"} \/ Sleeps(t)
                             => t \in Range(waitq[on[t]]))'
    <3> SUFFICES ASSUME NEW t \in Thread,
                        (pc[t] \in {"chk", "yield", "deq"} \/ Sleeps(t))'
                 PROVE  t \in Range(waitq'[on[t]])
      BY <1>6
    <3>1. t # cur
      BY <1>1, <1>6 DEF Sleeps
    <3>2. pc[t] \in {"chk", "yield", "deq"} \/ Sleeps(t)
      BY <1>1, <1>4, <1>6, <3>1 DEF Sleeps
    <3>3. t \in Range(waitq[on[t]]) /\ on[t] \in Queue
      BY <3>2 DEF WaitInv, WaitqExact, WaiterSound, Sleeps
    <3> QED BY <2>2, <3>1, <3>3
  <2> QED BY <2>1, <2>3, <2>4 DEF WaitqExact
<1>9. WaiterSound'
  BY <1>0, <1>1, <1>4, <1>6 DEF WaitInv, WaiterSound, Executing, lifeVars, cpuVars
<1>10. WakeUpSound'
  BY <1>0, <1>6 DEF WaitInv, WakeUpSound, Range
<1> QED BY <1>2, <1>3, <1>4, <1>7, <1>8, <1>9, <1>10 DEF WaitInv

\* What the user of a wait queue has to know of a step of wait_event: it stays inside,
\* goes on to unlink itself only if the condition held or the deadline passed, and
\* goes to sleep only if the condition did not hold.
LEMMA WaitEventInv ==
  ASSUME WaitInv, NEW c \in BOOLEAN, WaitEvent(c)
  PROVE  /\ WaitInv' /\ [SchedNext]_vars
         /\ waking = <<>> /\ ThreadRuns /\ cur \in Thread
         /\ UNCHANGED <<on, deadline, waking, lifeVars>>
         /\ \A t \in Thread : pc'[t] = "out" <=> pc[t] = "out"
         /\ \A t \in Thread : pc'[t] \in {"deq", "take"} =>
              pc[t] \in {"deq", "take"} \/ (t = cur /\ (c \/ DeadlinePassed(cur)))
         /\ \A t \in Thread : Dozes(t)' => Dozes(t) \/ (t = cur /\ ~c)
<1>0. /\ waking = <<>> /\ ThreadRuns /\ cur \in Thread /\ pc \in [Thread -> Pcs]
      /\ pc[cur] \in {"test", "enq", "take"} => cur \in runnable
  BY RunnerAlive, Zenon DEF WaitEvent, WaitTest, WaitEnq, WaitCheck, WaitYield, WaitDeq, At,
     WaitInv, WaitTypeOK, WaiterSound
<1>1. CASE WaitTest(c)
  BY <1>0, <1>1, TestInv, Zenon DEF WaitTest, At, Goto, schedVars, vars, lifeVars, Dozes
<1>2. CASE WaitEnq
  BY <1>0, <1>2, EnqInv, Zenon DEF WaitEnq, At, Goto, Block, Dozes
<1>3. CASE WaitCheck(c)
  BY <1>0, <1>3, CheckInv, Zenon DEF WaitCheck, At, Goto, schedVars, vars, lifeVars, Dozes
<1>4. CASE WaitYield
  BY <1>0, <1>4, YieldInv DEF WaitYield, At, Goto, Yield, Dozes
<1>5. CASE WaitDeq
  BY <1>0, <1>5, DeqInv DEF WaitDeq, At, Goto, Wake, Dozes
<1> QED BY <1>1, <1>2, <1>3, <1>4, <1>5, Zenon DEF WaitEvent

\* One iteration of the loop of uk_waitq_wake_up: a waiter is made runnable.
LEMMA WakeUpInv ==
  ASSUME WaitInv, WakeUpStep
  PROVE  /\ WaitInv' /\ SchedNext
         /\ runnable' = runnable \cup {Head(waking)}
         /\ Range(waking') = Range(waking) \ {Head(waking)}
<1> DEFINE h == Head(waking)
<1>1. /\ h \in Range(waking) /\ h \in Thread /\ waking' \in Seq(Thread)
      /\ Range(waking') = Range(waking) \ {h} /\ IsInjective(waking')
  BY HeadTailLemma DEF WakeUpStep, WaitInv, WaitTypeOK, WakeUpSound
<1>2. PICK me \in (IF inIrq THEN IrqCurrent ELSE {cur}) : uk_thread_wake(h, me)
  BY Zenon DEF WakeUpStep
<1>3. MayWake(h)
  BY <1>1 DEF MayWake, WaitInv, WaiterSound, WakeUpSound
<1>4. /\ waking # <<>> /\ UNCHANGED <<cpuVars, lifeVars, timeVars>>
      /\ UNCHANGED <<pc, on, deadline, waitq, inIrq>>
  BY DEF WakeUpStep
<1> HIDE DEF h
<1>5. SchedNext
  <2>1. CASE inIrq
    <3>1. IrqsEnabled /\ pending /\ pending' = TRUE
      BY <1>4, <2>1 DEF WaitInv, WakeUpSound, IInv, TypeOK, timeVars
    <3>2. me \in IrqCurrent
      BY <1>2, <2>1
    <3>3. IrqWake(h, me)
      BY <1>2, <1>3, <1>4, <3>1 DEF IrqWake, timeVars
    <3> QED BY <1>1, <3>2, <3>3 DEF SchedNext, Environment
  <2>2. CASE ~inIrq
    <3>1. me = cur /\ (ThreadRuns \/ removing # NoThread)
      BY <1>2, <1>4, <2>2 DEF WaitInv, WakeUpSound
    <3>2. Wake(h) \/ RemoveWake(h)
      BY <1>2, <1>3, <1>4, <3>1 DEF Wake, RemoveWake
    <3> QED BY <1>1, <3>2 DEF SchedNext, ThreadStep
  <2> QED BY <2>1, <2>2
<1>6. IInv'
  BY <1>5, NextInv DEF WaitInv
<1>7. runnable' = runnable \cup {h}
  BY <1>2 DEF uk_thread_wake
<1>8. WaitTypeOK'
  BY <1>1, <1>4, <1>6, Zenon DEF WaitInv, WaitTypeOK, IInv
<1>9. WaitqExact'
  BY <1>4, <1>7, Zenon DEF WaitInv, WaitqExact, Sleeps
<1>10. WaiterSound'
  BY <1>4, <1>7 DEF WaitInv, WaiterSound, Executing, lifeVars, cpuVars
<1>11. WakeUpSound'
  BY <1>1, <1>4 DEF WaitInv, WakeUpSound, ThreadRuns, IrqsEnabled, cpuVars, timeVars
<1> QED BY <1>1, <1>5, <1>6, <1>7, <1>8, <1>9, <1>10, <1>11 DEF WaitInv, h

\* The loop begins, called by the running thread or by an interrupt handler.
LEMMA WakeCallInv ==
  ASSUME WaitInv, NEW q \in Queue, waking = <<>>,
         \/ At("out") /\ wake_up(q, FALSE) /\ UNCHANGED vars
         \/ IrqOther /\ wake_up(q, TRUE),
         UNCHANGED <<pc, on, deadline, waitq>>
  PROVE  /\ WaitInv' /\ [SchedNext]_vars
         /\ runnable' = runnable /\ waking' = waitq[q]
<1>1. [SchedNext]_vars
  BY Zenon DEF SchedNext, Environment
<1>2. IInv'
  BY <1>1, NextInv DEF WaitInv
<1>3. /\ waking' = waitq[q] /\ inIrq' \in BOOLEAN
      /\ runnable' = runnable /\ alive' = alive /\ isExited' = isExited
      /\ UNCHANGED cpuVars
  BY Zenon DEF wake_up, vars, IrqOther, cpuVars, lifeVars
<1>4. WaitTypeOK'
  BY <1>2, <1>3 DEF WaitInv, WaitTypeOK, IInv
<1>5. WaitqExact'
  BY <1>3 DEF WaitInv, WaitqExact, Sleeps
<1>6. WaiterSound'
  BY <1>3 DEF WaitInv, WaiterSound, Executing, cpuVars
<1>7. WakeUpSound'
  <2>1. IsInjective(waking') /\ \A t \in Range(waking') : pc'[t] # "out"
    BY <1>3 DEF WaitInv, WaitqExact
  <2>2. inIrq' => (IrqsEnabled /\ pending)'
    BY DEF wake_up, At, IrqOther, IrqsEnabled, cpuVars
  <2>3. ~inIrq' => ThreadRuns'
    BY <1>3 DEF wake_up, At, ThreadRuns, cpuVars
  <2> QED BY <2>1, <2>2, <2>3, Zenon DEF WakeUpSound
<1> QED BY <1>1, <1>2, <1>3, <1>4, <1>5, <1>6, <1>7 DEF WaitInv

\* A thread is created; it waits for nothing.
LEMMA SpawnInv ==
  ASSUME WaitInv, At("out"), NEW t \in Thread, Create(t, FALSE), UNCHANGED waitVars
  PROVE  WaitInv' /\ SchedNext /\ runnable \subseteq runnable'
<1>1. SchedNext
  BY Zenon DEF SchedNext, ThreadStep
<1>2. IInv'
  BY <1>1, NextInv DEF WaitInv
<1>3. /\ runnable \subseteq runnable'
      /\ \A u \in Thread : pc[u] # "out" => u \in alive' \ isExited'
      /\ Executing' => (cur' = cur /\ Executing)
      /\ waking = <<>>
  BY DEF Create, At, WaitInv, WaiterSound, cpuVars, Executing
<1> QED BY <1>1, <1>2, <1>3, WaitFrame

\* An interrupt handler wakes somebody for a reason of its own.
LEMMA IrqWakeInv ==
  ASSUME WaitInv, waking = <<>>, NEW t \in Thread, NEW me \in IrqCurrent,
         IrqWake(t, me), UNCHANGED waitVars
  PROVE  WaitInv' /\ SchedNext /\ runnable \subseteq runnable'
<1>1. SchedNext
  BY DEF SchedNext, Environment
<1>2. IInv'
  BY <1>1, NextInv DEF WaitInv
<1>3. /\ runnable \subseteq runnable'
      /\ \A u \in Thread : pc[u] # "out" => u \in alive' \ isExited'
      /\ Executing' => (cur' = cur /\ Executing)
  BY Zenon DEF IrqWake, uk_thread_wake, WaitInv, WaiterSound, cpuVars, lifeVars, Executing
<1> QED BY <1>1, <1>2, <1>3, WaitFrame

=============================================================================

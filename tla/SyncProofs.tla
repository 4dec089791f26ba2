----------------------------- MODULE SyncProofs -----------------------------
(***************************************************************************)
(* The semaphore, the mutex and the joining of threads, for every value of *)
(* the constants: each implements the scheduler's interface, keeps its     *)
(* invariant and loses no wake-up; the semaphore and the mutex implement   *)
(* their abstract specifications.                                          *)
(***************************************************************************)
EXTENDS Semaphore, Mutex, Threads, SchedProofs

-----------------------------------------------------------------------------
(* The semaphore.                                                          *)

\* Initially nobody waits, and there are InitCount tokens.
LEMMA SemInitInv == SemInit => SemInv
BY WaitInitInv, SemAssumption, ThreadAssumption
   DEF SemInit, SemInv, WaitInit, SchedInit, Dozes

\* down and down_to are called: no token changes hands.
LEMMA SemCallInv ==
  ASSUME SemInv, NEW until \in 0..MaxTime, At("out"), wait_event(Sem, until),
         UNCHANGED <<vars, count>>
  PROVE  SemInv'
<1>1. WaitInv'
  BY CallInv, SemAssumption DEF SemInv
<1>2. cur \in Thread /\ pc \in [Thread -> Pcs] /\ on \in [Thread -> Queue \cup {NoThread}]
  BY DEF At, ThreadRuns, SemInv, WaitInv, WaitTypeOK
<1> QED BY <1>1, <1>2 DEF SemInv, wait_event, Dozes, vars

\* The end of down and down_to.
LEMMA SemTakeInv == SemInv /\ SemTake => SemInv'
<1> SUFFICES ASSUME SemInv, SemTake PROVE SemInv'
  OBVIOUS
<1>1. WaitInv'
  BY TakeInv DEF SemInv, SemTake
<1>2. cur \in Thread /\ pc \in [Thread -> Pcs] /\ on \in [Thread -> Queue \cup {NoThread}]
  BY DEF SemTake, At, ThreadRuns, SemInv, WaitInv, WaitTypeOK
<1>3. /\ pc[cur] = "take" /\ waking' = waking /\ runnable' = runnable
      /\ count' \in Nat /\ (count = 0 => count' = 0)
      /\ (Return \/ Retry)
  BY DEF SemTake, At, Available, SemInv, Return, Retry, vars
<1> QED BY <1>1, <1>2, <1>3 DEF SemInv, Return, Retry, Goto, Dozes

\* down_try, by a thread or by an interrupt handler.
LEMMA SemTryInv ==
  ASSUME SemInv, count' = (IF Available THEN count - 1 ELSE count),
         UNCHANGED waitVars, UNCHANGED vars \/ (IrqOther /\ waking = <<>>)
  PROVE  SemInv' /\ [SchedNext]_vars
<1>1. CASE UNCHANGED vars
  <2>1. WaitInv'
    BY <1>1, WaitStutter DEF SemInv
  <2> QED BY <1>1, <2>1 DEF SemInv, Available, waitVars, vars, Dozes
<1>2. CASE IrqOther /\ waking = <<>>
  <2>1. Background
    BY <1>2 DEF Background
  <2>2. WaitInv' /\ SchedNext
    BY <2>1, BackgroundInv DEF SemInv
  <2> QED BY <1>2, <2>2 DEF SemInv, Available, waitVars, IrqOther, Dozes
<1> QED BY <1>1, <1>2

\* up, by a thread or by an interrupt handler: everybody who may have missed the
\* token is about to be woken.
LEMMA SemUpInv ==
  ASSUME SemInv, SemUp \/ IrqUp
  PROVE  SemInv' /\ [SchedNext]_vars
<1>1. /\ WaitInv' /\ [SchedNext]_vars
      /\ runnable' = runnable /\ waking' = waitq[Sem]
  <2>1. WaitInv /\ Sem \in Queue /\ waking = <<>> /\ UNCHANGED <<pc, on, deadline, waitq>>
    BY SemAssumption, Zenon DEF SemInv, SemUp, IrqUp, At
  <2>2. \/ At("out") /\ wake_up(Sem, FALSE) /\ UNCHANGED vars
        \/ IrqOther /\ wake_up(Sem, TRUE)
    BY Zenon DEF SemUp, IrqUp
  <2> QED BY <2>1, <2>2, WakeCallInv, Zenon DEF wake_up
<1>2. UNCHANGED <<pc, on, waitq>> /\ count' \in Nat
  BY DEF SemUp, IrqUp, SemInv, wake_up
<1>3. ASSUME NEW t \in Thread, Dozes(t) PROVE t \in Range(waitq[Sem])
  BY <1>3 DEF Dozes, SemInv, WaitInv, WaitqExact, Sleeps
<1> QED BY <1>1, <1>2, <1>3 DEF SemInv, Dozes

\* Every step preserves the invariant and is a step of the scheduler.
LEMMA SemNextInv == SemInv /\ [SemNext]_semVars => SemInv' /\ [SchedNext]_vars
<1> SUFFICES ASSUME SemInv, [SemNext]_semVars PROVE SemInv' /\ [SchedNext]_vars
  OBVIOUS
<1>0. WaitInv /\ count \in Nat /\ 0 \in 0..MaxTime
  BY TimeAssumption DEF SemInv
<1>1. CASE SemDown
  BY <1>0, <1>1, SemCallInv DEF SemDown
<1>2. ASSUME NEW until \in 1..MaxTime, SemDownTo(until) PROVE SemInv' /\ [SchedNext]_vars
  <2>1. until \in 0..MaxTime
    BY TimeAssumption
  <2> QED BY <1>2, <2>1, SemCallInv DEF SemDownTo
<1>3. CASE SemTake
  BY <1>3, SemTakeInv DEF SemTake
<1>4. CASE SemDownTry \/ IrqDownTry
  BY <1>4, SemTryInv DEF SemDownTry, IrqDownTry
<1>5. CASE SemUp \/ IrqUp
  BY <1>5, SemUpInv
<1>6. ASSUME NEW t \in Thread, SemSpawn(t) PROVE SemInv' /\ [SchedNext]_vars
  <2>1. WaitInv' /\ SchedNext /\ runnable \subseteq runnable'
    BY <1>0, <1>6, SpawnInv, Zenon DEF SemSpawn
  <2> QED BY <1>6, <2>1 DEF SemInv, SemSpawn, waitVars, Dozes
<1>7. CASE SemWait
  <2>1. Available \in BOOLEAN
    BY DEF Available
  <2>2. /\ WaitInv' /\ [SchedNext]_vars
        /\ UNCHANGED <<on, waking>>
        /\ \A t \in Thread : pc'[t] = "out" <=> pc[t] = "out"
        /\ \A t \in Thread : Dozes(t)' => Dozes(t) \/ ~Available
    BY <1>0, <1>7, <2>1, WaitEventInv DEF SemWait
  <2> QED BY <1>0, <1>7, <2>2 DEF SemInv, SemWait, Available
<1>8. CASE SemWake
  <2>1. /\ WaitInv' /\ SchedNext /\ runnable' = runnable \cup {Head(waking)}
        /\ Range(waking') = Range(waking) \ {Head(waking)}
    BY <1>0, <1>8, WakeUpInv DEF SemWake
  <2> QED BY <1>8, <2>1 DEF SemInv, SemWake, WakeUpStep, Dozes
<1>9. CASE SemBackground
  <2>1. WaitInv' /\ SchedNext /\ runnable \subseteq runnable'
    BY <1>0, <1>9, BackgroundInv DEF SemBackground
  <2> QED BY <1>9, <2>1 DEF SemInv, SemBackground, Background, waitVars, Dozes
<1>10. CASE UNCHANGED semVars
  <2>1. UNCHANGED <<vars, waitVars, count>>
    BY <1>10 DEF semVars
  <2>2. WaitInv'
    BY <1>0, <2>1, WaitStutter
  <2> QED BY <2>1, <2>2 DEF SemInv, waitVars, vars, Dozes
<1> QED BY <1>1, <1>2, <1>3, <1>4, <1>5, <1>6, <1>7, <1>8, <1>9, <1>10 DEF SemNext

\* The semaphore's invariant holds in every reachable state, whatever threads and
\* interrupt handlers call it.
THEOREM SemInvariance == SemSpec => []SemInv
BY SemInitInv, SemNextInv, PTL DEF SemSpec

\* uk/semaphore.h uses the scheduler only in the ways its interface permits.
THEOREM SemImplementsSched == SemSpec => SchedSpec
<1>1. SemInit => SchedInit
  BY DEF SemInit, WaitInit
<1> QED BY <1>1, SemInvariance, SemNextInv, PTL DEF SemSpec, SchedSpec

\* No up is missed by a thread that sleeps in down or down_to, whether a thread or an
\* interrupt handler calls it, and wherever the sleeper was when it did.
THEOREM SemNoLostWakeup == SemSpec => []NoLostWakeup
<1>1. SemInv => NoLostWakeup
  BY DEF SemInv, NoLostWakeup, WaitInv, WaitqExact, Sleeps, Dozes
<1> QED BY <1>1, SemInvariance, PTL

\* What the abstract semaphore sees of a step that moves no thread into or out of a call.
LEMMA SemCallKept ==
  ASSUME UNCHANGED <<deadline, count>>,
         \A t \in Thread : pc'[t] = "out" <=> pc[t] = "out"
  PROVE  UNCHANGED AbsSem!absVars
BY DEF AbsSem!absVars, callBar

\* Every step of the semaphore is a step of the abstract one, or invisible.
LEMMA SemStepRefines ==
  SemInv /\ [SemNext]_semVars => [AbsSem!AbsNext]_(AbsSem!absVars)
<1> SUFFICES ASSUME SemInv, [SemNext]_semVars
             PROVE  [AbsSem!AbsNext]_(AbsSem!absVars)
  OBVIOUS
<1>0. /\ WaitInv /\ count \in Nat /\ pc \in [Thread -> Pcs]
      /\ deadline \in [Thread -> 0..MaxTime]
      /\ \A p : At(p) => cur \in Thread /\ pc[cur] = p
  BY DEF SemInv, WaitInv, WaitTypeOK, At, ThreadRuns
<1>1. ASSUME NEW until \in Nat, At("out"), wait_event(Sem, until), UNCHANGED count
      PROVE  AbsSem!Down(cur, IF until = 0 THEN "down" ELSE "down_to")
  <2>1. callBar[cur] = "none"
    BY <1>0, <1>1 DEF callBar
  <2>2. callBar' = [callBar EXCEPT ![cur] = IF until = 0 THEN "down" ELSE "down_to"]
    BY <1>0, <1>1, Zenon DEF wait_event, callBar
  <2> QED BY <1>1, <2>1, <2>2 DEF AbsSem!Down
<1>2. CASE SemDown
  BY <1>0, <1>1, <1>2 DEF SemDown, AbsSem!AbsNext
<1>3. ASSUME NEW until \in 1..MaxTime, SemDownTo(until) PROVE AbsSem!AbsNext
  BY <1>0, <1>1, <1>3, TimeAssumption DEF SemDownTo, AbsSem!AbsNext
<1>4. CASE SemTake
  <2>1. cur \in Thread /\ pc[cur] = "take"
    BY <1>0, <1>4 DEF SemTake
  <2>2. Return => callBar' = [callBar EXCEPT ![cur] = "none"]
    BY <1>0, <2>1, Zenon DEF Return, callBar
  <2>3. CASE Available /\ count' = count - 1 /\ Return
    <3>1. callBar[cur] # "none"
      BY <1>0, <2>1 DEF callBar
    <3>2. AbsSem!Take(cur)
      BY <2>2, <2>3, <3>1 DEF AbsSem!Take, Available
    <3>3. \E c \in Thread : AbsSem!Take(c) \/ AbsSem!GiveUp(c)
      BY <2>1, <3>2
    <3> QED BY <3>3 DEF AbsSem!AbsNext
  <2>4. CASE ~Available /\ DeadlinePassed(cur) /\ UNCHANGED count /\ Return
    <3>1. callBar[cur] = "down_to" /\ count = 0
      BY <1>0, <2>1, <2>4 DEF DeadlinePassed, Available, callBar
    <3>2. AbsSem!GiveUp(cur)
      BY <2>2, <2>4, <3>1 DEF AbsSem!GiveUp
    <3>3. \E c \in Thread : AbsSem!Take(c) \/ AbsSem!GiveUp(c)
      BY <2>1, <3>2
    <3> QED BY <3>3 DEF AbsSem!AbsNext
  <2>5. CASE ~Available /\ ~DeadlinePassed(cur) /\ UNCHANGED count /\ Retry
    <3>1. \A t \in Thread : pc'[t] = "out" <=> pc[t] = "out"
      BY <1>0, <2>1, <2>5 DEF Retry, Goto
    <3> QED BY <2>5, <3>1, SemCallKept DEF Retry
  <2> QED BY <1>4, <2>3, <2>4, <2>5 DEF SemTake
<1>5. CASE SemDownTry \/ IrqDownTry
  <2>1. UNCHANGED callBar
    BY <1>5 DEF SemDownTry, IrqDownTry, waitVars, callBar
  <2>2. CASE Available
    BY <1>5, <2>1, <2>2 DEF SemDownTry, IrqDownTry, Available, AbsSem!Try, AbsSem!AbsNext
  <2>3. CASE ~Available
    BY <1>5, <2>1, <2>3 DEF SemDownTry, IrqDownTry, Available, AbsSem!absVars
  <2> QED BY <2>2, <2>3
<1>6. CASE SemUp \/ IrqUp
  <2>1. UNCHANGED callBar /\ count' = count + 1
    BY <1>6, Zenon DEF SemUp, IrqUp, callBar
  <2> QED BY <2>1 DEF AbsSem!Up, AbsSem!AbsNext
<1>7. CASE SemWait
  <2>1. Available \in BOOLEAN
    BY DEF Available
  <2> QED BY <1>0, <1>7, <2>1, WaitEventInv, SemCallKept DEF SemWait
<1>8. CASE SemWake \/ SemBackground \/ UNCHANGED semVars
  BY <1>8, SemCallKept DEF SemWake, WakeUpStep, SemBackground, Background, waitVars, semVars
<1>9. ASSUME NEW t \in Thread, SemSpawn(t) PROVE UNCHANGED AbsSem!absVars
  BY <1>9, SemCallKept DEF SemSpawn, waitVars
<1> QED BY <1>2, <1>3, <1>4, <1>5, <1>6, <1>7, <1>8, <1>9 DEF SemNext

\* Every call and every return of down, down_to, down_try and up is a step of the
\* abstract semaphore: no token is taken twice, none is lost, and down_to fails only at
\* a moment when there is none.
THEOREM SemImplementsAbs == SemSpec => AtomicSemaphore
<1>1. SemInit => AbsSem!AbsInit
  BY DEF SemInit, WaitInit, AbsSem!AbsInit, callBar
<1> QED BY <1>1, SemInvariance, SemStepRefines, PTL DEF SemSpec, AtomicSemaphore, AbsSem!AbsSpec

-----------------------------------------------------------------------------
(* The mutex.                                                              *)

\* Initially the mutex is free and nobody waits.
LEMMA MutexInitInv == MutexInit => MutexInv
<1> SUFFICES ASSUME MutexInit PROVE MutexInv
  OBVIOUS
<1>1. WaitInv
  BY WaitInitInv DEF MutexInit
<1>2. MutexTypeOK /\ OwnerExact
  BY <1>1, ThreadAssumption DEF MutexInit, MutexTypeOK, OwnerExact, WaitInv
<1> QED BY <1>1, <1>2 DEF MutexInit, MutexInv, WaitInit, Dozes

\* A step that leaves the mutex and the calls alone and puts nobody to sleep.
LEMMA MutexFrame ==
  ASSUME MutexInv, WaitInv', UNCHANGED <<lockVars, on>>,
         \A t \in Thread : pc'[t] = "out" <=> pc[t] = "out",
         \A t \in Thread : Dozes(t)' => (Dozes(t) /\ (t \in Range(waking) => t \in Range(waking')))
                                        \/ ~MayLock(t)
  PROVE  MutexInv'
<1>1. MutexTypeOK' /\ OwnerExact'
  BY DEF MutexInv, MutexTypeOK, OwnerExact, WaitInv, lockVars
<1> QED BY <1>1 DEF MutexInv, MayLock, lockVars

\* The call of uk_mutex_lock.
LEMMA MutexLockInv == MutexInv /\ MutexLock => MutexInv'
<1> SUFFICES ASSUME MutexInv, MutexLock PROVE MutexInv'
  OBVIOUS
<1>1. WaitInv'
  <2>1. 0 \in 0..MaxTime /\ Lock \in Queue
    BY TimeAssumption, MutexAssumption
  <2> QED BY <2>1, CallInv DEF MutexInv, MutexLock
<1>2. cur \in Thread /\ pc \in [Thread -> Pcs] /\ on \in [Thread -> Queue \cup {NoThread}]
  BY DEF MutexLock, At, ThreadRuns, MutexInv, WaitInv, WaitTypeOK
<1>3. MutexTypeOK' /\ OwnerExact'
  BY <1>1 DEF MutexInv, MutexTypeOK, OwnerExact, WaitInv, lockVars, MutexLock
<1> QED BY <1>1, <1>2, <1>3 DEF MutexInv, MutexLock, wait_event, Dozes, MayLock, lockVars, vars

\* Taking the mutex, which is free or held by the running thread.
LEMMA AcquireExact ==
  ASSUME MutexInv, cur \in Thread, MayLock(cur), acquire
  PROVE  /\ lock_count' \in Nat /\ owner' \in Thread \cup {NoThread}
         /\ held' \in [Thread -> Nat] /\ OwnerExact'
         /\ \A t \in Thread : ~MayLock(t) => ~MayLock(t)'
         /\ \A t \in Thread : t # cur => ~MayLock(t)'
<1>1. /\ lock_count \in Nat /\ held \in [Thread -> Nat] /\ cur # NoThread
      /\ lock_count = 0 <=> owner = NoThread
      /\ \A t \in Thread : held[t] = IF t = owner THEN lock_count ELSE 0
  BY ThreadAssumption DEF MutexInv, MutexTypeOK, OwnerExact
<1>2. /\ lock_count' = lock_count + 1 /\ owner' = cur
      /\ held' = [held EXCEPT ![cur] = held[cur] + 1]
  BY DEF acquire
<1>3. held[cur] = lock_count /\ \A t \in Thread : t # cur => held[t] = 0
  BY <1>1 DEF MayLock
<1>4. lock_count' \in Nat /\ lock_count' # 0 /\ held' \in [Thread -> Nat]
  BY <1>1, <1>2
<1>5. OwnerExact'
  BY <1>1, <1>2, <1>3, <1>4 DEF OwnerExact
<1> QED BY <1>1, <1>2, <1>4, <1>5 DEF MayLock

\* The end of uk_mutex_lock.
LEMMA MutexTakeInv == MutexInv /\ MutexTake => MutexInv'
<1> SUFFICES ASSUME MutexInv, MutexTake PROVE MutexInv'
  OBVIOUS
<1>1. WaitInv'
  BY TakeInv DEF MutexInv, MutexTake
<1>2. /\ cur \in Thread /\ pc[cur] = "take" /\ waking' = waking /\ runnable' = runnable
      /\ pc \in [Thread -> Pcs] /\ on \in [Thread -> Queue \cup {NoThread}]
  BY DEF MutexTake, At, ThreadRuns, MutexInv, WaitInv, WaitTypeOK, Return, Retry, vars
<1>3. CASE MayLock(cur) /\ acquire /\ Return
  <2>1. MutexTypeOK' /\ OwnerExact'
    BY <1>1, <1>2, <1>3, AcquireExact DEF MutexTypeOK, WaitInv
  <2>2. \A t \in Thread : ~MayLock(t) => ~MayLock(t)'
    BY <1>2, <1>3, AcquireExact
  <2>3. ASSUME NEW t \in Thread
        PROVE  /\ pc'[t] # "out" => pc[t] # "out" /\ on'[t] = on[t]
               /\ Dozes(t)' => Dozes(t)
    BY <1>2, <1>3 DEF Return, Dozes
  <2> QED BY <1>1, <1>2, <2>1, <2>2, <2>3 DEF MutexInv
<1>4. CASE UNCHANGED lockVars /\ Retry
  <2>1. \A t \in Thread : pc'[t] = "out" <=> pc[t] = "out"
    BY <1>2, <1>4 DEF Retry, Goto
  <2>2. \A t \in Thread : Dozes(t)' => Dozes(t)
    BY <1>2, <1>4 DEF Retry, Goto, Dozes
  <2> QED BY <1>1, <1>2, <1>4, <2>1, <2>2, MutexFrame DEF Retry
<1> QED BY <1>3, <1>4 DEF MutexTake

\* uk_mutex_trylock.
LEMMA MutexTryLockInv == MutexInv /\ MutexTryLock => MutexInv'
<1> SUFFICES ASSUME MutexInv, MutexTryLock PROVE MutexInv'
  OBVIOUS
<1>1. WaitInv'
  BY WaitStutter DEF MutexInv, MutexTryLock
<1>2. cur \in Thread
  BY DEF MutexTryLock, At, ThreadRuns
<1>3. MutexTypeOK' /\ OwnerExact' /\ \A t \in Thread : ~MayLock(t) => ~MayLock(t)'
  BY <1>1, <1>2, AcquireExact DEF MutexTypeOK, WaitInv, MutexTryLock
<1>4. UNCHANGED <<pc, on, waking, runnable>>
  BY DEF MutexTryLock, waitVars, vars
<1> QED BY <1>1, <1>3, <1>4 DEF MutexInv, Dozes

\* uk_mutex_unlock: a waiter that may have missed the release is about to be woken.
LEMMA MutexUnlockInv == MutexInv /\ MutexUnlock => MutexInv'
<1> SUFFICES ASSUME MutexInv, MutexUnlock PROVE MutexInv'
  OBVIOUS
<1>1. /\ cur \in Thread /\ cur # NoThread /\ held[cur] > 0 /\ waking = <<>>
      /\ lock_count \in Nat /\ held \in [Thread -> Nat]
      /\ lock_count = 0 <=> owner = NoThread
      /\ \A t \in Thread : held[t] = IF t = owner THEN lock_count ELSE 0
  BY ThreadAssumption DEF MutexUnlock, At, ThreadRuns, MutexInv, MutexTypeOK, OwnerExact
<1>2. owner = cur /\ held[cur] = lock_count /\ lock_count > 0
  BY <1>1
<1>3. /\ lock_count' = lock_count - 1 /\ held' = [held EXCEPT ![cur] = held[cur] - 1]
      /\ UNCHANGED <<vars, pc, on, deadline, waitq>>
  BY DEF MutexUnlock
<1>4. CASE lock_count = 1 /\ owner' = NoThread /\ wake_up(Lock, FALSE)
  <2>1. WaitInv' /\ runnable' = runnable /\ waking' = waitq[Lock]
    <3>1. WaitInv /\ Lock \in Queue /\ At("out")
      BY MutexAssumption DEF MutexInv, MutexUnlock
    <3> QED BY <1>1, <1>3, <1>4, <3>1, WakeCallInv, Zenon DEF wake_up
  <2>2. MutexTypeOK' /\ OwnerExact'
    BY <1>1, <1>2, <1>3, <1>4, <2>1, ThreadAssumption DEF MutexTypeOK, OwnerExact, WaitInv
  <2>3. ASSUME NEW t \in Thread, Dozes(t) PROVE t \in Range(waitq[Lock])
    BY <2>3 DEF Dozes, MutexInv, WaitInv, WaitqExact, Sleeps
  <2> QED BY <1>3, <2>1, <2>2, <2>3 DEF MutexInv, Dozes
<1>5. CASE lock_count # 1 /\ UNCHANGED <<owner, waking, inIrq>>
  <2>1. WaitInv'
    BY <1>3, <1>5, WaitStutter DEF MutexInv, waitVars
  <2>2. lock_count' \in Nat /\ lock_count' > 0
    BY <1>1, <1>2, <1>3, <1>5
  <2>3. MutexTypeOK' /\ OwnerExact'
    BY <1>1, <1>2, <1>3, <1>5, <2>1, <2>2 DEF MutexTypeOK, OwnerExact, MutexInv, WaitInv
  <2>4. \A t \in Thread : ~MayLock(t) => ~MayLock(t)'
    BY <1>5, <2>2 DEF MayLock
  <2>5. runnable' = runnable
    BY <1>3 DEF vars
  <2> QED BY <1>3, <1>5, <2>1, <2>3, <2>4, <2>5 DEF MutexInv, Dozes
<1> QED BY <1>4, <1>5, Zenon DEF MutexUnlock

\* Every step preserves the invariant and is a step of the scheduler.
LEMMA MutexNextInv == MutexInv /\ [MutexNext]_mutexVars => MutexInv' /\ [SchedNext]_vars
<1> SUFFICES ASSUME MutexInv, [MutexNext]_mutexVars PROVE MutexInv' /\ [SchedNext]_vars
  OBVIOUS
<1>0. WaitInv
  BY DEF MutexInv
<1>1. CASE MutexLock
  BY <1>1, MutexLockInv DEF MutexLock
<1>2. CASE MutexTake
  BY <1>2, MutexTakeInv DEF MutexTake
<1>3. CASE MutexTryLock
  BY <1>3, MutexTryLockInv DEF MutexTryLock
<1>4. CASE MutexUnlock
  BY <1>4, MutexUnlockInv, Zenon DEF MutexUnlock
<1>5. ASSUME NEW t \in Thread, MutexSpawn(t) PROVE MutexInv' /\ [SchedNext]_vars
  <2>1. WaitInv' /\ SchedNext /\ runnable \subseteq runnable'
    BY <1>0, <1>5, SpawnInv, Zenon DEF MutexSpawn
  <2> QED BY <1>5, <2>1, MutexFrame DEF MutexSpawn, waitVars, Dozes
<1>6. CASE MutexWait
  <2>1. MayLock(cur) \in BOOLEAN
    BY DEF MayLock
  <2>2. /\ WaitInv' /\ [SchedNext]_vars /\ UNCHANGED <<on, waking>>
        /\ \A t \in Thread : pc'[t] = "out" <=> pc[t] = "out"
        /\ \A t \in Thread : Dozes(t)' => Dozes(t) \/ (t = cur /\ ~MayLock(cur))
    BY <1>0, <1>6, <2>1, WaitEventInv DEF MutexWait
  <2> QED BY <1>6, <2>2, MutexFrame DEF MutexWait
<1>7. CASE MutexWake
  <2>1. /\ WaitInv' /\ SchedNext /\ runnable' = runnable \cup {Head(waking)}
        /\ Range(waking') = Range(waking) \ {Head(waking)}
    BY <1>0, <1>7, WakeUpInv DEF MutexWake
  <2> QED BY <1>7, <2>1, MutexFrame DEF MutexWake, WakeUpStep, Dozes
<1>8. CASE MutexBackground
  <2>1. WaitInv' /\ SchedNext /\ runnable \subseteq runnable'
    BY <1>0, <1>8, BackgroundInv DEF MutexBackground
  <2> QED BY <1>8, <2>1, MutexFrame DEF MutexBackground, Background, waitVars, Dozes
<1>9. CASE MutexIrqWake
  <2>1. WaitInv' /\ SchedNext /\ runnable \subseteq runnable'
    BY <1>0, <1>9, IrqWakeInv DEF MutexIrqWake
  <2> QED BY <1>9, <2>1, MutexFrame DEF MutexIrqWake, waitVars, Dozes
<1>10. CASE UNCHANGED mutexVars
  <2>1. UNCHANGED <<vars, waitVars, lockVars>>
    BY <1>10 DEF mutexVars, lockVars
  <2>2. WaitInv'
    BY <1>0, <2>1, WaitStutter
  <2> QED BY <2>1, <2>2, MutexFrame DEF waitVars, vars, Dozes
<1> QED BY <1>1, <1>2, <1>3, <1>4, <1>5, <1>6, <1>7, <1>8, <1>9, <1>10 DEF MutexNext

\* The mutex's invariant holds in every reachable state: owner and lock_count say who
\* holds the mutex and how often, and nobody else does.
THEOREM MutexInvariance == MutexSpec => []MutexInv
BY MutexInitInv, MutexNextInv, PTL DEF MutexSpec

\* uk/mutex.h uses the scheduler only in the ways its interface permits.
THEOREM MutexImplementsSched == MutexSpec => SchedSpec
<1>1. MutexInit => SchedInit
  BY DEF MutexInit, WaitInit
<1> QED BY <1>1, MutexInvariance, MutexNextInv, PTL DEF MutexSpec, SchedSpec

\* No release is missed by a thread that sleeps in uk_mutex_lock.
THEOREM MutexNoWakeupLost == MutexSpec => []MutexNoLostWakeup
<1>1. MutexInv => MutexNoLostWakeup
  <2> SUFFICES ASSUME MutexInv, NEW t \in Thread, Sleeps(t), t \notin Range(waking)
               PROVE  t \in Range(waitq[Lock]) /\ lock_count > 0 /\ owner # t
    BY DEF MutexNoLostWakeup
  <2>1. t \in Range(waitq[Lock]) /\ ~MayLock(t)
    BY DEF MutexInv, WaitInv, WaitqExact, Sleeps, Dozes
  <2> QED BY <2>1 DEF MayLock, MutexInv, MutexTypeOK
<1> QED BY <1>1, MutexInvariance, PTL

\* Every step of the mutex is a step of the abstract one, or invisible.
LEMMA MutexStepRefines ==
  MutexInv /\ [MutexNext]_mutexVars => [AbsMutex!AbsNext]_(AbsMutex!absVars)
<1> SUFFICES ASSUME MutexInv, [MutexNext]_mutexVars
             PROVE  [AbsMutex!AbsNext]_(AbsMutex!absVars)
  OBVIOUS
<1>0. /\ WaitInv /\ pc \in [Thread -> Pcs] /\ held \in [Thread -> Nat] /\ lock_count \in Nat
      /\ lock_count = 0 <=> owner = NoThread
      /\ \A t \in Thread : held[t] = IF t = owner THEN lock_count ELSE 0
      /\ \A p : At(p) => cur \in Thread /\ pc[cur] = p
  BY DEF MutexInv, WaitInv, WaitTypeOK, MutexTypeOK, OwnerExact, At, ThreadRuns
<1>1. MayLock(cur) /\ cur \in Thread => AbsMutex!FreeFor(cur)
  BY <1>0, ThreadAssumption DEF MayLock, AbsMutex!FreeFor
<1>2. ASSUME \A t \in Thread : pc'[t] = "out" <=> pc[t] = "out", UNCHANGED held
      PROVE  UNCHANGED AbsMutex!absVars
  BY <1>2 DEF AbsMutex!absVars
<1>3. CASE MutexLock
  <2>1. AbsMutex!Want(cur)
    BY <1>0, <1>3 DEF MutexLock, wait_event, lockVars, AbsMutex!Want
  <2>2. \E c \in Thread : AbsMutex!Want(c)
    BY <1>0, <1>3, <2>1 DEF MutexLock, AbsMutex!Want
  <2> QED BY <2>2 DEF AbsMutex!AbsNext
<1>4. CASE MutexTake
  <2>1. cur \in Thread /\ pc[cur] = "take"
    BY <1>0, <1>4 DEF MutexTake
  <2>2. CASE MayLock(cur) /\ acquire /\ Return
    <3>1. AbsMutex!Acquire(cur)
      BY <1>0, <1>1, <2>1, <2>2 DEF acquire, Return, AbsMutex!Acquire
    <3>2. \E c \in Thread : AbsMutex!Acquire(c)
      BY <2>1, <3>1, Zenon DEF AbsMutex!Acquire
    <3> QED BY <3>2 DEF AbsMutex!AbsNext
  <2>3. CASE UNCHANGED lockVars /\ Retry
    BY <1>0, <1>2, <2>1, <2>3 DEF Retry, Goto, lockVars
  <2> QED BY <1>4, <2>2, <2>3 DEF MutexTake
<1>5. CASE MutexTryLock
  <2>1. AbsMutex!Try(cur)
    BY <1>0, <1>1, <1>5 DEF MutexTryLock, acquire, waitVars, AbsMutex!Try
  <2>2. \E c \in Thread : AbsMutex!Try(c)
    BY <1>0, <1>5, <2>1 DEF MutexTryLock
  <2> QED BY <2>2 DEF AbsMutex!AbsNext
<1>6. CASE MutexUnlock
  <2>1. AbsMutex!Release(cur)
    BY <1>6 DEF MutexUnlock, AbsMutex!Release
  <2> QED BY <1>0, <1>6, <2>1 DEF MutexUnlock, AbsMutex!AbsNext
<1>7. CASE MutexWait
  <2>1. MayLock(cur) \in BOOLEAN
    BY DEF MayLock
  <2> QED BY <1>0, <1>2, <1>7, <2>1, WaitEventInv DEF MutexWait, lockVars
<1>8. CASE MutexWake \/ MutexBackground \/ MutexIrqWake \/ UNCHANGED mutexVars
  BY <1>2, <1>8 DEF MutexWake, WakeUpStep, MutexBackground, Background, MutexIrqWake,
     waitVars, mutexVars, lockVars
<1>9. ASSUME NEW t \in Thread, MutexSpawn(t) PROVE UNCHANGED AbsMutex!absVars
  BY <1>2, <1>9 DEF MutexSpawn, waitVars, lockVars
<1> QED BY <1>3, <1>4, <1>5, <1>6, <1>7, <1>8, <1>9 DEF MutexNext

\* Every call and every return of uk_mutex_lock, trylock and unlock is a step of the
\* abstract mutex: nobody acquires it while another thread holds it.
THEOREM MutexImplementsAbs == MutexSpec => AbsMutex!AbsSpec
<1>1. MutexInit => AbsMutex!AbsInit
  BY DEF MutexInit, WaitInit, AbsMutex!AbsInit
<1> QED BY <1>1, MutexInvariance, MutexStepRefines, PTL DEF MutexSpec, AbsMutex!AbsSpec

-----------------------------------------------------------------------------
(* Creation, exit, kill, join and detach, as long as no thread is killed   *)
(* inside wait_event.                                                      *)

\* Initially there is one thread, which waits for nothing.
LEMMA ThreadsInitInv == ThreadsInit => ThreadsInv
<1> SUFFICES ASSUME ThreadsInit PROVE ThreadsInv
  OBVIOUS
<1>1. WaitInv
  BY WaitInitInv DEF ThreadsInit
<1>2. ThreadsTypeOK /\ JoinSound
  BY <1>1, Zenon DEF ThreadsInit, WaitInit, ThreadsTypeOK, JoinSound, WaitInv
<1> QED BY <1>1, <1>2 DEF ThreadsInit, WaitInit, ThreadsInv, JoinCalls, JoinWoken, Dozes

\* A step that leaves the calls and the lives of the joined threads alone, signals
\* nothing and puts nobody to sleep.
LEMMA ThreadsFrame ==
  ASSUME ThreadsInv, WaitInv', UNCHANGED <<avail, on, deadline, isExited>>,
         \A t \in Thread : pc'[t] = "out" <=> pc[t] = "out",
         \A t \in Thread : pc'[t] \in {"deq", "take"} =>
           pc[t] \in {"deq", "take"} \/ Condition(on[t]),
         \A t \in Thread : pc[t] # "out" /\ on[t] # Ev => on[t] \in alive' \ detached',
         \A t \in Thread : Dozes(t)' => (Dozes(t) /\ (t \in Range(waking) => t \in Range(waking')))
                                        \/ ~Condition(on[t])
  PROVE  ThreadsInv'
<1>1. ThreadsTypeOK'
  BY ZenonT(30) DEF ThreadsInv, ThreadsTypeOK, WaitInv
<1>2. JoinSound'
  BY DEF ThreadsInv, JoinSound, Condition
<1>3. \A t \in Thread : Condition(on[t])' = Condition(on[t])
  BY DEF Condition
<1>4. JoinCalls'
  BY DEF ThreadsInv, JoinCalls
<1>5. JoinWoken'
  BY <1>3, Zenon DEF ThreadsInv, JoinWoken
<1> QED BY <1>1, <1>2, <1>4, <1>5, Zenon DEF ThreadsInv

\* uk_sched_thread_create: nobody waits for the new thread, or on its behalf.
LEMMA ThreadCreateInv ==
  ASSUME ThreadsInv, NEW t \in Thread, NEW d \in BOOLEAN, ThreadCreate(t, d)
  PROVE  ThreadsInv' /\ SchedNext
<1>0. /\ WaitInv /\ t \in Queue /\ t # Ev /\ waking = <<>> /\ t \notin alive
      /\ pc \in [Thread -> Pcs] /\ waitq \in [Queue -> Seq(Thread)]
  BY ThreadsAssumption DEF ThreadsInv, WaitInv, WaitTypeOK, ThreadCreate, Create, At
<1>1. SchedNext
  BY DEF ThreadCreate, SchedNext, ThreadStep
<1>2. IInv'
  BY <1>0, <1>1, NextInv DEF WaitInv
<1>3. /\ pc[t] = "out" /\ pc' = pc
      /\ UNCHANGED <<on, deadline, waking, inIrq, avail, cur, mode, removing>>
      /\ waitq' = [waitq EXCEPT ![t] = <<>>]
      /\ runnable' = runnable \cup {t} /\ alive' = alive \cup {t}
      /\ isExited' = isExited \ {t} /\ detached' \subseteq detached \cup {t}
  <2>1. pc[t] = "out"
    BY <1>0 DEF WaitInv, WaiterSound
  <2> QED BY <1>0, <2>1 DEF ThreadCreate, Create, cpuVars
<1>4. \A u \in Thread : pc[u] # "out" => on[u] # t
  BY <1>0 DEF ThreadsInv, JoinSound
<1>5. WaitInv'
  <2>1. WaitTypeOK'
    BY <1>0, <1>2, <1>3 DEF WaitInv, WaitTypeOK, IInv
  <2>2. IsInjective(<<>>) /\ Range(<<>>) = {}
    BY DEF IsInjective, Range
  <2>3. \A q \in Queue : waitq'[q] = IF q = t THEN <<>> ELSE waitq[q]
    BY <1>0, <1>3
  <2>4. \A u \in Thread : Sleeps(u)' => Sleeps(u)
    BY <1>3 DEF Sleeps
  <2>5. (\A u \in Thread : pc[u] \in {"chk", "yield", "deq"} \/ Sleeps(u)
                             => u \in Range(waitq[on[u]]))'
    <3> SUFFICES ASSUME NEW u \in Thread, pc[u] \in {"chk", "yield", "deq"} \/ Sleeps(u)
                 PROVE  u \in Range(waitq'[on[u]])
      BY <1>3, <2>4
    <3>1. pc[u] # "out" /\ on[u] \in Queue /\ on[u] # t
      BY <1>0, <1>4, Zenon DEF Sleeps, WaitInv, WaiterSound
    <3> QED BY <1>0, <2>3, <3>1 DEF WaitInv, WaitqExact
  <2>6. (\A q \in Queue : IsInjective(waitq[q]))'
    BY <1>0, <2>2, <2>3, Zenon DEF WaitInv, WaitqExact
  <2>7. (\A q \in Queue : \A u \in Range(waitq[q]) :
          on[u] = q /\ pc[u] \in {"enq", "chk", "yield", "deq"})'
    BY <1>0, <1>3, <2>2, <2>3 DEF WaitInv, WaitqExact
  <2>8. WaitqExact'
    BY <2>5, <2>6, <2>7 DEF WaitqExact
  <2>9. WaiterSound'
    BY <1>0, <1>3 DEF WaitInv, WaiterSound, Executing
  <2>10. WakeUpSound'
    BY <1>0, <1>3 DEF WaitInv, WakeUpSound
  <2> QED BY <1>2, <2>1, <2>8, <2>9, <2>10, ZenonT(30) DEF WaitInv
<1>6. ThreadsTypeOK'
  BY <1>3, <1>5 DEF ThreadsInv, ThreadsTypeOK, WaitInv
<1>7. JoinSound'
  BY <1>3, <1>4 DEF ThreadsInv, JoinSound
<1>8. \A u \in Thread : Dozes(u)' => Dozes(u)
  BY <1>3 DEF Dozes
<1>9. \A u \in Thread : ~Condition(on[u]) => ~Condition(on[u])'
  BY <1>3 DEF Condition
<1>10. JoinCalls'
  BY <1>3 DEF ThreadsInv, JoinCalls
<1>11. JoinWoken'
  BY <1>3, <1>8, <1>9, Zenon DEF ThreadsInv, JoinWoken
<1> QED BY <1>1, <1>5, <1>6, <1>7, <1>10, <1>11, Zenon DEF ThreadsInv

\* uk_thread_wait is called, on a thread that exists, is not detached and that nobody
\* waits for; or the bottom half begins to wait for the event.
LEMMA ThreadWaitInv ==
  ASSUME ThreadsInv, NEW q \in Thread \cup {Ev}, At("out"), wait_event(q, 0),
         q # Ev => q \in alive \ detached /\ ~Joined(q),
         UNCHANGED <<vars, avail>>
  PROVE  ThreadsInv'
<1>0. /\ WaitInv /\ q \in Queue /\ 0 \in 0..MaxTime /\ cur \in Thread
      /\ pc \in [Thread -> Pcs] /\ on \in [Thread -> Queue \cup {NoThread}]
      /\ deadline \in [Thread -> 0..MaxTime]
  BY ThreadsAssumption, TimeAssumption
     DEF ThreadsInv, WaitInv, WaitTypeOK, At, ThreadRuns
<1>1. WaitInv'
  BY <1>0, CallInv
<1>2. ThreadsTypeOK'
  BY <1>1, Zenon DEF ThreadsInv, ThreadsTypeOK, WaitInv
<1>3. /\ pc' = [pc EXCEPT ![cur] = "test"] /\ on' = [on EXCEPT ![cur] = q]
      /\ deadline' = [deadline EXCEPT ![cur] = 0] /\ waking' = waking
      /\ UNCHANGED <<alive, detached, isExited, runnable, avail>>
  BY DEF wait_event, vars
<1>4. JoinSound'
  <2> SUFFICES ASSUME NEW t \in Thread, pc'[t] # "out", on'[t] # Ev
               PROVE  /\ on'[t] \in alive \ detached
                      /\ \A u \in Thread : pc'[u] # "out" /\ on'[u] = on'[t] => u = t
                      /\ pc'[t] \in {"deq", "take"} => on'[t] \in isExited
    BY <1>3 DEF JoinSound
  <2>1. CASE t = cur
    BY <1>0, <1>3, <2>1 DEF Joined
  <2>2. CASE t # cur
    <3>1. pc[t] # "out" /\ on[t] # Ev /\ on'[t] = on[t] /\ pc'[t] = pc[t]
      BY <1>0, <1>3, <2>2
    <3>2. on[t] # q
      BY <3>1 DEF Joined
    <3> QED BY <1>0, <1>3, <3>1, <3>2 DEF ThreadsInv, JoinSound
  <2> QED BY <2>1, <2>2, Zenon
<1>5. ASSUME NEW t \in Thread
      PROVE  /\ deadline'[t] = 0
             /\ pc'[t] # "out" => on'[t] \in Thread \cup {Ev}
             /\ Dozes(t)' => Dozes(t) /\ on'[t] = on[t]
  BY <1>0, <1>3 DEF ThreadsInv, JoinCalls, Dozes
<1>6. JoinCalls'
  BY <1>5, Zenon DEF JoinCalls
<1>7. JoinWoken'
  BY <1>3, <1>5 DEF ThreadsInv, JoinWoken, Condition
<1> QED BY <1>1, <1>2, <1>4, <1>6, <1>7, Zenon DEF ThreadsInv

\* uk_thread_wait ends: the joined thread has exited, and nobody else waits for it.
LEMMA ThreadJoinedInv == ThreadsInv /\ ThreadJoined => ThreadsInv' /\ SchedNext
<1> SUFFICES ASSUME ThreadsInv, ThreadJoined PROVE ThreadsInv' /\ SchedNext
  OBVIOUS
<1> DEFINE d == on[cur]
<1>0. /\ WaitInv /\ cur \in Thread /\ pc[cur] = "take" /\ d # Ev /\ waking = <<>> /\ d \in Thread
      /\ pc \in [Thread -> Pcs] /\ on \in [Thread -> Queue \cup {NoThread}]
      /\ deadline \in [Thread -> 0..MaxTime]
  BY DEF ThreadsInv, JoinCalls, WaitInv, WaitTypeOK, ThreadJoined, At, ThreadRuns
<1>1. SchedNext
  BY <1>0 DEF ThreadJoined, SchedNext, ThreadStep
<1>2. IInv'
  BY <1>0, <1>1, NextInv DEF WaitInv
<1>3. /\ d \in isExited
      /\ \A u \in Thread : u # cur /\ pc[u] # "out" => on[u] # d /\ u # d
  BY <1>0 DEF ThreadsInv, JoinSound, WaitInv, WaiterSound
<1>4. /\ pc' = [pc EXCEPT ![cur] = "out"] /\ on' = [on EXCEPT ![cur] = NoThread]
      /\ deadline' = [deadline EXCEPT ![cur] = 0]
      /\ UNCHANGED <<waitq, waking, inIrq, avail, cur, mode, removing, runnable, isExited>>
      /\ alive' = alive \ {d} /\ detached' = detached \cup {d}
  BY DEF ThreadJoined, Return, Destroy, thread_destroy, cpuVars
<1> HIDE DEF d
<1>5. WaitInv'
  <2>1. WaitTypeOK'
    <3>1. 0 \in 0..MaxTime
      BY TimeAssumption
    <3> QED BY <1>0, <1>2, <1>4, <3>1 DEF WaitInv, WaitTypeOK, IInv, Pcs
  <2>2. \A q \in Queue : \A u \in Range(waitq[q]) : u \in Thread /\ u # cur
    BY <1>0 DEF WaitInv, WaitTypeOK, WaitqExact, Range
  <2>3. (\A q \in Queue : \A u \in Range(waitq[q]) :
          on[u] = q /\ pc[u] \in {"enq", "chk", "yield", "deq"})'
    BY <1>0, <1>4, <2>2 DEF WaitInv, WaitqExact
  <2>4. (\A u \in Thread : pc[u] \in {"chk", "yield", "deq"} \/ Sleeps(u)
                             => u \in Range(waitq[on[u]]))'
    BY <1>0, <1>4 DEF WaitInv, WaitqExact, Sleeps
  <2>5. WaitqExact'
    BY <1>0, <1>4, <2>3, <2>4 DEF WaitInv, WaitqExact
  <2>6. WaiterSound'
    BY <1>0, <1>3, <1>4 DEF WaitInv, WaiterSound, Executing
  <2>7. WakeUpSound'
    BY <1>0, <1>4 DEF WaitInv, WakeUpSound, Range
  <2> QED BY <1>2, <2>1, <2>5, <2>6, <2>7 DEF WaitInv
<1>6. ThreadsTypeOK'
  BY <1>4, <1>5 DEF ThreadsInv, ThreadsTypeOK, WaitInv
<1>7. ASSUME NEW t \in Thread
      PROVE  /\ deadline'[t] = 0
             /\ pc'[t] # "out" => t # cur /\ pc'[t] = pc[t] /\ on'[t] = on[t]
             /\ Dozes(t)' => Dozes(t) /\ on'[t] = on[t]
  BY <1>0, <1>4 DEF ThreadsInv, JoinCalls, Dozes
<1>8. JoinSound'
  BY <1>3, <1>4, <1>7 DEF ThreadsInv, JoinSound
<1>9. JoinCalls'
  BY <1>7, Zenon DEF ThreadsInv, JoinCalls
<1>10. JoinWoken'
  BY <1>4, <1>7 DEF ThreadsInv, JoinWoken, Condition
<1> QED BY <1>1, <1>5, <1>6, <1>8, <1>9, <1>10, Zenon DEF ThreadsInv

\* Exit, or kill of a thread that is not inside wait_event, up to set_exited: whoever
\* waits for the thread is about to be woken.
LEMMA ThreadRemoveInv ==
  ASSUME ThreadsInv, NEW t \in Thread, pc[t] = "out", At("out"), thread_remove(t),
         UNCHANGED avail
  PROVE  ThreadsInv' /\ SchedNext
<1>0. WaitInv /\ t \in Queue /\ t # Ev /\ t # NoThread /\ waking = <<>>
  BY ThreadsAssumption, ThreadAssumption DEF ThreadsInv, At
<1>1. SchedNext
  BY Zenon DEF thread_remove, SchedNext, ThreadStep
<1>2. IInv'
  BY <1>0, <1>1, NextInv DEF WaitInv
<1>3. /\ UNCHANGED <<pc, on, deadline, waitq, cur, mode, alive, detached>>
      /\ removing' = t /\ runnable' = runnable \ {t} /\ isExited' = isExited \cup {t}
      /\ waking' = (IF t \in detached THEN <<>> ELSE waitq[t]) /\ inIrq' = FALSE
  BY Zenon DEF thread_remove, RemoveBegin
<1>4. IsInjective(<<>>) /\ Range(<<>>) = {} /\ <<>> \in Seq(Thread)
  BY DEF IsInjective, Range
<1>5. WaitInv'
  <2>1. WaitTypeOK'
    BY <1>0, <1>2, <1>3, <1>4, Zenon DEF WaitInv, WaitTypeOK, IInv
  <2>2. WaitqExact'
    BY <1>0, <1>3 DEF WaitInv, WaitqExact, Sleeps
  <2>3. WaiterSound'
    <3>1. Executing' => Executing /\ cur # t
      BY <1>3, RunnerAlive, <1>0 DEF Executing, At
    <3> QED BY <1>0, <1>3, <3>1 DEF WaitInv, WaiterSound
  <2>4. WakeUpSound'
    <3>1. IsInjective(waking') /\ \A u \in Range(waking') : pc'[u] # "out"
      <4>1. CASE t \in detached
        BY <1>3, <1>4, <4>1, Zenon
      <4>2. CASE t \notin detached
        <5>1. waking' = waitq[t] /\ pc' = pc
          BY <1>3, <4>2
        <5> QED BY <1>0, <5>1, Zenon DEF WaitInv, WaitqExact
      <4> QED BY <4>1, <4>2
    <3> QED BY <1>0, <1>3, <3>1, Zenon DEF WakeUpSound
  <2> QED BY <1>2, <2>1, <2>2, <2>3, <2>4 DEF WaitInv
<1>6. ThreadsTypeOK'
  BY <1>5, Zenon DEF ThreadsInv, ThreadsTypeOK, WaitInv
<1>7. JoinSound'
  <2>1. UNCHANGED <<pc, on, alive, detached>> /\ isExited \subseteq isExited'
    BY <1>3
  <2> QED BY <2>1, Zenon DEF ThreadsInv, JoinSound
<1>8. ASSUME NEW u \in Thread, Dozes(u)'
      PROVE  u \in Range(waking') \/ ~Condition(on[u])'
  <2>1. u # t /\ Dozes(u)
    BY <1>3, <1>8 DEF Dozes
  <2>2. CASE on[u] = t
    <3>1. t \notin detached
      BY <1>0, <2>1, <2>2, ZenonT(30) DEF ThreadsInv, JoinSound, Dozes
    <3>2. u \in Range(waitq[t])
      BY <1>0, <2>1, <2>2 DEF Dozes, WaitInv, WaitqExact, Sleeps
    <3> QED BY <1>3, <3>1, <3>2
  <2>3. CASE on[u] # t
    <3>1. Range(waking) = {}
      BY <1>0, <1>4
    <3>2. ~Condition(on[u])
      BY <2>1, <3>1 DEF ThreadsInv, JoinWoken
    <3> QED BY <1>3, <2>3, <3>2, Zenon DEF Condition
  <2> QED BY <2>2, <2>3
<1>9. JoinCalls'
  BY <1>3 DEF ThreadsInv, JoinCalls
<1>10. JoinWoken'
  BY <1>3, <1>8, Zenon DEF JoinWoken
<1> QED BY <1>1, <1>5, <1>6, <1>7, <1>9, <1>10, Zenon DEF ThreadsInv

\* Beside the calls only detached threads are freed, and nobody exits.
LEMMA BackgroundLives ==
  ASSUME Background
  PROVE  UNCHANGED <<isExited, detached>> /\ alive \ detached \subseteq alive'
<1> USE DEF lifeVars, timeVars, cpuVars
<1>1. CASE SchedulerStep
  <2>1. CASE PickNext \/ PickPrev \/ Halt \/ HaltPending \/ Switch \/ ReapDone
    BY <2>1 DEF PickNext, PickPrev, Halt, HaltPending, Switch, ReapDone
  <2>2. ASSUME NEW t \in Thread, WakeExpired(t)
        PROVE  UNCHANGED <<isExited, detached>> /\ alive \ detached \subseteq alive'
    BY <2>2 DEF WakeExpired
  <2>3. ASSUME NEW t \in Thread, Reap(t)
        PROVE  UNCHANGED <<isExited, detached>> /\ alive \ detached \subseteq alive'
    BY <2>3 DEF Reap, Reapable, thread_destroy
  <2> QED BY <1>1, <2>1, <2>2, <2>3, ZenonT(30) DEF SchedulerStep
<1>2. CASE IdleLoop \/ Tick \/ HaltTimeout \/ IrqOther \/ Yield
  BY <1>2 DEF IdleLoop, Tick, HaltTimeout, IrqOther, Yield
<1> QED BY <1>1, <1>2 DEF Background

\* uk_thread_detach, of a thread that nobody joins, and the end of a removal.
LEMMA ThreadDetachInv ==
  ASSUME ThreadsInv, NEW t \in Thread, ThreadDetach(t)
  PROVE  ThreadsInv' /\ SchedNext
<1>1. SchedNext
  BY DEF ThreadDetach, SchedNext, ThreadStep
<1>2. WaitInv /\ IInv' /\ waking = <<>>
  BY <1>1, NextInv, Zenon DEF ThreadsInv, WaitInv, ThreadDetach, At
<1>3. /\ UNCHANGED <<waitVars, avail, runnable, alive, isExited, cur, mode, removing>>
      /\ detached' = detached \cup {t}
  BY DEF ThreadDetach, Detach, cpuVars
<1>4. WaitInv'
  <2>1. \A u \in Thread : pc[u] # "out" => u \in alive' \ isExited'
    BY <1>2, <1>3, Zenon DEF WaitInv, WaiterSound
  <2>2. Executing' => cur' = cur /\ Executing
    BY <1>3 DEF Executing
  <2>3. runnable \subseteq runnable'
    BY <1>3, Zenon
  <2> QED BY <1>2, <1>3, <2>1, <2>2, <2>3, WaitFrame, Zenon
<1>5. \A u \in Thread : pc[u] # "out" => on[u] # t
  BY DEF ThreadDetach, Joined
<1>6. \A u \in Thread : pc[u] # "out" /\ on[u] # Ev => on[u] \in alive' \ detached'
  BY <1>3, <1>5, Zenon DEF ThreadsInv, JoinSound
<1> QED BY <1>1, <1>3, <1>4, <1>6, ThreadsFrame, Zenon DEF waitVars, Dozes

LEMMA ThreadRemovedInv == ThreadsInv /\ ThreadRemoved => ThreadsInv' /\ SchedNext
<1> SUFFICES ASSUME ThreadsInv, ThreadRemoved PROVE ThreadsInv' /\ SchedNext
  OBVIOUS
<1>1. SchedNext
  BY DEF ThreadRemoved, SchedNext, ThreadStep
<1>2. WaitInv /\ IInv' /\ waking = <<>>
  BY <1>1, NextInv, Zenon DEF ThreadsInv, WaitInv, ThreadRemoved
<1>3. /\ UNCHANGED <<waitVars, avail, runnable, alive, isExited, detached, cur>>
      /\ Executing' => Executing
  BY DEF ThreadRemoved, RemoveEnd, ExitSchedule, lifeVars, Executing
<1>4. WaitInv'
  <2>1. \A u \in Thread : pc[u] # "out" => u \in alive' \ isExited'
    BY <1>2, <1>3 DEF WaitInv, WaiterSound
  <2>2. cur' = cur /\ runnable \subseteq runnable'
    BY <1>3
  <2> QED BY <1>2, <1>3, <2>1, <2>2, WaitFrame, Zenon
<1> QED BY <1>1, <1>3, <1>4, ThreadsFrame, Zenon DEF waitVars, Dozes, ThreadsInv, JoinSound

\* The bottom half takes the event; and the interrupt handler announces one, which
\* wakes whoever sleeps for it.
LEMMA EventTakeInv == ThreadsInv /\ EventTake => ThreadsInv'
<1> SUFFICES ASSUME ThreadsInv, EventTake PROVE ThreadsInv'
  OBVIOUS
<1>0. /\ WaitInv /\ cur \in Thread /\ pc \in [Thread -> Pcs]
      /\ on \in [Thread -> Queue \cup {NoThread}] /\ deadline \in [Thread -> 0..MaxTime]
  BY DEF ThreadsInv, WaitInv, WaitTypeOK, EventTake, At, ThreadRuns
<1>1. WaitInv'
  BY <1>0, TakeInv DEF EventTake
<1>2. /\ pc' = [pc EXCEPT ![cur] = "out"] /\ on' = [on EXCEPT ![cur] = NoThread]
      /\ deadline' = [deadline EXCEPT ![cur] = 0] /\ waking' = waking /\ avail' = FALSE
      /\ UNCHANGED <<alive, detached, isExited, runnable>>
  BY DEF EventTake, Return, vars
<1>3. ThreadsTypeOK'
  BY <1>1, <1>2, Zenon DEF ThreadsTypeOK, WaitInv
<1>4. ASSUME NEW t \in Thread
      PROVE  /\ deadline'[t] = 0
             /\ pc'[t] # "out" => pc'[t] = pc[t] /\ on'[t] = on[t]
             /\ Dozes(t)' => Dozes(t) /\ on'[t] = on[t]
  BY <1>0, <1>2 DEF ThreadsInv, JoinCalls, Dozes
<1>5. JoinSound'
  BY <1>2, <1>4 DEF ThreadsInv, JoinSound
<1>6. JoinCalls'
  BY <1>4, Zenon DEF ThreadsInv, JoinCalls
<1>7. JoinWoken'
  BY <1>2, <1>4 DEF ThreadsInv, JoinWoken, Condition
<1> QED BY <1>1, <1>3, <1>5, <1>6, <1>7, Zenon DEF ThreadsInv

LEMMA IrqEventInv == ThreadsInv /\ IrqEvent => ThreadsInv' /\ [SchedNext]_vars
<1> SUFFICES ASSUME ThreadsInv, IrqEvent PROVE ThreadsInv' /\ [SchedNext]_vars
  OBVIOUS
<1>0. WaitInv /\ Ev \in Queue /\ waking = <<>> /\ Range(waking) = {}
  BY ThreadsAssumption DEF ThreadsInv, IrqEvent, Range
<1>1. WaitInv' /\ [SchedNext]_vars /\ runnable' = runnable /\ waking' = waitq[Ev]
  BY <1>0, WakeCallInv DEF IrqEvent, wake_up
<1>2. UNCHANGED <<pc, on, deadline, alive, isExited, detached>> /\ avail' = TRUE
  BY DEF IrqEvent, IrqOther, lifeVars
<1>3. ThreadsTypeOK' /\ JoinSound'
  BY <1>1, <1>2 DEF ThreadsInv, ThreadsTypeOK, JoinSound, WaitInv
<1>4. ASSUME NEW t \in Thread, Dozes(t)'
      PROVE  t \in Range(waking') \/ ~Condition(on[t])'
  <2>1. Dozes(t)
    BY <1>1, <1>2, <1>4 DEF Dozes
  <2>2. CASE on[t] = Ev
    BY <1>0, <1>1, <2>1, <2>2, Zenon DEF Dozes, WaitInv, WaitqExact, Sleeps
  <2>3. CASE on[t] # Ev
    BY <1>0, <1>2, <2>1, <2>3, Zenon DEF ThreadsInv, JoinWoken, Condition
  <2> QED BY <2>2, <2>3
<1>5. JoinCalls'
  BY <1>2 DEF ThreadsInv, JoinCalls
<1>6. JoinWoken'
  BY <1>4, Zenon DEF JoinWoken
<1> QED BY <1>1, <1>3, <1>5, <1>6, Zenon DEF ThreadsInv

\* Every step preserves the invariant and is a step of the scheduler.
LEMMA ThreadsNextInv ==
  ASSUME ~KillWaiters
  PROVE  ThreadsInv /\ [ThreadsNext]_threadVars => ThreadsInv' /\ [SchedNext]_vars
<1> SUFFICES ASSUME ThreadsInv, [ThreadsNext]_threadVars
             PROVE  ThreadsInv' /\ [SchedNext]_vars
  OBVIOUS
<1>0. WaitInv
  BY DEF ThreadsInv
<1>1. CASE ThreadJoined
  BY <1>1, ThreadJoinedInv
<1>2. CASE ThreadExit
  <2>1. cur \in Thread /\ pc[cur] = "out"
    BY <1>2 DEF ThreadExit, At, ThreadRuns
  <2> QED BY <1>2, <2>1, ThreadRemoveInv DEF ThreadExit
<1>3. CASE ThreadRemoved
  BY <1>3, ThreadRemovedInv
<1>4. CASE EventWait
  BY <1>4, ThreadWaitInv DEF EventWait
<1>5. CASE EventTake
  BY <1>5, EventTakeInv DEF EventTake
<1>6. CASE IrqEvent
  BY <1>6, IrqEventInv
<1>7. ASSUME NEW t \in Thread, ThreadWait(t) PROVE ThreadsInv' /\ [SchedNext]_vars
  BY <1>7, ThreadWaitInv DEF ThreadWait
<1>8. ASSUME NEW t \in Thread, ThreadDetach(t) PROVE ThreadsInv' /\ [SchedNext]_vars
  BY <1>8, ThreadDetachInv
<1>9. ASSUME NEW t \in Thread, ThreadKill(t) PROVE ThreadsInv' /\ [SchedNext]_vars
  BY <1>9, ThreadRemoveInv DEF ThreadKill
<1>10. ASSUME NEW t \in Thread, NEW d \in BOOLEAN, ThreadCreate(t, d)
       PROVE  ThreadsInv' /\ [SchedNext]_vars
  BY <1>10, ThreadCreateInv
<1>11. CASE ThreadsWait
  <2>1. Condition(on[cur]) \in BOOLEAN
    <3>1. avail \in BOOLEAN
      BY DEF ThreadsInv, ThreadsTypeOK
    <3>2. CASE on[cur] = Ev
      BY <3>1, <3>2, Zenon DEF Condition
    <3>3. CASE on[cur] # Ev
      <4>1. (on[cur] \in isExited) \in BOOLEAN
        OBVIOUS
      <4> QED BY <3>3, <4>1, Zenon DEF Condition
    <3> QED BY <3>2, <3>3
  <2>2. /\ WaitInv' /\ [SchedNext]_vars
        /\ waking = <<>> /\ cur \in Thread
        /\ UNCHANGED <<on, deadline, waking, lifeVars>>
        /\ \A t \in Thread : pc'[t] = "out" <=> pc[t] = "out"
        /\ \A t \in Thread : pc'[t] \in {"deq", "take"} =>
             pc[t] \in {"deq", "take"} \/ (t = cur /\ (Condition(on[cur]) \/ DeadlinePassed(cur)))
        /\ \A t \in Thread : Dozes(t)' => Dozes(t) \/ (t = cur /\ ~Condition(on[cur]))
    BY <1>0, <1>11, <2>1, WaitEventInv, Zenon DEF ThreadsWait
  <2>3. ~DeadlinePassed(cur)
    <3>1. deadline[cur] = 0
      BY <2>2, Zenon DEF ThreadsInv, JoinCalls
    <3> QED BY <3>1 DEF DeadlinePassed
  <2>4. UNCHANGED <<isExited, alive, detached, avail>>
    BY <1>11, <2>2 DEF ThreadsWait, lifeVars
  <2>5. \A t \in Thread : pc[t] # "out" /\ on[t] # Ev => on[t] \in alive' \ detached'
    BY <2>4, Zenon DEF ThreadsInv, JoinSound
  <2> QED BY <2>2, <2>3, <2>4, <2>5, ThreadsFrame, Zenon
<1>12. CASE ThreadsWake
  <2>1. /\ WaitInv' /\ SchedNext /\ runnable' = runnable \cup {Head(waking)}
        /\ Range(waking') = Range(waking) \ {Head(waking)}
    BY <1>0, <1>12, WakeUpInv DEF ThreadsWake
  <2>2. UNCHANGED <<pc, on, deadline, isExited, alive, detached, avail>>
    BY <1>12 DEF ThreadsWake, WakeUpStep, lifeVars
  <2>3. \A t \in Thread : pc[t] # "out" /\ on[t] # Ev => on[t] \in alive' \ detached'
    BY <2>2, Zenon DEF ThreadsInv, JoinSound
  <2>4. \A t \in Thread : Dozes(t)' => Dozes(t) /\ (t \in Range(waking) => t \in Range(waking'))
    BY <2>1, <2>2 DEF Dozes
  <2> QED BY <2>1, <2>2, <2>3, <2>4, ThreadsFrame, Zenon
<1>13. CASE ThreadsBackground
  <2>1. WaitInv' /\ SchedNext /\ runnable \subseteq runnable'
    BY <1>0, <1>13, BackgroundInv DEF ThreadsBackground
  <2>2. /\ UNCHANGED <<waitVars, avail, isExited, detached>> /\ alive \ detached \subseteq alive'
    BY <1>13, BackgroundLives DEF ThreadsBackground, Background
  <2>3. \A t \in Thread : pc[t] # "out" /\ on[t] # Ev => on[t] \in alive' \ detached'
    BY <2>2, Zenon DEF ThreadsInv, JoinSound
  <2>4. \A t \in Thread : Dozes(t)' => Dozes(t)
    BY <2>1, <2>2 DEF Dozes, waitVars
  <2>5. UNCHANGED <<pc, on, deadline, waking>>
    BY <2>2 DEF waitVars
  <2> QED BY <2>1, <2>2, <2>3, <2>4, <2>5, ThreadsFrame, Zenon
<1>14. CASE UNCHANGED threadVars
  <2>1. UNCHANGED <<vars, waitVars, avail>>
    BY <1>14 DEF threadVars
  <2>2. WaitInv'
    BY <1>0, <2>1, WaitStutter
  <2>3. \A t \in Thread : pc[t] # "out" /\ on[t] # Ev => on[t] \in alive' \ detached'
    BY <2>1, Zenon DEF ThreadsInv, JoinSound, vars
  <2> QED BY <2>1, <2>2, <2>3, ThreadsFrame, Zenon DEF waitVars, vars, Dozes
<1> QED BY <1>1, <1>2, <1>3, <1>4, <1>5, <1>6, <1>7, <1>8, <1>9, <1>10, <1>11, <1>12,
           <1>13, <1>14 DEF ThreadsNext

\* As long as nobody kills a thread that waits, every join is sound in every reachable
\* state: the joined thread is neither freed nor destroyed before it has exited.
THEOREM ThreadsInvariance == ASSUME ~KillWaiters PROVE ThreadsSpec => []ThreadsInv
BY ThreadsInitInv, ThreadsNextInv, PTL DEF ThreadsSpec

\* Threads that create, exit, kill, join and detach use the scheduler only in the ways
\* its interface permits.
THEOREM ThreadsImplementSched == ASSUME ~KillWaiters PROVE ThreadsSpec => SchedSpec
<1>1. ThreadsInit => SchedInit
  BY DEF ThreadsInit, WaitInit
<1> QED BY <1>1, ThreadsInvariance, ThreadsNextInv, PTL DEF ThreadsSpec, SchedSpec

\* No exit is missed by the thread that waits for it in uk_thread_wait, and no event by
\* the bottom half, wherever they are in the loop of wait_event when it happens.
THEOREM ThreadsNoLostWakeup == ASSUME ~KillWaiters PROVE ThreadsSpec => []JoinNoLostWakeup
<1>1. ThreadsInv => JoinNoLostWakeup
  BY Zenon DEF ThreadsInv, JoinWoken, JoinNoLostWakeup, Sleeps, Dozes, WaitInv, IInv, TypeOK
<1> QED BY <1>1, ThreadsInvariance, PTL
=============================================================================

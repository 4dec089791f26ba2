------------------------------- MODULE Mutex -------------------------------
(***************************************************************************)
(* Recursive mutexes (lib/uklock, uk/mutex.h), used by any number of       *)
(* threads.  A thread unlocks only what it has locked: uk_mutex_unlock     *)
(* does not look at the owner.                                             *)
(***************************************************************************)
EXTENDS WaitQueue

CONSTANTS Lock,     \* the mutex's wait queue
          MaxDepth  \* bound on the calls of lock a thread nests

ASSUME MutexAssumption == Lock \in Queue /\ MaxDepth \in Nat

VARIABLES lock_count, owner,  \* the fields of struct uk_mutex
          held                \* calls of lock and trylock that succeeded, less
                              \* calls of unlock, as each thread counts them

mutexVars == <<vars, waitVars, lock_count, owner, held>>

lockVars == <<lock_count, owner, held>>

BadMayLock(t) == lock_count = 0 \/ owner # t

MayLock(t) == lock_count = 0 \/ owner = t

-----------------------------------------------------------------------------
\* uk_mutex_lock.
MutexLock ==
  /\ At("out")
  /\ held[cur] < MaxDepth
  /\ wait_event(Lock, 0)
  /\ UNCHANGED <<vars, lockVars>>

acquire ==
  /\ lock_count' = lock_count + 1
  /\ owner' = cur
  /\ held' = [held EXCEPT ![cur] = @ + 1]

\* The section with interrupts off that ends uk_mutex_lock.
MutexTake ==
  /\ At("take")
  /\ \/ MayLock(cur) /\ acquire /\ Return
     \/ ~MayLock(cur) /\ UNCHANGED lockVars /\ Retry
  /\ UNCHANGED vars

\* uk_mutex_trylock; when it fails it leaves no trace.
MutexTryLock ==
  /\ At("out")
  /\ held[cur] < MaxDepth
  /\ MayLock(cur)
  /\ acquire
  /\ UNCHANGED <<vars, waitVars>>

BadMutexUnlock ==  \* owner is cleared and waiters are woken at every level
  /\ At("out")
  /\ held[cur] > 0
  /\ held' = [held EXCEPT ![cur] = @ - 1]
  /\ lock_count' = 0 /\ owner' = NoThread
  /\ wake_up(Lock, FALSE)
  /\ UNCHANGED <<vars, pc, on, deadline, waitq>>

BadMutexUnlockQuiet ==  \* the waiters are not woken
  /\ At("out")
  /\ held[cur] > 0
  /\ held' = [held EXCEPT ![cur] = @ - 1]
  /\ lock_count' = lock_count - 1
  /\ owner' = IF lock_count = 1 THEN NoThread ELSE owner
  /\ UNCHANGED <<vars, waitVars>>

\* uk_mutex_unlock.
MutexUnlock ==
  /\ At("out")
  /\ held[cur] > 0
  /\ held' = [held EXCEPT ![cur] = @ - 1]
  /\ lock_count' = lock_count - 1
  /\ \/ lock_count = 1 /\ owner' = NoThread /\ wake_up(Lock, FALSE)
     \/ lock_count # 1 /\ UNCHANGED <<owner, waking, inIrq>>
  /\ UNCHANGED <<vars, pc, on, deadline, waitq>>

\* A thread that uses the mutex is created.
MutexSpawn(t) ==
  /\ At("out")
  /\ Create(t, FALSE)
  /\ UNCHANGED <<waitVars, lockVars>>

MutexInit ==
  /\ WaitInit
  /\ lock_count = 0 /\ owner = NoThread
  /\ held = [t \in Thread |-> 0]

MutexWait == WaitEvent(MayLock(cur)) /\ UNCHANGED lockVars
MutexWake == WakeUpStep /\ UNCHANGED lockVars
MutexBackground == Background /\ UNCHANGED lockVars

\* An interrupt handler wakes a thread that waits for the mutex, for a reason of
\* its own: the waiter has to cope with it.
MutexIrqWake ==
  /\ waking = <<>>
  /\ \E t \in Thread, me \in IrqCurrent : IrqWake(t, me)
  /\ UNCHANGED <<waitVars, lockVars>>

MutexNext ==
  \/ MutexLock \/ MutexTake \/ MutexTryLock \/ MutexUnlock
  \/ \E t \in Thread : MutexSpawn(t)
  \/ MutexWait \/ MutexWake \/ MutexBackground \/ MutexIrqWake

MutexSpec == MutexInit /\ [][MutexNext]_mutexVars

(***************************************************************************)
(* The fairness of SchedCoop, and that the code of a call and of a wake_up *)
(* loop is executed.  No unlock is assumed to happen.                      *)
(***************************************************************************)
MutexFairness ==
  /\ WF_mutexVars(MutexWait) /\ WF_mutexVars(MutexTake) /\ WF_mutexVars(MutexWake)
  /\ WF_mutexVars(MutexBackground /\ (SchedulerStep \/ IdleLoop))
  /\ SF_mutexVars(MutexBackground /\ Yield)

FairMutexSpec == MutexSpec /\ MutexFairness

-----------------------------------------------------------------------------
MutexTypeOK ==
  /\ WaitTypeOK
  /\ lock_count \in Nat /\ owner \in Thread \cup {NoThread}
  /\ held \in [Thread -> Nat]

\* The owner field and the count describe who holds the mutex and how often, and
\* nobody else does: mutual exclusion, also across recursive calls.
OwnerExact ==
  /\ lock_count = 0 <=> owner = NoThread
  /\ \A t \in Thread : held[t] = IF t = owner THEN lock_count ELSE 0

\* No lost wake-up: while a thread sleeps in uk_mutex_lock the mutex is held by
\* another one, unless unlock is about to wake the sleeper.
MutexNoLostWakeup ==
  \A t \in Thread :
    Sleeps(t) => \/ t \in Range(waking)
                 \/ t \in Range(waitq[Lock]) /\ lock_count > 0 /\ owner # t

\* The fields have their types, owner and lock_count tell who holds the mutex, the
\* scheduler and the wait queues are consistent, nobody waits on another queue, and a
\* thread that found the mutex taken and is going to sleep, or sleeps, misses no unlock.
MutexInv ==
  /\ WaitInv /\ MutexTypeOK /\ OwnerExact
  /\ \A t \in Thread :
       /\ pc[t] # "out" => on[t] = Lock
       /\ Dozes(t) => t \in Range(waking) \/ ~MayLock(t)

AbsMutex == INSTANCE MutexAbs
              WITH Caller <- Thread, wants <- {t \in Thread : pc[t] # "out"}

\* Every call and every return is a step of the abstract mutex, and under the scheduler's
\* fairness a mutex that is released is acquired again by one of the threads that wait
\* for it.
LiveMutex == AbsMutex!AbsSpec /\ AbsMutex!AbsFairness
=============================================================================

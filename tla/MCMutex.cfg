SPECIFICATION FairMutexSpec
CONSTANTS
  Thread = {m, a, b}
  Main = m
  Idle = idle
  NoThread = none
  Lock = lock
  Queue = {lock}
  MaxDepth = 2
  MaxTime = 0
INVARIANTS
  MutexInv
  MutexNoLostWakeup
PROPERTIES
  LiveMutex

SPECIFICATION FairThreadsSpec
CONSTANTS
  Thread = {m, a}
  Main = m
  Idle = idle
  NoThread = none
  Ev = ev
  Queue = {m, a, ev}
  KillWaiters = FALSE
  MaxTime = 0
PROPERTIES
  JoinReturns
  DetachedFreed

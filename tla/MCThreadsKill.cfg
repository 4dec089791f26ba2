SPECIFICATION ThreadsSpec
CONSTANTS
  Thread = {m, a, b}
  Main = m
  Idle = idle
  NoThread = none
  Ev = ev
  Queue = {m, a, b, ev}
  KillWaiters = TRUE
  MaxTime = 0
SYMMETRY OtherThreads
INVARIANT ScheduleAsserts

SPECIFICATION SchedSpec
CONSTANTS
  Thread = {m, a, b}
  Main = m
  Idle = idle
  NoThread = none
  MaxTime = 2
SYMMETRY OtherThreads
INVARIANTS
  IInv
  ScheduleAsserts
PROPERTY RunQueueFifo

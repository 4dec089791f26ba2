SPECIFICATION SemSpec
CONSTANTS
  Thread = {m, a, b}
  Main = m
  Idle = idle
  NoThread = none
  Sem = sem
  Queue = {sem}
  InitCount = 0
  MaxCount = 2
  IrqTakes = TRUE
  MaxTime = 2
SYMMETRY OtherThreads
INVARIANTS
  SemInv
  NoLostWakeup
PROPERTIES
  SchedSpec
  AtomicSemaphore

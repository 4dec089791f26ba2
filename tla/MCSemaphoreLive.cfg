SPECIFICATION FairSemSpec
CONSTANTS
  Thread = {m, a}
  Main = m
  Idle = idle
  NoThread = none
  Sem = sem
  Queue = {sem}
  InitCount = 0
  MaxCount = 1
  IrqTakes = FALSE
  MaxTime = 2
PROPERTIES
  LiveSemaphore

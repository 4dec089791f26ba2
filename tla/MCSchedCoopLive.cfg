SPECIFICATION FairSchedSpec
CONSTANTS
  Thread = {m, a}
  Main = m
  Idle = idle
  NoThread = none
  MaxTime = 2
PROPERTIES
  ReadyRuns
  SleeperWakes

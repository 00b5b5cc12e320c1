\* The shell may start further shells, so that several programs execute others
\* and the memory fills up.  Calls are not interrupted.
SPECIFICATION FairSpec
CONSTANTS
  Pcb = {0, 1, 2}
  NULL = NULL
  Idle = Idle
  Segs = {0, 1, 2}
  Files = {"shell", "uprog1", "uprog4"}
  Names = {"shell", "uprog1", "uprog4"}
  Calls <- ShippedCalls
  SleepArgs = {1}
  KillArgs = {}
  TicksPerSecond = 2
  Windows = {}
PROPERTIES
  ReadyRuns
  SleeperWakes

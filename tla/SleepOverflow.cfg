\* 263 seconds at 125 ticks a second do not fit into an int.
SPECIFICATION Spec
\* A corrupted kernel stops the model.
CHECK_DEADLOCK FALSE
CONSTANTS
  Pcb = {0, 1, 2}
  NULL = NULL
  Idle = Idle
  Segs = {0, 1, 2}
  Files = {"shell", "uprog1", "uprog4"}
  Names = {"uprog4"}
  Calls <- ShippedCalls
  SleepArgs = {263}
  KillArgs = {}
  TicksPerSecond = 125
  Windows = {}
PROPERTIES
  SleepLasts

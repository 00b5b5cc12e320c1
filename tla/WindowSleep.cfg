\* The timer strikes inside sleep, before the counter is set.
SPECIFICATION Spec
\* A corrupted kernel stops the model.
CHECK_DEADLOCK FALSE
CONSTANTS
  Pcb = {0, 1, 2}
  NULL = NULL
  Idle = Idle
  Segs = {0, 1, 2}
  Files = {"shell", "uprog1", "uprog4"}
  Names = {"uprog4"}
  Calls <- ShippedCalls
  SleepArgs = {1}
  KillArgs = {}
  TicksPerSecond = 2
  Windows = {"setCounter"}
PROPERTIES
  SleepLasts

\* The shell kills the only process in the queue.
SPECIFICATION Spec
\* A corrupted kernel stops the model.
CHECK_DEADLOCK FALSE
CONSTANTS
  Pcb = {0, 1, 2}
  NULL = NULL
  Idle = Idle
  Segs = {0, 1, 2}
  Files = {"shell", "uprog1"}
  Names = {"uprog1"}
  Calls <- KillCalls
  SleepArgs = {1}
  KillArgs = {1}
  TicksPerSecond = 2
  Windows = {}
PROPERTIES
  DeadStayDead

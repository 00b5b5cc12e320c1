\* A disk without a shell: the ready queue is empty at the first tick.
SPECIFICATION Spec
\* A processor that executes garbage stops the model.
CHECK_DEADLOCK FALSE
CONSTANTS
  Pcb = {0, 1, 2}
  NULL = NULL
  Idle = Idle
  Segs = {0, 1, 2}
  Files = {"uprog1"}
  Names = {"uprog1"}
  Calls <- ShippedCalls
  SleepArgs = {1}
  KillArgs = {}
  TicksPerSecond = 2
  Windows = {}
INVARIANTS
  FrameValid

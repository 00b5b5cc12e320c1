\* Two shells execute programs; the timer strikes between the test and the
\* mark of getFreeMemorySegment.
SPECIFICATION Spec
\* A corrupted kernel stops the model.
CHECK_DEADLOCK FALSE
CONSTANTS
  Pcb = {0, 1, 2}
  NULL = NULL
  Idle = Idle
  Segs = {0, 1, 2}
  Files = {"shell", "uprog1", "uprog4"}
  Names = {"shell", "uprog1"}
  Calls <- ShippedCalls
  SleepArgs = {1}
  KillArgs = {}
  TicksPerSecond = 2
  Windows = {"takeSegment"}
INVARIANTS
  SegmentExclusive

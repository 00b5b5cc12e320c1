\* The timer strikes inside terminate, the segment already given back: another
\* program is loaded into it, and when no PCB is left for that one, the segment
\* stays taken for ever.
SPECIFICATION Spec
\* A corrupted kernel stops the model.
CHECK_DEADLOCK FALSE
CONSTANTS
  Pcb = {0, 1, 2}
  NULL = NULL
  Idle = Idle
  Segs = {0, 1, 2}
  Files = {"shell", "uprog1"}
  Names = {"uprog1"}
  Calls <- ShippedCalls
  SleepArgs = {1}
  KillArgs = {}
  TicksPerSecond = 2
  Windows = {"releasePcb"}
INVARIANTS
  SegmentExclusive
  MemoryAccounted

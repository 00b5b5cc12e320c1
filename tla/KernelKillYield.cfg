\* Segment 1 holds a program that kills itself or one that yields for ever;
\* segment 2 is always empty.
SPECIFICATION Spec
CONSTANTS
  Pcb = {0, 1, 2}
  NULL = NULL
  Idle = Idle
  Segs = {0, 1}
  Files = {"shell", "uprog1", "uprog4"}
  Names = {"uprog1", "uprog4"}
  Calls <- KillYieldCalls
  SleepArgs = {}
  KillArgs = {1, 2}
  TicksPerSecond = 2
  Windows = {}
INVARIANTS
  MemoryAccounted
PROPERTIES
  DeadStayDead

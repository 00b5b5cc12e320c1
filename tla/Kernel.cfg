\* The programs of the project: three processes, three segments, sleeps of two
\* and four ticks.  The timer may strike between any two steps of a call except
\* in the three windows of the Window* runs.
SPECIFICATION Spec
CONSTANTS
  Pcb = {0, 1, 2}
  NULL = NULL
  Idle = Idle
  Segs = {0, 1, 2}
  Files = {"shell", "uprog1", "uprog4"}
  Names = {"uprog1", "uprog4", "nofile"}
  Calls <- ShippedCalls
  SleepArgs = {1, 2}
  KillArgs = {}
  TicksPerSecond = 2
  Windows = {"findSegment", "takeSegment", "load", "findPcb", "takePcb", "initPcb", "publish", "int8"}
INVARIANTS
  TypeOK
  WellDefined
  QueueExact
  MemoryAccounted
PROPERTIES
  SleepLasts
  ImplementsScheduler

\* Entries 1 to 5 and 7 of the memory map are taken: the program goes to
\* segment 0x8000.
SPECIFICATION Spec
\* A corrupted kernel stops the model.
CHECK_DEADLOCK FALSE
CONSTANTS
  Pcb = {0, 1, 2}
  NULL = NULL
  Idle = Idle
  Segs = {0, 6}
  Files = {"shell", "uprog1"}
  Names = {"uprog1"}
  Calls <- ShippedCalls
  SleepArgs = {1}
  KillArgs = {}
  TicksPerSecond = 2
  Windows = {}
INVARIANTS
  NoWildAccess

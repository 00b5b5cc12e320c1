\* The timer may strike inside the releasePCB of kill.
SPECIFICATION Spec
CONSTANTS
  Pcb = {0, 1, 2, 3}
  NULL = NULL
  Idle = Idle
  Calls <- KillingShell
  Windows = {"headNext", "headPrev", "middleNext", "middlePrev"}
  EndWindows = {}
CHECK_DEADLOCK FALSE
INVARIANTS
  NoNullDereference

\* The timer may also strike between the statements of addToReady.
SPECIFICATION Spec
CONSTANTS
  Pcb = {0, 1, 2}
  NULL = NULL
  Idle = Idle
  Calls <- KillingShell
  Windows = {"firstHead", "secondNext", "secondTail", "lastPrev", "lastNext", "lastTail"}
  EndWindows = {}
CHECK_DEADLOCK FALSE
INVARIANTS
  ListExact

\* The shell, which starts and kills, and up to three programs.  The timer
\* strikes anywhere in the releasePCB of terminate; in addToReady and in the
\* releasePCB of kill only where that is harmless.
SPECIFICATION Spec
CONSTANTS
  Pcb = {0, 1, 2, 3}
  NULL = NULL
  Idle = Idle
  Calls <- KillingShell
  Windows = {"add", "clearNext", "clearPrev"}
  EndWindows = {"release", "where", "headNext", "headPrev"}
INVARIANTS
  ListExact
PROPERTIES
  StatementsAgree

\* A shell that reads keys, and two programs that sleep; one may be killed.
SPECIFICATION FairSpec
CONSTANTS
  Proc = {p0, p1, p2}
  Sleepers = {p1, p2}
  Enders = {p1}
  Victims = {p2}
  MaxKeys = 3
  KeyboardSize = 2
  None = None
INVARIANTS
  TypeOK
  OneKeyHandler
  KeysInOrder
PROPERTIES
  KeysArrive

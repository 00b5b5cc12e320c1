\* A program is killed while it has a key in hand.
SPECIFICATION Spec
CONSTANTS
  Proc = {p0, p1, p2}
  Sleepers = {p1, p2}
  Enders = {}
  Victims = {p2}
  MaxKeys = 3
  KeyboardSize = 2
  None = None
INVARIANTS
  KeyboardWorks

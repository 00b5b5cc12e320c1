\* The map has entries for more sectors than the byte that lists a sector holds.
SPECIFICATION Spec
CONSTANTS
  Proc = {p1, p2}
  Name = {a, b}
  NoName = NoName
  System = KERNEL
  NSectors = 8
  NSystem = 4
  NEntries = 3
  MaxSectors = 3
  ByteRange = 5
  Sizes <- ShortSizes
  LoadSizes = {1}
  Value = {x, y}
  Blank = Blank
  Absent = Absent
  MayOverlap <- ReadersAndWriter
  Exposed = {}
CHECK_DEADLOCK FALSE
SYMMETRY Symmetry
INVARIANTS
  SystemIntact

\* Two processes; a file may be read while it is written.  The power may fail
\* anywhere but between the two last steps of writeFile.
SPECIFICATION Spec
CONSTANTS
  Proc = {p1, p2}
  Name = {a, b}
  NoName = NoName
  System = KERNEL
  NSectors = 7
  NSystem = 4
  NEntries = 3
  MaxSectors = 3
  ByteRange = 256
  Sizes <- ShortSizes
  LoadSizes = {1, 2}
  Value = {x, y}
  Blank = Blank
  Absent = Absent
  MayOverlap <- ReadersAndWriter
  Exposed = {}
SYMMETRY Symmetry
INVARIANTS
  NoCrossLink
  ListedAreUsed
  ReadWhole
PROPERTIES
  ImplementsFileStore
  OnlyRewritesLose

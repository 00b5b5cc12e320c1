\* Three tracks of two heads and one sector of the next.
SPECIFICATION DiskSpec
CONSTANT DiskSize = 109
INVARIANTS
  DiskTypeOK
  RightPlace
PROPERTY
  LoopEnds

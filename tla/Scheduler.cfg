SPECIFICATION FairSpec
CONSTANTS
  Pcb = {p1, p2, p3}
  Seg = {s1, s2, s3}
  Idle = Idle
  NoSeg = NoSeg
INVARIANTS
  TypeOK
  ReadyExact
  OneRunning
  SegmentExclusive
PROPERTIES
  NoStarvation

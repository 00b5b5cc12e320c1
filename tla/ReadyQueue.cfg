\* Four PCBs: the empty, one-element, two-element and longer cases of proc.c,
\* a middle element with neighbours on both sides, and one PCB outside.
SPECIFICATION Spec
CONSTANTS
  Pcb = {p1, p2, p3, p4}
  NULL = NULL
INVARIANTS
  TypeOK
  ListIntact
  LastLeadsToHead
  NoNullDereference
PROPERTIES
  ImplementsFifo

\* Two tests, a pick and two compressions, cancelled at any moment.
SPECIFICATION Spec
CONSTANTS
  t1 = t1
  t2 = t2
  p1 = p1
  c1 = c1
  c2 = c2
  Op <- AllOps
  Tab <- Tabs
  None = None
  MayThrow = TRUE
INVARIANTS
  TypeOK
  CompressExclusive
  LockedForAReason
  OnlyNeighboursStop
PROPERTIES
  OthersReport
CHECK_DEADLOCK FALSE

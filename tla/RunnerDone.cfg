\* A test operation cancelled in the queue.
SPECIFICATION Spec
CONSTANTS
  t1 = t1
  t2 = t2
  p1 = p1
  c1 = c1
  c2 = c2
  Op <- TestOps
  Tab <- TestTab
  None = None
  MayThrow = FALSE
PROPERTIES
  DoneRuns
CHECK_DEADLOCK FALSE

SPECIFICATION Spec
CONSTANTS
  Pids = {p1, p2, p3, p4}
  NoPid = nopid
  Paths = {x1, x2}
  NoPath = nopath
  RootArgs = {x1, nopath}
  ChildArgs = {x1, x2, nopath}
SYMMETRY Interchangeable
INVARIANTS TypeOK FileIsOwners ShutdownLeavesNoFile TreeInv
PROPERTY RemovedByItsCreator
CHECK_DEADLOCK FALSE

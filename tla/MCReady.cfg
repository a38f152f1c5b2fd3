SPECIFICATION Spec
CONSTANTS
  Pids = {p1, p2, p3}
  NoPid = nopid
  Paths = {x1}
  NoPath = nopath
  RootArgs = {nopath}
  ChildArgs = {x1}
INVARIANT ReadyWhileServing
CHECK_DEADLOCK FALSE

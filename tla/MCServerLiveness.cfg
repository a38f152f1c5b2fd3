SPECIFICATION FairSpec
CONSTANTS
  Clients = {c1, c2}
  NoConn = none
  Requests = {"Spawn"}
  MaxClients = 1
  MaxRequests = 2
  Pids = {p1, p2}
  NoPid = nopid
  ReplyQueue = 1
  HalfClosing = {c1}
  Terminations = {"TERM"}
  Faults = {}
PROPERTIES RequestsTaken BacklogServed ChildrenCollected ClosedAreDropped
CHECK_DEADLOCK FALSE

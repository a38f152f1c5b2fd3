SPECIFICATION Spec
CONSTANTS
  Clients = {c1, c2}
  NoConn = none
  Requests = {"Stat"}
  MaxClients = 2
  MaxRequests = 1
  Pids = {p1}
  NoPid = nopid
  ReplyQueue = 1
  HalfClosing = {}
  Terminations = {"TERM"}
  Faults = {}
INVARIANT ServesUntilAsked
CHECK_DEADLOCK FALSE

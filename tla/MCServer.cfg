SPECIFICATION Spec
CONSTANTS
  Clients = {c1, c2, c3}
  NoConn = none
  Requests = {"Spawn", "Stat", "Exit", "Wrong", "Garbage"}
  MaxClients = 2
  MaxRequests = 2
  Pids = {p1, p2}
  NoPid = nopid
  ReplyQueue = 1
  HalfClosing = {}
  Terminations = {}
  Faults = {"fork", "stat", "accept"}
SYMMETRY Interchangeable
INVARIANTS TypeOK EventsAreFresh TablesAgree ServerInv AnswersInOrder NoChildForgotten
PROPERTY ImplementsService
CHECK_DEADLOCK FALSE

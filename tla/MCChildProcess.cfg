\* Every server init may start, and every message its clients may send it,
\* one after the other.
SPECIFICATION Spec
CONSTANTS
  Caps <- MCCaps
  UnknownBit = "b63"
  GID_VECTOR_SIZE = 2
  RLIMIT_VECTOR_SIZE = 2
  MESSAGE_ARG_BUFFER_MAX = 1
  AID_APP_START = 10
  Starts <- MCStarts
  Messages <- MCMessages
  Resources <- MCResources
  PanicEnds <- MCPanicEnds
  KillEnds <- MCKillEnds
  AppEnds <- MCAppEnds
  MaxSubspecies = 1
INVARIANT TypeOK
INVARIANT LibrariesLoadedAsAsked
INVARIANT ServesAsStarted
INVARIANT ParamsSurviveWire
INVARIANT ServerSurvives
INVARIANT RunsAsAsked
INVARIANT NoExtraPrivilege
INVARIANT PrivilegesSuffice
INVARIANT Confined
INVARIANT StatusTruthful
INVARIANT SpawningInv
PROPERTY ChildSettles
\* Init may start a server that cannot take on its configured ids, and an
\* exec-spawned process ends with its application.
CHECK_DEADLOCK FALSE

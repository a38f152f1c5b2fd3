SPECIFICATION Spec
CONSTANTS
  MaxFd = 12
  HasLogger = TRUE
  Faults <- Nothing
  InheritedTables <- LoggerFirst
  LibraryOpens <- Nothing
  SpeciateOpens <- Nothing
  MaxClients = 2
  MaxDepth = 1
PROPERTY ShutdownClosesAll
CHECK_DEADLOCK FALSE

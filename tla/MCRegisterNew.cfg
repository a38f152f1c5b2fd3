SPECIFICATION Spec
CONSTANTS
  MaxFd = 13
  HasLogger = TRUE
  Faults <- Nothing
  InheritedTables <- LoggerFirst
  LibraryOpens <- Nothing
  SpeciateOpens <- PreloadFiles
  MaxClients = 2
  MaxDepth = 2
PROPERTY RegisterNewLeavesNone
CHECK_DEADLOCK FALSE

SPECIFICATION Spec
CONSTANTS
  MaxFd = 12
  HasLogger = TRUE
  Faults <- SetupFaults
  InheritedTables <- LoggerStarts
  LibraryOpens <- Nothing
  SpeciateOpens <- PreloadAnything
  MaxClients = 2
  MaxDepth = 2
INVARIANTS TypeOK ServesOwnDescriptors RegistryMatchesTable ParentEpollUntouched
CHECK_DEADLOCK FALSE

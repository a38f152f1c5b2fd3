SPECIFICATION Spec
CONSTANTS
  MaxFd = 12
  HasLogger = FALSE
  Faults <- Nothing
  InheritedTables <- PlainStarts
  LibraryOpens <- Nothing
  SpeciateOpens <- Nothing
  MaxClients = 1
  MaxDepth = 1
INVARIANT ChildFilesAreUnique
CHECK_DEADLOCK FALSE

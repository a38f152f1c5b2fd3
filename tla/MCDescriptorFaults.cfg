SPECIFICATION Spec
CONSTANTS
  MaxFd = 12
  HasLogger = FALSE
  Faults <- AllFaults
  InheritedTables <- PlainStarts
  LibraryOpens <- PreloadAnything
  SpeciateOpens <- PreloadAnything
  MaxClients = 2
  MaxDepth = 2
INVARIANTS ChildHoldsNoServerDescriptor DescriptorInv RootChildFilesAreUnique
PROPERTY RootShutdownClosesAll
CHECK_DEADLOCK FALSE

SPECIFICATION Spec
CONSTANTS
  MaxFd = 5
  HasLogger = FALSE
  Faults = {"reopen"}
  RegistrySize = 5
  OpenKinds = {"File", "Client"}
  CallerActions = {"Close", "CloseUnlessSpawnSubspecies"}
INVARIANTS TypeOK RegistryInv AuditDecides
PROPERTY ImplementsMap
CHECK_DEADLOCK FALSE

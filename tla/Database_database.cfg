SPECIFICATION FairSpec
CONSTANTS
  NumAccounts = 2
  NumImages = 2
  MaxEdits = 2
  MaxFaults = 1
CHECK_DEADLOCK FALSE
INVARIANTS
  TypeOK
  SchemaFirst
  ConfigAccountWorks
  PodsConnect
PROPERTIES
  DatabaseSettles
  DeletionLetsGo

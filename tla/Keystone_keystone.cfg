SPECIFICATION FairSpec
CONSTANTS
  NumServices = 2
  MaxAPIs = 2
  MaxEdits = 1
  MaxFaults = 2
CHECK_DEADLOCK FALSE
INVARIANTS
  TypeOK
  HeldByTheLiving
PROPERTIES
  CatalogueFollows
  NothingLeft

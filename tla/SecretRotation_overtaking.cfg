SPECIFICATION FairSpec
CONSTANTS
  NumServices = 1
  MaxTransport = 3
  MaxNotif = 0
  MaxAC = 0
  MaxEdits = 0
  MaxFaults = 1
  MaxOutages = 0
  Deletable = TRUE
  Patient = FALSE
CHECK_DEADLOCK FALSE
INVARIANTS
  PublishedClaimed
  AppliedIsRunning
  NothingStranded
PROPERTIES
  RotationCompletes
  DeletionReleasesAll

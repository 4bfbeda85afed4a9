SPECIFICATION Spec
CONSTANTS
  NumServices = 2
  MaxTransport = 2
  MaxNotif = 1
  MaxAC = 0
  MaxEdits = 2
  MaxFaults = 0
  MaxOutages = 0
  Deletable = FALSE
  Patient = TRUE
CHECK_DEADLOCK FALSE
INVARIANTS
  TypeOK
  InUseClaimed
PROPERTIES
  ReleaseAfterRollout
  NotifReleaseAfterRollout
  LeasesKept

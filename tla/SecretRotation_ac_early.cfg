SPECIFICATION Spec
CONSTANTS
  NumServices = 1
  MaxTransport = 1
  MaxNotif = 0
  MaxAC = 2
  MaxEdits = 1
  MaxFaults = 0
  MaxOutages = 0
  Deletable = FALSE
  Patient = TRUE
CHECK_DEADLOCK FALSE
PROPERTIES
  ACReleaseAfterRollout

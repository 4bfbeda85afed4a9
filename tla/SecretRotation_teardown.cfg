SPECIFICATION FairSpec
CONSTANTS
  NumServices = 1
  MaxTransport = 1
  MaxNotif = 1
  MaxAC = 0
  MaxEdits = 1
  MaxFaults = 0
  MaxOutages = 0
  Deletable = FALSE
  Patient = FALSE
CHECK_DEADLOCK FALSE
PROPERTIES
  TearDownHappens

SPECIFICATION FairSpec
CONSTANTS
  NumServices = 1
  MaxTransport = 2
  MaxNotif = 1
  MaxAC = 1
  MaxEdits = 2
  MaxFaults = 1
  MaxOutages = 1
  Deletable = TRUE
  Patient = TRUE
CHECK_DEADLOCK FALSE
PROPERTIES
  NotificationsSettle
  ACSettles
  LeasesKept

SPECIFICATION Spec
CONSTANTS
  Unset = {}
  Errors = {}
  NumClusters = 2
  NumTimeouts = 1
  MaxEdits = 1
CHECK_DEADLOCK FALSE
INVARIANTS
  NotificationsSeparate

SPECIFICATION FairSpec
CONSTANTS
  scheduler = scheduler
  api = api
  APIs = {api}
  Schedulers = {scheduler}
  Shares = {}
  NumTopologies = 2
  MaxEdits = 2
  MaxFaults = 1
CHECK_DEADLOCK FALSE
INVARIANTS
  TypeOK
  AppliedIsHeld
  NoneLeftBehind
PROPERTIES
  UnusedTopologiesGo

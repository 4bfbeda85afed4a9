SPECIFICATION Spec
CONSTANTS
  share = share
  APIs = {}
  Schedulers = {}
  Shares = {share}
  NumTopologies = 1
  MaxEdits = 1
  MaxFaults = 0
CHECK_DEADLOCK FALSE
INVARIANTS
  NoneLeftBehind

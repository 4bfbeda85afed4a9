SPECIFICATION FairSpec
CONSTANTS
  NumShares = 2
  MaxEdits = 3
  MaxFaults = 1
CHECK_DEADLOCK FALSE
INVARIANTS
  TypeOK
  CountsMatch
PROPERTIES
  ConvergesUnlessSkipped
  RecordsCleaned

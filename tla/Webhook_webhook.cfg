SPECIFICATION FairSpec
CONSTANTS
  Unset = {"shareImage", "memcachedInstance", "databaseAccount"}
  Errors = {"routeOverride", "topologyNamespace", "probes"}
  NumClusters = 1
  NumTimeouts = 2
  MaxEdits = 3
CHECK_DEADLOCK FALSE
INVARIANTS
  TypeOK
  OnlySoundDeployed
PROPERTIES
  SoundIsDeployed
  DeletionEnds
  ChosenTimeoutStays
  TimeoutFollows

SPECIFICATION FairSpec
CONSTANTS
  Backends <- MCBackends
  Timeout = 4
  Grace = 1
  BeatEvery = 2
  Lease = 5
  Sandbox = TRUE
  RemoteSecrets = FALSE
  MaxErrors = 1
  Horizon = 7
CHECK_DEADLOCK FALSE
INVARIANTS
  OutcomeHonest
  LeaseHolds
  KilledTree
  RawOnlyFromStray
PROPERTIES
  AttemptEnds
  ImplementsAttempt

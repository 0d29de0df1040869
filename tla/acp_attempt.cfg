SPECIFICATION FairSpec
CONSTANTS
  Timeout = 3
  BeatEvery = 1
  Lease = 3
  HandlerRounds = 3
  DrainCap = 6
  MaxMessages = 2
  MaxErrors = 1
CHECK_DEADLOCK FALSE
INVARIANTS
  OutputComplete
  CancelHeard
  OutcomeHonest
PROPERTIES
  AttemptEnds
  ImplementsAttempt

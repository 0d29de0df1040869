SPECIFICATION Spec
CONSTANTS
  j1 = j1
  j2 = j2
  w1 = w1
  w2 = w2
  r1 = r1
  r2 = r2
  r3 = r3
  c1 = c1
  c2 = c2
  None = None
  Jobs = {j1}
  Workers = {w1, w2}
  Runners = {r1, r3}
  Clis = {c1, c2}
  Commands = {"cancel", "retry", "approve", "reject"}
  MaxRetries = 1
  Backoff = TRUE
  SelfCancels = FALSE
  Mortal = {}
  FaultBounds <- LateOrLost
  WorkerOf <- MCWorkerOf
  Rank <- MCRank
SYMMETRY Interchangeable
CHECK_DEADLOCK FALSE
INVARIANTS
  TypeOK
  LogsNotShared
  DoneAccounted
PROPERTIES
  OnlyStaleCancelIllegal
  OwnRunFinished
  ImplementsLifecycle

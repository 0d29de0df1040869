SPECIFICATION FairSpec
CONSTANTS
  None = None
  p1 = p1
  p2 = p2
  p3 = p3
  p4 = p4
  Jobs = {1, 2, 3}
  Threads = {t1, t2}
  Providers = {p1, p2, p3, p4}
  Known = {p1, p2, p3}
  Group <- Hosts
  MaxConcurrency <- Allowed
  Role <- Roles
  Ordered <- NewRoles
  MaxRetries <- Retries
  AllowedFails = 2
  Before <- Failures
  BaseSeconds = 2
  MaxSeconds = 1
  MaxFaults = 1
INVARIANTS
  LimitHeld
  PassSettles
PROPERTIES
  RetriedElsewhere
  PassEnds
  JobsEnd

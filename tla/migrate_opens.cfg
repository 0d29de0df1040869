SPECIFICATION FairSpec
CONSTANTS
  o1 = o1
  o2 = o2
  o3 = o3
  Openers = {o1, o2, o3}
  Mortal = {o1, o2, o3}
CHECK_DEADLOCK FALSE
INVARIANTS
  VersionHonest
  OpenComplete
PROPERTIES
  SomeoneOpens

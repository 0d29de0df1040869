SPECIFICATION Spec
CONSTANTS
  None = None
  w1 = w1
  w2 = w2
  Workers = {w1, w2}
  Callers = {c1}
  Collectors = {g1}
  Slots = {0, 1, 2}
  Contents = {a}
  Scheduled = a
  Keys = {9}
  MaxActive = 2
  MaxPerDay = 2
  Day = 2
  Horizon = 3
  MaxTrouble = 1
  MaxCalls = 2
SYMMETRY Interchangeable
CHECK_DEADLOCK FALSE
INVARIANTS
  CapsHeld
  NoActiveTwins
  SlotHonest
  NoHoles
  DirsHonest

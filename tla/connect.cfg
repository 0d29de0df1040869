SPECIFICATION Spec
CONSTANTS
  None = None
  Absent = Absent
  Torn = Torn
  a1 = a1
  a2 = a2
  Adders = {a1, a2}
  Inits = {i1}
  Recipe <- Recipes
  Files = {1, 2}
  Example <- Sample
  Cuts <- Parts
  Starts <- Configs
  Texts <- Sheets
  MaxTrouble = 1
CHECK_DEADLOCK FALSE
INVARIANTS
  ConfigLoads
  ConnectedWhole
  ProseKept
PROPERTIES
  NothingLost

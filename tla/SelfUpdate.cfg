SPECIFICATION UpdateSpec
CONSTANTS
  Versions = {v1, v2}
  NoVersion = none
  NoColor = nobody
  MaxUpdates = 2
  MaxTroubles = 1
INVARIANT ActiveServes
PROPERTY UpdateSettles
CHECK_DEADLOCK FALSE

SPECIFICATION MCSpec
CONSTANTS
  Keys = {k1}
  Groups = {g1, g2}
  Consumers = {c1}
  NoGroup = NoGroup
  MinSamples = 1
  Threshold = 50
  Parallel = 1
  MaxEdits = 2
  MaxStops = 1
  Accounts = {acc}
  Desks = {desk}
  Rates = {1, 2}
  Names = {a, b}
  Lists = {l1, l2}
  MaxEvents = 2
INVARIANTS
  TakenOutIsOnRecord

  
  
CHECK_DEADLOCK FALSE

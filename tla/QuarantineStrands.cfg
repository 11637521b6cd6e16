SPECIFICATION QuarantineSpec
CONSTANTS
  Keys = {k1}
  Groups = {g1, g2}
  Consumers = {c1}
  NoGroup = NoGroup
  MinSamples = 1
  Threshold = 50
  Parallel = 1
  MaxEdits = 2
  MaxStops = 1
INVARIANT NeverStranded
CHECK_DEADLOCK FALSE

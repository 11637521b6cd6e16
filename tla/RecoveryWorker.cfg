\* A queue longer than the gates that can be refused at once (d, while k cools).
SPECIFICATION Spec
CONSTANTS
  k = k
  d = d
  v = v
  Gates = {k, d, v}
  KeyGate <- KeyGates
  Unsupported = {}
  Validated = {v}
  Slots = {g1}
  QueueLimit = 2
  PageSize = 3
  MaxOthers = 1
  MaxFaults = 1
INVARIANTS
  NothingLeftBehind
PROPERTIES
  
  ShutdownReturns

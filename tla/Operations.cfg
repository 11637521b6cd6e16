SPECIFICATION MCSpec
CONSTANTS
  MaxCalls = 2
  Viewers = {w1}
  Minute = 2
  MaxClock = 4
  MaxMarks = 1
  Instances = {a, b}
  Captures = {c1}
  MaxBody = 1
  MaxTotal = 2
  BufferLimit = 1
  ChanCap = 1
  MaxReceived = 2
  MaxCrashes = 1
  l1 = l1
  n1 = n1
  n2 = n2
  star = star
  unset = unset
  rp = rp
  Lanes = {l1, l2}
  NoLane = nolane
  Clients = {cl}
  Pool = {pk1, pk2}
  Protocols = {rp, rq}
  AnyProtocol = any
  ModelNames = {n1, n2}
  Covers <- MCCovers
  Unset = unset
  Bodies <- MCBodies
  Fetched <- MCFetched
  KeyRates = {1, 2}
  MaxChanges = 3
INVARIANTS
  InflightAccounted
  
PROPERTIES
  RoutedByItsGroup
  NothingKeptForEver
  ViewersCatchUp
CHECK_DEADLOCK FALSE

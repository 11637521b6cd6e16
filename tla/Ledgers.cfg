SPECIFICATION MCSpec
CONSTANTS
  k1 = k1
  k2 = k2
  p1 = p1
  Keys = {k1, k2}
  Providers = {p1}
  Consumers = {c1}
  ProviderOf <- MCProviderOf
  RPMLimit <- MCRPMLimit
  MaxConcurrency <- MCMaxConcurrency
  Concurrency <- MCConcurrency
  ConsumerRPM = 1
  MaxTimes = 4
  Candidates = {s1, s2}
  Sessions = {none, reply}
  NoSession = none
  ReplySession = reply
  NoKey = NoKey
  Procs = {proc}
  Requests = {r1, r2}
  SwitchConfirm = 1
  ExploreEvery = 1
  StickyTTL = 2
  MaxClock = 3
  MaxPicks = 3
  Instances = {a}
  Captures = {b1, b2}
  MaxBody = 2
  MaxTotal = 3
  BufferLimit = 2
  ChanCap = 1
  MaxReceived = 3
  MaxCrashes = 1
SYMMETRY Symmetry
INVARIANTS
  LimitsHeld
  CompleteIsComplete
  QuotasExact
PROPERTIES
  LatencySwitchEarned
  
CHECK_DEADLOCK FALSE

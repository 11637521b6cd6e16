\* Windows of 3 ticks capped at 4 attempts and 3 failures; the real ladder.
SPECIFICATION MCSpec
CONSTANTS
  WindowSec = 3
  BaseThreshold = 3
  RateNum = 3
  RateDen = 20
  FTTWeight = 2
  CooldownSec = 30
  MaxCooldownSec = 300
  MaxAttempts = 4
  MaxFailures = 3
  MaxThreshold = 8
  SustainedMin = 8
  CheckBase = 30
  CheckMax = 90
  NeutralDelay = 60
  MaxTicks = 7
  MaxEvents = 5
  Retries = {0, 1, 45, 400}
  CooldownLadder <- BusinessLadder
  Intervals = {0, 2, 3}
  MaxCalls = 6
  MaxTime = 62
  a1 = a1
  a2 = a2
  Accounts = {a1, a2}
  Workers = {j1, j2}
  Never = never
  Keep = keep
  Books <- MCBooks
  Edits <- MCEdits
  DefaultThreshold = 2
  ThresholdCap = 6
  DefaultSilence = 2
  MaxSilence = 3
  SilenceStateTTL = 3
  RenewalHorizon = 4
  MaxHours = 4
  MaxMishaps = 1
  m1 = m1
  Served = {m1, m2}
  AllModels = all
  Ranked = {1, 2, 3}
  Flights = {1}
  ProviderOf <- MCProviderOf
  RateOf <- MCRateOf
  Slowness <- MCSlowness
  Cached <- MCCached
  AffinityOf <- MCAffinityOf
  TTFTCap = 4
  MinSamples = 2
  MaxSamples = 3
  Horizon = 2
  Prior = 7
  Epsilon = 1
  WeightSuccess = 9
  WeightCache = 6
  WeightTTFT = 5
  Proven = {1}
  Offers = {{1, 2, 3}, {1, 3}}
  MaxPicks = 3
INVARIANTS
  WindowsExact
  LadderAsDocumented
  ExplorationShare
  LowIsToldOnce
  
CHECK_DEADLOCK FALSE

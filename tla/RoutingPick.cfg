\* Two dimensions of one key, late settlements allowed (MaxFlight > LeaseTTL).
SPECIFICATION Spec
CONSTANTS
  k1 = k1
  d1 = d1
  d2 = d2
  u1 = u1
  a1 = a1
  a2 = a2
  c1 = c1
  c2 = c2
  Keys = {k1}
  Dims = {d1, d2}
  KeyOf <- OneKey
  Upstreams = {u1}
  UpstreamOf <- OneUpstream
  Attempts = {a1, a2}
  RequestOf <- OwnRequest
  Checks = {c1, c2}
  NoToken = NoToken
  RetryAfters = {0}
  LeaseTTL = 1
  CheckTTL = 1
  CheckLimit = 1
  MaxFlight = 3
  CheckTimeout = 2
  MaxTime = 4
  WindowSec = 2
  BaseThreshold = 2
  RateNum = 0
  RateDen = 1
  FTTWeight = 2
  CooldownSec = 1
  MaxCooldownSec = 2
  MaxAttempts = 3
  MaxFailures = 3
  MaxThreshold = 8
  SustainedMin = 8
  CheckBase = 2
  CheckMax = 3
  NeutralDelay = 1
  HasPath = {d1, d2}
  WorkerOwned = {d1}
SYMMETRY Symmetry
INVARIANTS
  ClaimsExclude
  
  PickAgreesWithAdmit
PROPERTIES
  OpenGateMovedByFreshEvidence
CHECK_DEADLOCK FALSE

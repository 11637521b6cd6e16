\* A probing request of a bound consumer: one attempt per key, or more than keys.
SPECIFICATION MCSpec
CONSTANTS
  k1 = k1
  k2 = k2
  p1 = p1
  NoKey = NoKey
  Keys = {k1, k2}
  ProviderOf <- OneProvider
  FailoverMax = 3
  RetryMax = 1
  Bound = TRUE
  Probe = TRUE
  Repair = TRUE
  HoldCap = 4
  MaxLines = 6
INVARIANTS
  AnsweredAndLoggedOnce
  AdmissionsObservedOnce
  FailoverExact
  FirstTokenDecides
PROPERTIES
  KeepsPromise
  StreamReturns
  Terminates
CHECK_DEADLOCK FALSE

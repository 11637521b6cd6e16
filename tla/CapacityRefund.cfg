SPECIFICATION CapacitySpec
CONSTANTS
  k1 = k1
  k2 = k2
  p1 = p1
  Keys = {k1, k2}
  Providers = {p1}
  Consumers = {c1}
  ProviderOf <- MCProviderOf
  RPMLimit <- MCRPMLimit
  MaxConcurrency <- MCMaxConcurrency
  Concurrency <- MCConcurrency
  ConsumerRPM = 1
  MaxTimes = 5
INVARIANT SkipRefunded

SPECIFICATION MCSpec
CONSTANTS
  Finalizers = {f1, f2}
  MaxUpdates = 3
  SlowClient = FALSE
  a = a
  r1 = r1
  Instances = {a}
  Reqs = {r1}
  Home <- MCHome
  MaxAttempts = 2
  QueueLimit = 3
  MaxErrors = 1
  MaxStops = 1
  SlowHandler = TRUE
INVARIANTS
  ClosedRowComplete
  
  NoSilentLoss
  AggregatesExact
PROPERTIES
  RowCloses
  FactsClose
CHECK_DEADLOCK FALSE

SPECIFICATION Spec
CONSTANTS
  Intents <- MCThreeSymbols
  MaxBatchSize = 3
  SizeFallback = TRUE
  Fits = 1
  MaxRetries = 1
  ReconcileAttempts = 2
  Budgets <- MCLossy
INVARIANTS
  NothingLost
  MarksCoverFlight
PROPERTIES
  EveryRequestResolved
CHECK_DEADLOCK FALSE

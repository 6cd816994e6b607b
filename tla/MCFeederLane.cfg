SPECIFICATION Spec
CONSTANTS
  Intents <- MCFourIntents
  MaxBatchSize = 2
  SizeFallback = TRUE
  Fits = 2
  MaxRetries = 1
  ReconcileAttempts = 2
  Budgets <- MCReliableOrLossy
INVARIANTS
  OnlyAcceptable
  NoContention
  PairMintedOnce
  NoTransactionWhenSuperseded
  SupersededByNewer
PROPERTIES
  KeepsContract
CHECK_DEADLOCK FALSE

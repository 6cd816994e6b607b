SPECIFICATION Spec
CONSTANTS
  Intents <- MCIntents
  NoIntent = NoIntent
  Openings <- MCOpenings
  Modes <- MCModes
  Period = 2
  InflightTtl = 1
  AgeCap = 3
  MaxWorkers = 1
  QueueSize = 1
INVARIANTS
  CacheFollowsChain
  ConfirmedMeansLanded
  SubmittedOncePerFailure
PROPERTIES
  PairCatchesUp

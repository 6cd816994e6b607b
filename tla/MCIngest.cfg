SPECIFICATION Spec
CONSTANTS
  l1 = l1
  l2 = l2
  NoLog = NoLog
  Logs <- MCLogs
  Modes <- MCModes
  BlockRange = 1
  BackfillRange = 2
  MaxBlockGap = 0
  Confirmations = 1
  DedupCapacity = 1
  WorkerCount = 1
  QueueSize = 1
  MaxBlocks = 3
  MaxPushed = 1
  MaxFaults = 1
INVARIANTS
  IngestTypeOK
  HandledAgainOnlyAfterEviction
  CheckpointCovers
PROPERTIES
  EveryLogProcessed
CHECK_DEADLOCK FALSE

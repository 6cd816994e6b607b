SPECIFICATION Spec
CONSTANTS
  l1 = l1
  l2 = l2
  NoLog = NoLog
  Logs <- MCLogs
  Modes <- MCBothTransports
  BlockRange = 1
  BackfillRange = 2
  MaxBlockGap = 1
  Confirmations = 1
  DedupCapacity = 1
  WorkerCount = 1
  QueueSize = 1
  MaxBlocks = 4
  MaxPushed = 2
  MaxFaults = 1
PROPERTIES
  BaselineCoversGaps
CHECK_DEADLOCK FALSE

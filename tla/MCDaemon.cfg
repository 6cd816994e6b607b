SPECIFICATION Spec
CONSTANTS
  a = a
  b = b
  None = None
  Clients <- MCClients
  Network = "Preview"
  Fee = 1
  Low = 2
  PendingMerge = 3
  AutoSettle = 2
  AutoWithdraw = 2
  Passes = 2
  WasmFatal = 2
  MaxPerMerge = 1
  MaxPerFold = 1
  MaxBatch = 2
  Configs <- MCConfigs
  Setups <- MCSetups
INVARIANTS
  GuardsMatchTasks
  MeterTrue
  OneRequestPerLane
PROPERTIES
  FeesComeHome
  PoisonedRestarts

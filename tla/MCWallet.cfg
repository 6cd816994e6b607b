SPECIFICATION Spec
CONSTANTS
  RESERVED_UTXOS_PER_TX = 2
  MIN_COLLATERAL = 3
  WorkingLovelace = 6
  WorkingCount = 2
  CollateralLovelace = 4
  CollateralCount = 1
  FeeBuffer = 1
  MaxInputs = 2
  Headroom = 1
  Lanes = {l1, l2}
  Main = main
  PoolWallets = {p1}
  Openings <- MCOpenings
  LockTtl = 1
  ConsolidateBelow = 4
  MinUsable = 2
  Low = 9
  Target = 13
  MainReserve = 4
  FundInterval = 1
  FundFeeBuffer = 1
  Accrued = 3
  Ticks = {t1}
  MaxTime = 1
  MaxJobs = 2
  MaxFaults = 1
INVARIANTS
  ReservationsDisjoint
  LocksOwned
  BuiltIsAcceptable
  FundingsSpaced
SYMMETRY MCSymmetry
CHECK_DEADLOCK FALSE

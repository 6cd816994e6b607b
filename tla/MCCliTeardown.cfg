SPECIFICATION Spec
CONSTANTS
  None = None
  c1 = c1
  c2 = c2
  ada = ada
  btc = btc
  op = op
  peer = peer
  treasury = treasury
  vault = vault
  Clients = {c1, c2}
  Symbols = {ada, btc}
  Operators = {op, peer}
  DraftConfig <- MCDraftConfig
  DraftHook <- MCDraftHook
  ReceiverMin = 2
  DepositMin = 1
  MaxPerMerge = 1
  MaxPerFold = 1
  Scenarios <- MCTeardown
INVARIANT NothingStranded
CHECK_DEADLOCK FALSE

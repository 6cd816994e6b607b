\* Life cycle: bootstraps, admin updates, burns; no side deposits.
CONSTANTS
  admin = admin
  key = key
  dom = dom
  btc = btc
  h1 = h1
  h2 = h2
  c1 = c1
  d1 = d1
  None = None
  Absent = Absent
  Spent = Spent
  Coordinator = Coordinator
  Wallets = {admin}
  SignerKeys = {key}
  Domains = {dom}
  Symbols = {btc}
  Intents <- MCIntents
  ConfigDatums <- MCConfigDatums
  HookIds = {h1, h2}
  Clients = {c1}
  Copies = {1, 2}
  DepositIds = {}
  Amount <- MCAmount
  MinUtxo <- MCMinUtxo
  Coin <- MCCoin
  Millis = 1
  MaxTime = 0
  ValidityBackoff = 1
  ValidityTtl = 2
  ExpiryMargin = 1
SPECIFICATION Spec
CHECK_DEADLOCK FALSE
INVARIANTS
  StateUtxosSound
  HookBooksBalance

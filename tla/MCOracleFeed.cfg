\* Prices: one client, two symbols, four intents, keys and admins that rotate.
CONSTANTS
  admin = admin
  other = other
  k1 = k1
  k2 = k2
  dom = dom
  btc = btc
  eth = eth
  h1 = h1
  c1 = c1
  d1 = d1
  None = None
  Absent = Absent
  Spent = Spent
  Coordinator = Coordinator
  Wallets = {admin, other}
  SignerKeys = {k1, k2}
  Domains = {dom}
  Symbols = {btc, eth}
  Intents <- MCIntents
  ConfigDatums <- MCConfigDatums
  HookIds = {h1}
  Clients = {c1}
  Copies = {1}
  DepositIds = {d1}
  Amount <- MCAmount
  MinUtxo <- MCMinUtxo
  Coin <- MCCoin
  Millis = 2
  MaxTime = 5
  ValidityBackoff = 1
  ValidityTtl = 2
  ExpiryMargin = 1
SPECIFICATION Spec
CHECK_DEADLOCK FALSE
INVARIANTS
  PairsCarryTheirSymbol
PROPERTIES
  FeeIsExact
  PairAdvances
  PublishedInTime

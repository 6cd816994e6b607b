\* Money: two clients, one hook, one deposit, fees of 1 per update.
CONSTANTS
  admin = admin
  key = key
  dom = dom
  btc = btc
  h1 = h1
  d1 = d1
  d2 = d2
  c1 = c1
  c2 = c2
  None = None
  Absent = Absent
  Spent = Spent
  Coordinator = Coordinator
  Wallets = {admin}
  SignerKeys = {key}
  Domains = {dom}
  Symbols = {btc}
  Intents <- MCIntents
  ConfigDatums <- MCConfigDatums
  HookIds = {h1}
  Clients = {c1, c2}
  Copies = {1}
  DepositIds = {d1, d2}
  Amount <- MCAmount
  MinUtxo <- MCMinUtxo
  Coin <- MCCoin
  Millis = 1
  MaxTime = 0
  ValidityBackoff = 1
  ValidityTtl = 2
  ExpiryMargin = 1
SPECIFICATION Spec
SYMMETRY MCSymmetry
CHECK_DEADLOCK FALSE
INVARIANTS
  TypeOK
PROPERTIES
  KeepsBooks
  DepositsReachTheirOwner

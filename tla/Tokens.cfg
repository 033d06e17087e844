SPECIFICATION MCSpec
CONSTANTS
  Wallets = {w1, w2}
  Market = dapp
  Cap = 1
  MaxAmount = 1
  MaxTime = 1
  MaxGranted = 1
  Marketers = {"none"}
  Holder = w1
  Markets = {m1, m2}
  FirstMarket = m1
INVARIANTS
  RegistryComplete
  IndexesAgree
  AllowancesKept
PROPERTIES
  MovedByRight
CHECK_DEADLOCK FALSE

SPECIFICATION MCSpec
CONSTANTS
  Wallets = {w1, w2}
  One = 4
  Unit = 1
  Tolerance = 0
  Deposits = {4}
  Redeems = {2, 4}
  Stakes = {2}
  Payouts = {0, 3}
  Gifts = {5}
  CrankFee = 1
  Rate = 2
  MaxInc = 2
  MaxDec = 2
  MaxBalance = 8
  VaultMarkets = {m1, m2}
INVARIANTS
  BooksBacked
  WorkInOrder
  ClientsBooked
  ValueComplete
PROPERTIES
  NobodyShorted
CHECK_DEADLOCK FALSE

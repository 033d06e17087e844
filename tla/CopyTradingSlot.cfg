SPECIFICATION Spec
CONSTANTS
  Wallets = {w1}
  One = 4
  Unit = 1
  Tolerance = 0
  Deposits = {4}
  Redeems = {2, 4}
  Stakes = {2}
  Payouts = {0, 3}
  Gifts = {}
  CrankFee = 1
  Rate = 2
  MaxInc = 2
  MaxDec = 2
  MaxBalance = 10
INVARIANT NotImpossible
CHECK_DEADLOCK FALSE

SPECIFICATION MCSpec
CONSTANTS
  NumProviders = 2
  One = 2
  Dust = 2
  Deposits = {3}
  Shares = {2}
  FeeAmounts = {2}
  Gains = {0}
  ProtocolTax = 0
  ReferralRatio = 0
  CrankReward = 1
  MaxLiquidity = 4
  UnstakePeriod = 2
  Cooldown = 1
  MaxTime = 3
  MaxYields = 2
  MaxFees = 0
  MaxBalance = 5
  Wallets = {a, b}
  Position = p
INVARIANTS
  TypeOK
  UnstakesLinearly
  PoolBacked
  SettingsHarmless
  HistoryTrue
  NothingGained
PROPERTIES
  NoDilution
  PricesHold
CHECK_DEADLOCK FALSE

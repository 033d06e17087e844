SPECIFICATION Spec
CONSTANTS
  NumProviders = 2
  One = 2
  Dust = 2
  Deposits = {2}
  Shares = {1}
  FeeAmounts = {2}
  Gains = {1}
  ProtocolTax = 1
  ReferralRatio = 1
  CrankReward = 1
  MaxLiquidity = 2
  UnstakePeriod = 2
  Cooldown = 0
  MaxTime = 1
  MaxYields = 3
  MaxFees = 1
  MaxBalance = 4
INVARIANT ClaimsBacked

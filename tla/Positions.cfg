SPECIFICATION MCSpec
CONSTANTS
  Ids = {p1, p2, p3}
  One = 4
  Sizes <- FundingSizes
  Deposits = {18}
  Sensitivity = 4
  RateCap = 3
  HighCap = 10
  Delay = 2
  Steps = {1, 3}
  MaxTime = 3
  Pair = {q1, q2}
SYMMETRY Symmetry
INVARIANTS
  FundingBacked
  FeesMatch
  CrankNeverFails
  TradesAsToldOf
PROPERTIES
  FeesAsPromised
CHECK_DEADLOCK FALSE

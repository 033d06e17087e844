SPECIFICATION MCSpec
CONSTANTS
  Markets = {m1, m2, m3}
  Runners = {r1, r2}
  Capacity = 2
  Wallets = 1
  MaxWork = 1
  PriceMarkets = {n1, n2}
  Errors = {e1, e2}
INVARIANTS
  RunnersApart
  ToldTruly
  ListsTrue
CHECK_DEADLOCK FALSE

SPECIFICATION Spec
CONSTANTS
  Wallets = {w1, w2}
  BotMarkets = {m1, m2}
  Runners = {r1, r2}
  Errors = {e1, e2}
PROPERTIES
  RequestsSettle
  WorkGetsDone
CHECK_DEADLOCK FALSE

SPECIFICATION Spec
CONSTANTS
  alice = alice
  bob = bob
  Traders = {alice}
  Amounts = {3}
  Prices = {1}
  TriggerPairs <- WideTriggers
  OrderTriggers <- MCOrderTriggers
  CrankFee = 1
  CrankSurcharge = 0
  QueueStep = 2
  CrankReward = 1
  Delays = {1}
  Payouts = {0}
  LpCount = 0
  CrankExecs = {9}
  InitPot = 0
  MaxTime = 5
  MaxExecs = 1
INVARIANT SettledAfterLiquifunding

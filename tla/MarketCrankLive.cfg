SPECIFICATION FairSpec
CONSTANTS
  alice = alice
  bob = bob
  Traders = {alice}
  Amounts = {3}
  Prices = {1}
  TriggerPairs <- LongTriggers
  OrderTriggers <- MCOrderTriggers
  CrankFee = 1
  CrankSurcharge = 0
  QueueStep = 2
  CrankReward = 1
  Delays = {1}
  Payouts = {0}
  LpCount = 0
  CrankExecs = {0, 1}
  InitPot = 0
  MaxTime = 3
  MaxExecs = 2
PROPERTIES
  EveryItemSettles
  CrankCatchesUp

SPECIFICATION Spec
CONSTANTS
  alice = alice
  bob = bob
  Traders <- MCTraders
  Amounts = {3}
  Prices = {1, 2}
  TriggerPairs <- MCTriggerPairs
  OrderTriggers <- MCOrderTriggers
  CrankFee = 1
  CrankSurcharge = 1
  QueueStep = 1
  CrankReward = 1
  Delays = {1}
  Payouts = {0, 2}
  LpCount = 1
  CrankExecs = {2}
  InitPot = 2
  MaxTime = 3
  MaxExecs = 2
SYMMETRY Symmetry
INVARIANTS
  TypeOK
  SettledInOrder
  PendingIndexExact
  OwnerWhenExecuted
  FirstLaterPrice
  FreeItemsQueuedOnce
  LiquifundedInTime
  NoItemBeforeLiquidation
  TokenBalance
  BatchWithinBudget
PROPERTIES
  ImplementsQueue

------------------------------ MODULE MCClients ------------------------------
(* The contracts that trade or provide liquidity on behalf of others: copy  *)
(* trading, counter trade and vault. They share no state; the initial state *)
(* chooses the one that runs, so that each of them is explored with every   *)
(* interleaving of its own steps and those of its users, bots and markets.  *)
(* Copy trading is the extended module itself, with the constants of the    *)
(* configuration file; the others are instances, with their constants here. *)
(* What must eventually happen is checked in MCProgress.                    *)
EXTENDS CopyTrading

CONSTANTS
  VaultMarkets  \* markets of the vault

VARIABLES
  part,   \* the part that runs
  rebalanceNow, rebalanceHistory, rebalanceCursor, rebalanceHwm, rebalanceUnclaimed,
  rebalanceCollateral, rebalanceBalance, rebalanceBatch, rebalanceRun, rebalanceGains,
  rebalanceGifts, rebalanceAstray,
  valuePositions, valueOrders, valueWork, valueBatch, valueValue, valueRun,
  valueRequests, valueChanges, valueQuiet, valueBegan,
  loaderNow, loaderListed, loaderLastAdded, loaderKnown, loaderLoader, loaderLastCheck,
  loaderMissed,
  counterShares, counterTotal, counterSlot, counterBalance, counterPositions,
  counterExecs,
  targetLongs, targetShorts, targetPosition, targetBalance, targetPending,
  targetMoves, targetDecisions,
  vaultPaused, vaultBps, vaultBalance, vaultLp, vaultTotalLp, vaultQueue,
  vaultPending, vaultRequests, vaultNextId, vaultAlloc, vaultHeld, vaultCame

rebalanceVars == <<rebalanceNow, rebalanceHistory, rebalanceCursor, rebalanceHwm,
                   rebalanceUnclaimed, rebalanceCollateral, rebalanceBalance,
                   rebalanceBatch, rebalanceRun, rebalanceGains, rebalanceGifts,
                   rebalanceAstray>>
valueVars == <<valuePositions, valueOrders, valueWork, valueBatch, valueValue,
               valueRun, valueRequests, valueChanges, valueQuiet, valueBegan>>
loaderVars == <<loaderNow, loaderListed, loaderLastAdded, loaderKnown, loaderLoader,
                loaderLastCheck, loaderMissed>>
counterVars == <<counterShares, counterTotal, counterSlot, counterBalance,
                 counterPositions, counterExecs>>
targetVars == <<targetLongs, targetShorts, targetPosition, targetBalance,
                targetPending, targetMoves, targetDecisions>>
vaultVars == <<vaultPaused, vaultBps, vaultBalance, vaultLp, vaultTotalLp, vaultQueue,
               vaultPending, vaultRequests, vaultNextId, vaultAlloc, vaultHeld,
               vaultCame>>
MCVars == <<part, vars, rebalanceVars, valueVars, loaderVars, counterVars,
            targetVars, vaultVars>>

\* Two markets, within the allowed queries.
Rebalancing == INSTANCE CopyTradingRebalance WITH
  NumMarkets <- 2, NumPositions <- 2, Stake <- 2, Returns <- {0, 1, 4}, Gifts <- {3},
  One <- 2, Rate <- 1, PageSize <- 1, AllowedQueries <- 9,
  MaxTime <- 2, MaxGifts <- 1, now <- rebalanceNow, history <- rebalanceHistory,
  cursor <- rebalanceCursor, hwm <- rebalanceHwm, unclaimed <- rebalanceUnclaimed,
  collateral <- rebalanceCollateral, balance <- rebalanceBalance,
  batch <- rebalanceBatch, run <- rebalanceRun, gains <- rebalanceGains,
  gifts <- rebalanceGifts, astray <- rebalanceAstray

\* One query per call, so that a walk over both markets takes several calls.
Batches == INSTANCE CopyTradingRebalance WITH
  NumMarkets <- 2, NumPositions <- 2, Stake <- 2, Returns <- {0, 1, 4}, Gifts <- {3},
  One <- 2, Rate <- 1, PageSize <- 1, AllowedQueries <- 1,
  MaxTime <- 2, MaxGifts <- 1, now <- rebalanceNow, history <- rebalanceHistory,
  cursor <- rebalanceCursor, hwm <- rebalanceHwm, unclaimed <- rebalanceUnclaimed,
  collateral <- rebalanceCollateral, balance <- rebalanceBalance,
  batch <- rebalanceBatch, run <- rebalanceRun, gains <- rebalanceGains,
  gifts <- rebalanceGifts, astray <- rebalanceAstray

\* One market with more positions: calls that find more than they look for.
LongWalk == INSTANCE CopyTradingRebalance WITH
  NumMarkets <- 1, NumPositions <- 4, Stake <- 2, Returns <- {1, 4}, Gifts <- {3},
  One <- 2, Rate <- 1, PageSize <- 1, AllowedQueries <- 1,
  MaxTime <- 2, MaxGifts <- 1, now <- rebalanceNow, history <- rebalanceHistory,
  cursor <- rebalanceCursor, hwm <- rebalanceHwm, unclaimed <- rebalanceUnclaimed,
  collateral <- rebalanceCollateral, balance <- rebalanceBalance,
  batch <- rebalanceBatch, run <- rebalanceRun, gains <- rebalanceGains,
  gifts <- rebalanceGifts, astray <- rebalanceAstray

\* One market, one query per call.
Value == INSTANCE CopyTradingValue WITH
  NumMarkets <- 1, MaxId <- 2, TokenPage <- 1, OrderPage <- 1, AllowedQueries <- 1,
  MaxChanges <- 2, MaxRequests <- 2, positions <- valuePositions,
  orders <- valueOrders, work <- valueWork, batch <- valueBatch, value <- valueValue,
  run <- valueRun, requests <- valueRequests, changes <- valueChanges,
  quiet <- valueQuiet, began <- valueBegan

\* Two markets, with queries for one of them or both in a call: a validation may
\* start at the first market, or be resumed at the second.
ValueMarkets == INSTANCE CopyTradingValue WITH
  NumMarkets <- 2, MaxId <- 2, TokenPage <- 1, OrderPage <- 1, AllowedQueries <- 5,
  MaxChanges <- 1, MaxRequests <- 2, positions <- valuePositions,
  orders <- valueOrders, work <- valueWork, batch <- valueBatch, value <- valueValue,
  run <- valueRun, requests <- valueRequests, changes <- valueChanges,
  quiet <- valueQuiet, began <- valueBegan

\* The market list, copied in pages of two.
Loader == INSTANCE CopyTradingMarkets WITH
  NumMarkets <- 3, PageSize <- 2, Period <- 2, MaxTime <- 8, now <- loaderNow,
  listed <- loaderListed, lastAdded <- loaderLastAdded, known <- loaderKnown,
  loader <- loaderLoader, lastCheck <- loaderLastCheck, missed <- loaderMissed

\* Counter trade with gifts and every kind of order.
Counter == INSTANCE CounterTrade WITH
  Wallets <- Wallets, One <- 4, Unit <- 2, Deposits <- {2, 6}, Redeems <- {1, 2, 6},
  Stakes <- {2, 4}, Payouts <- {0, 6}, Gifts <- {2}, CrankFee <- 2, MaxExecs <- 2,
  MaxBalance <- 8, shares <- counterShares, total <- counterTotal,
  slot <- counterSlot, balance <- counterBalance, positions <- counterPositions,
  execs <- counterExecs

\* The position counter trade decides on.
Target == INSTANCE CounterTradeTarget WITH
  One <- 1000, Longs <- {0, 500, 1000, 2200}, Shorts <- {0, 400, 700, 1500, 3000},
  Balances <- {25, 80, 150, 600}, Leverage <- 4, MinFunding <- 260,
  TargetFunding <- 300, MaxFunding <- 500, Epsilon <- 20, Iterations <- 10,
  Sensitivity <- 1000, RateCap <- 900, HighCap <- 5000, MinDeposit <- 20,
  CrankFee <- 2, MaxMoves <- 3, longs <- targetLongs, shorts <- targetShorts,
  position <- targetPosition, balance <- targetBalance, pending <- targetPending,
  moves <- targetMoves, decisions <- targetDecisions

\* A vault of the native coin.
Vault == INSTANCE Vault WITH
  Users <- Wallets, Markets <- VaultMarkets, Native <- TRUE, Amounts <- {1, 2},
  Shares <- {0, 1}, Limit <- 2, MaxQueue <- 2, MaxUsdc <- 4, paused <- vaultPaused,
  bps <- vaultBps, balance <- vaultBalance, lp <- vaultLp, totalLp <- vaultTotalLp,
  queue <- vaultQueue, pending <- vaultPending, requests <- vaultRequests,
  nextId <- vaultNextId, alloc <- vaultAlloc, held <- vaultHeld, came <- vaultCame

\* A vault of a CW20 token.
VaultCw20 == INSTANCE Vault WITH
  Users <- Wallets, Markets <- VaultMarkets, Native <- FALSE, Amounts <- {1, 2},
  Shares <- {0, 1}, Limit <- 2, MaxQueue <- 2, MaxUsdc <- 3, paused <- vaultPaused,
  bps <- vaultBps, balance <- vaultBalance, lp <- vaultLp, totalLp <- vaultTotalLp,
  queue <- vaultQueue, pending <- vaultPending, requests <- vaultRequests,
  nextId <- vaultNextId, alloc <- vaultAlloc, held <- vaultHeld, came <- vaultCame

ASSUME ConstantsFit ==
  /\ Rebalancing!ConstantsOK
  /\ Batches!ConstantsOK
  /\ LongWalk!ConstantsOK
  /\ Value!ConstantsOK
  /\ ValueMarkets!ConstantsOK
  /\ Loader!ConstantsOK
  /\ Counter!ConstantsOK
  /\ Target!ConstantsOK
  /\ Vault!ConstantsOK
  /\ VaultCw20!ConstantsOK

Parts == {"copy", "rebalance", "batches", "long walk", "value", "value markets", "markets",
          "counter", "target", "vault", "vault cw20"}

\* A part that does not run is off.
rebalanceOff ==
  /\ rebalanceNow = 0 /\ rebalanceHistory = 0 /\ rebalanceCursor = 0
  /\ rebalanceHwm = 0 /\ rebalanceUnclaimed = 0 /\ rebalanceCollateral = 0
  /\ rebalanceBalance = 0 /\ rebalanceBatch = 0 /\ rebalanceRun = 0
  /\ rebalanceGains = 0 /\ rebalanceGifts = 0 /\ rebalanceAstray = 0
valueOff ==
  /\ valuePositions = 0 /\ valueOrders = 0 /\ valueWork = 0 /\ valueBatch = 0
  /\ valueValue = 0 /\ valueRun = 0 /\ valueRequests = 0 /\ valueChanges = 0
  /\ valueQuiet = 0 /\ valueBegan = 0
loaderOff ==
  /\ loaderNow = 0 /\ loaderListed = 0 /\ loaderLastAdded = 0 /\ loaderKnown = 0
  /\ loaderLoader = 0 /\ loaderLastCheck = 0 /\ loaderMissed = 0
counterOff ==
  /\ counterShares = 0 /\ counterTotal = 0 /\ counterSlot = 0 /\ counterBalance = 0
  /\ counterPositions = 0 /\ counterExecs = 0
targetOff ==
  /\ targetLongs = 0 /\ targetShorts = 0 /\ targetPosition = 0 /\ targetBalance = 0
  /\ targetPending = 0 /\ targetMoves = 0 /\ targetDecisions = 0
vaultOff ==
  /\ vaultPaused = 0 /\ vaultBps = 0 /\ vaultBalance = 0 /\ vaultLp = 0
  /\ vaultTotalLp = 0 /\ vaultQueue = 0 /\ vaultPending = 0 /\ vaultRequests = 0
  /\ vaultNextId = 0 /\ vaultAlloc = 0 /\ vaultHeld = 0 /\ vaultCame = 0

MCInit ==
  /\ part \in Parts
  /\ Init
  /\ CASE part = "rebalance" -> Rebalancing!Init
       [] part = "batches" -> Batches!Init
       [] part = "long walk" -> LongWalk!Init
       [] OTHER -> rebalanceOff
  /\ CASE part = "value" -> Value!Init
       [] part = "value markets" -> ValueMarkets!Init
       [] OTHER -> valueOff
  /\ CASE part = "markets" -> Loader!Init
       [] OTHER -> loaderOff
  /\ CASE part = "counter" -> Counter!Init
       [] OTHER -> counterOff
  /\ CASE part = "target" -> Target!Init
       [] OTHER -> targetOff
  /\ CASE part = "vault" -> Vault!Init
       [] part = "vault cw20" -> VaultCw20!Init
       [] OTHER -> vaultOff

\* The variables of another part stand still.
Frozen(parts, v) == IF part \in parts THEN TRUE ELSE UNCHANGED v

Others ==
  /\ UNCHANGED part
  /\ Frozen({"copy"}, vars)
  /\ Frozen({"rebalance", "batches", "long walk"}, rebalanceVars)
  /\ Frozen({"value", "value markets"}, valueVars)
  /\ Frozen({"markets"}, loaderVars)
  /\ Frozen({"counter"}, counterVars)
  /\ Frozen({"target"}, targetVars)
  /\ Frozen({"vault", "vault cw20"}, vaultVars)

MCNext ==
  \/ part = "copy" /\ Next /\ Others
  \/ part = "rebalance" /\ Rebalancing!Next /\ Others
  \/ part = "batches" /\ Batches!Next /\ Others
  \/ part = "long walk" /\ LongWalk!Next /\ Others
  \/ part = "value" /\ Value!Next /\ Others
  \/ part = "value markets" /\ ValueMarkets!Next /\ Others
  \/ part = "markets" /\ Loader!Next /\ Others
  \/ part = "counter" /\ Counter!Next /\ Others
  \/ part = "target" /\ Target!Next /\ Others
  \/ part = "vault" /\ Vault!Next /\ Others
  \/ part = "vault cw20" /\ VaultCw20!Next /\ Others

MCSpec == MCInit /\ [][MCNext]_MCVars

\* The books of the other contracts add up through every deposit, withdrawal,
\* reset and failure. A rebalance of copy trading books no closed position twice,
\* over one or several markets and calls, and its commission is on the peak only;
\* it holds what it owes, and its gains are gifts that came in, but for the cases
\* that BooksBacked and GainsAreGifts of CopyTradingRebalance name, with the lines
\* that make them (execute.rs:746, :754, :768). The total of counter trade's shares
\* is the sum of what is kept by wallet, some are left while a message is pending,
\* and the tokens and the pending withdrawals of a vault are those of its queue.
ClientsBooked ==
  /\ part = "rebalance" =>
       /\ Rebalancing!BooksBacked
       /\ Rebalancing!GainsAreGifts
       /\ Rebalancing!CommissionOfPeak /\ Rebalancing!BookedOnce
  /\ part = "batches" =>
       /\ Batches!BooksBacked /\ Batches!GainsAreGifts
       /\ Batches!CommissionOfPeak /\ Batches!BookedOnce
  /\ part = "long walk" =>
       /\ LongWalk!BooksBacked /\ LongWalk!GainsAreGifts
       /\ LongWalk!CommissionOfPeak /\ LongWalk!BookedOnce
  /\ part = "counter" => Counter!SharesAddUp /\ Counter!SharesWhileWaiting
  /\ part = "vault" => Vault!SupplyAddsUp /\ Vault!PendingAddsUp
  /\ part = "vault cw20" => VaultCw20!SupplyAddsUp

\* A value that was computed in batches while the markets stood still counts
\* every position, order and deposit once of every market that the last call
\* validated, which are all of them unless it resumed a validation at a later one
\* (execute.rs:1033); only after such a call is a market left half done
\* (execute.rs:1274). The market list holds every market up to the last one seen
\* but those the factory lists behind it; and a decision about a counter trade
\* takes few steps.
ValueComplete ==
  /\ part = "value" => Value!CountsFromWhereItBegan /\ Value!HalfDoneByResumption
  /\ part = "value markets" =>
       /\ ValueMarkets!CountsFromWhereItBegan
       /\ ValueMarkets!HalfDoneByResumption
  /\ part = "markets" => Loader!CopiedUpToLastSeen
  /\ part = "target" => Target!FewDecisions

\* No step takes from those who do not act: shares do not lose value by the
\* deposits and withdrawals of others, tokens of pending withdrawals stay
\* reserved and are paid in their order, and an order against an imbalance
\* does not turn it around.
NobodyShorted ==
  /\ [][part = "counter" => Counter!NoDilutionStep]_counterVars
  /\ [][part = "vault" => Vault!PendingReservedStep]_vaultVars
  /\ [][part = "vault" => Vault!NobodyOvertakenStep]_vaultVars
  /\ [][part = "target" => Target!NoOvershootStep]_targetVars

==============================================================================

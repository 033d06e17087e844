----------------------------- MODULE MCProgress ------------------------------
(* What must eventually happen in the contracts that act for others and in  *)
(* the bots: requests are settled and paid, work is found and done. Parts   *)
(* share no state; the initial state chooses the one that runs, with        *)
(* constants as small as the property allows. Each property assumes the     *)
(* fairness its own module states, of the part that runs only.              *)
EXTENDS Integers, Sequences

CONSTANTS
  Wallets,  \* followers, depositors and liquidity providers
  BotMarkets,  \* markets the bots serve
  Runners,  \* tasks that crank
  Errors    \* messages of errors

VARIABLES
  part,   \* the part that runs
  copyInc, copyDec, copyLastInc, copyLastDec, copyTotals, copyShares, copyPending,
  copyLpValue, copyStats, copySlot, copyCommission, copyBalance, copyExecs,
  copyActive, copyValuedAt,
  valuePositions, valueOrders, valueWork, valueBatch, valueValue, valueRun,
  valueRequests, valueChanges, valueQuiet, valueBegan,
  loaderNow, loaderListed, loaderLastAdded, loaderKnown, loaderLoader, loaderLastCheck,
  loaderMissed,
  counterShares, counterTotal, counterSlot, counterBalance, counterPositions,
  counterExecs,
  vaultPaused, vaultBps, vaultBalance, vaultLp, vaultTotalLp, vaultQueue,
  vaultPending, vaultRequests, vaultNextId, vaultAlloc, vaultHeld, vaultCame,
  crankWork, crankFifo, crankSet, crankGuards, crankChannel, crankFree, crankRunner,
  crankPrice,
  watcherResult, watcherExpire, watcherStarted, watcherRunning, watcherTodo,
  watcherFailed, watcherTotal, watcherRetries, watcherSleep, watcherTold,
  watcherMisled, watcherHealth, watcherPaused,
  priceOracle, priceMkt, priceItem, priceHit, priceHuge, priceQueue, priceTask,
  priceError, priceWork, priceTokens, priceHigh,
  hitOracle, hitMkt, hitItem, hitHit, hitHuge, hitQueue, hitTask, hitError, hitWork,
  hitTokens, hitHigh,
  dirAdded, dirStamp, dirStatus, dirWork, dirCtMade, dirCtWork, dirMarkets, dirList,
  dirTask, dirTodo, dirCtKnown, dirCt, dirLate, dirUntold,
  listingAdded, listingStamp, listingStatus, listingWork, listingCtMade,
  listingCtWork, listingMarkets, listingList, listingTask, listingTodo,
  listingCtKnown, listingCt, listingLate, listingUntold,
  batchStatus, batchQueue, batchBatch, batchTries, batchPaid,
  poolNow, poolPool, poolProviders, poolYields, poolRate, poolRated, poolReset,
  poolFees, poolBalance, poolStray

copyVars == <<copyInc, copyDec, copyLastInc, copyLastDec, copyTotals, copyShares,
              copyPending, copyLpValue, copyStats, copySlot, copyCommission,
              copyBalance, copyExecs, copyActive, copyValuedAt>>
valueVars == <<valuePositions, valueOrders, valueWork, valueBatch, valueValue,
               valueRun, valueRequests, valueChanges, valueQuiet, valueBegan>>
loaderVars == <<loaderNow, loaderListed, loaderLastAdded, loaderKnown, loaderLoader,
                loaderLastCheck, loaderMissed>>
counterVars == <<counterShares, counterTotal, counterSlot, counterBalance,
                 counterPositions, counterExecs>>
vaultVars == <<vaultPaused, vaultBps, vaultBalance, vaultLp, vaultTotalLp, vaultQueue,
               vaultPending, vaultRequests, vaultNextId, vaultAlloc, vaultHeld,
               vaultCame>>
crankVars == <<crankWork, crankFifo, crankSet, crankGuards, crankChannel, crankFree,
               crankRunner, crankPrice>>
watcherVars == <<watcherResult, watcherExpire, watcherStarted, watcherRunning,
                 watcherTodo, watcherFailed, watcherTotal, watcherRetries,
                 watcherSleep, watcherTold, watcherMisled, watcherHealth,
                 watcherPaused>>
priceVars == <<priceOracle, priceMkt, priceItem, priceHit, priceHuge, priceQueue,
               priceTask, priceError, priceWork, priceTokens, priceHigh>>
hitVars == <<hitOracle, hitMkt, hitItem, hitHit, hitHuge, hitQueue, hitTask, hitError,
             hitWork, hitTokens, hitHigh>>
dirVars == <<dirAdded, dirStamp, dirStatus, dirWork, dirCtMade, dirCtWork, dirMarkets,
             dirList, dirTask, dirTodo, dirCtKnown, dirCt, dirLate, dirUntold>>
listingVars == <<listingAdded, listingStamp, listingStatus, listingWork,
                 listingCtMade, listingCtWork, listingMarkets, listingList,
                 listingTask, listingTodo, listingCtKnown, listingCt, listingLate, listingUntold>>
batchVars == <<batchStatus, batchQueue, batchBatch, batchTries, batchPaid>>
poolVars == <<poolNow, poolPool, poolProviders, poolYields, poolRate, poolRated,
              poolReset, poolFees, poolBalance, poolStray>>
vars == <<part, copyVars, valueVars, loaderVars, counterVars, vaultVars, crankVars,
                  watcherVars, priceVars, hitVars, dirVars, listingVars, batchVars,
                  poolVars>>

Poisoned == CHOOSE m \in BotMarkets : TRUE   \* its crank always fails

\* One follower and the leader, with amounts that may be dust.
Copy == INSTANCE CopyTrading WITH
  Wallets <- {CHOOSE w \in Wallets : TRUE}, One <- 4, Unit <- 1, Tolerance <- 0,
  Deposits <- {1, 4}, Redeems <- {1, 4}, Stakes <- {2}, Payouts <- {0, 3},
  Gifts <- {}, CrankFee <- 1, Rate <- 2, MaxInc <- 2, MaxDec <- 2, MaxBalance <- 8,
  inc <- copyInc, dec <- copyDec,
  lastInc <- copyLastInc, lastDec <- copyLastDec, totals <- copyTotals,
  shares <- copyShares, pending <- copyPending, lpValue <- copyLpValue,
  stats <- copyStats, slot <- copySlot, commission <- copyCommission,
  balance <- copyBalance, execs <- copyExecs, active <- copyActive,
  valuedAt <- copyValuedAt

\* The value of two markets, computed in batches of one query.
Value == INSTANCE CopyTradingValue WITH
  NumMarkets <- 2, MaxId <- 1, TokenPage <- 1, OrderPage <- 1, AllowedQueries <- 1,
  MaxChanges <- 2, MaxRequests <- 2, positions <- valuePositions,
  orders <- valueOrders, work <- valueWork, batch <- valueBatch, value <- valueValue,
  run <- valueRun, requests <- valueRequests, changes <- valueChanges,
  quiet <- valueQuiet, began <- valueBegan

\* The market list, copied in pages of two.
Loader == INSTANCE CopyTradingMarkets WITH
  NumMarkets <- 3, PageSize <- 2, Period <- 2, MaxTime <- 8, now <- loaderNow,
  listed <- loaderListed, lastAdded <- loaderLastAdded, known <- loaderKnown,
  loader <- loaderLoader, lastCheck <- loaderLastCheck, missed <- loaderMissed

\* Counter trade without gifts.
Counter == INSTANCE CounterTrade WITH
  Wallets <- Wallets, One <- 4, Unit <- 2, Deposits <- {2, 6}, Redeems <- {1, 2, 6},
  Stakes <- {2, 4}, Payouts <- {0, 6}, Gifts <- {}, CrankFee <- 2, MaxExecs <- 2,
  MaxBalance <- 8, shares <- counterShares, total <- counterTotal,
  slot <- counterSlot, balance <- counterBalance, positions <- counterPositions,
  execs <- counterExecs

\* A vault of the native coin with one market.
Vault == INSTANCE Vault WITH
  Users <- Wallets, Markets <- {Poisoned}, Native <- TRUE, Amounts <- {1, 2},
  Shares <- {0, 1}, Limit <- 2, MaxQueue <- 2, MaxUsdc <- 3, paused <- vaultPaused,
  bps <- vaultBps, balance <- vaultBalance, lp <- vaultLp, totalLp <- vaultTotalLp,
  queue <- vaultQueue, pending <- vaultPending, requests <- vaultRequests,
  nextId <- vaultNextId, alloc <- vaultAlloc, held <- vaultHeld, came <- vaultCame

\* Two runners, one wallet and one slot for two markets.
Crank == INSTANCE BotCrank WITH
  Markets <- BotMarkets, Runners <- Runners, Capacity <- 1, Wallets <- 1,
  MaxWork <- 1, work <- crankWork, fifo <- crankFifo, set <- crankSet,
  guards <- crankGuards, channel <- crankChannel, free <- crankFree,
  runner <- crankRunner, price <- crankPrice

\* A task that works on all markets at once.
Parallel == INSTANCE BotWatcher WITH
  Kind <- "parallel", Pieces <- 2, OutOfDate <- 2, MaxRetries <- 2, Delay <- 1,
  SoftErrors <- FALSE, Errors <- Errors, result <- watcherResult,
  expire <- watcherExpire, started <- watcherStarted, running <- watcherRunning,
  todo <- watcherTodo, failed <- watcherFailed, total <- watcherTotal,
  retries <- watcherRetries, sleep <- watcherSleep, told <- watcherTold,
  misled <- watcherMisled, health <- watcherHealth, paused <- watcherPaused

\* One piece of work that may report an error itself.
Single == INSTANCE BotWatcher WITH
  Kind <- "single", Pieces <- 1, OutOfDate <- 0, MaxRetries <- 3, Delay <- 0,
  SoftErrors <- TRUE, Errors <- Errors, result <- watcherResult,
  expire <- watcherExpire, started <- watcherStarted, running <- watcherRunning,
  todo <- watcherTodo, failed <- watcherFailed, total <- watcherTotal,
  retries <- watcherRetries, sleep <- watcherSleep, told <- watcherTold,
  misled <- watcherMisled, health <- watcherHealth, paused <- watcherPaused

\* Deferred items, with a market that spoils the common transaction.
PriceItems == INSTANCE BotPrice WITH
  Markets <- BotMarkets, Poison <- {Poisoned}, Limit <- 1, Threshold <- 2,
  Tolerance <- 4, Slots <- 1, Source <- "pyth", Items <- TRUE, Hits <- FALSE,
  oracle <- priceOracle, mkt <- priceMkt, item <- priceItem, hit <- priceHit,
  huge <- priceHuge, queue <- priceQueue, task <- priceTask, error <- priceError,
  work <- priceWork, tokens <- priceTokens, high <- priceHigh

\* Deferred items and triggers with prices of the chain's own.
NativeItems == INSTANCE BotPrice WITH
  Markets <- {Poisoned}, Poison <- {}, Limit <- 1, Threshold <- 2,
  Tolerance <- 4, Slots <- 1, Source <- "native", Items <- TRUE, Hits <- TRUE,
  oracle <- hitOracle, mkt <- hitMkt, item <- hitItem, hit <- hitHit,
  huge <- hitHuge, queue <- hitQueue, task <- hitTask, error <- hitError,
  work <- hitWork, tokens <- hitTokens, high <- hitHigh

\* Prices that trigger orders.
PriceHits == INSTANCE BotPrice WITH
  Markets <- {Poisoned}, Poison <- {}, Limit <- 1, Threshold <- 2, Tolerance <- 4,
  Slots <- 1, Source <- "pyth", Items <- FALSE, Hits <- TRUE, oracle <- hitOracle,
  mkt <- hitMkt, item <- hitItem, hit <- hitHit, huge <- hitHuge, queue <- hitQueue,
  task <- hitTask, error <- hitError, work <- hitWork, tokens <- hitTokens,
  high <- hitHigh

\* Copy trading contracts, in pages of two.
Lists == INSTANCE BotDirectory WITH
  MaxContracts <- 3, Page <- 2, Markets <- {}, Ignored <- {}, Poison <- {1},
  Restarts <- FALSE, Lost <- FALSE, added <- dirAdded, stamp <- dirStamp,
  status <- dirStatus, work <- dirWork, ctMade <- dirCtMade, ctWork <- dirCtWork,
  markets <- dirMarkets, list <- dirList, task <- dirTask, todo <- dirTodo,
  ctKnown <- dirCtKnown, ct <- dirCt, late <- dirLate, untold <- dirUntold

\* Markets and their counter trade contracts, which others may make.
Listings == INSTANCE BotDirectory WITH
  MaxContracts <- 0, Page <- 1, Markets <- {1, 2}, Ignored <- {2}, Poison <- {1},
  Restarts <- FALSE, Lost <- TRUE, added <- listingAdded, stamp <- listingStamp,
  status <- listingStatus, work <- listingWork, ctMade <- listingCtMade,
  ctWork <- listingCtWork, markets <- listingMarkets, list <- listingList,
  task <- listingTask, todo <- listingTodo, ctKnown <- listingCtKnown, ct <- listingCt,
  late <- listingLate, untold <- listingUntold

\* Four requests, two of them for the same wallet.
Requests == INSTANCE BotBatches WITH
  Requests <- 1..4, Wallets <- {2, 3, 4}, WalletOf <- <<2, 2, 3, 4>>, QueueSize <- 2,
  BatchSize <- 3, Retries <- 3, Faucet <- TRUE, status <- batchStatus,
  queue <- batchQueue, batch <- batchBatch, tries <- batchTries, paid <- batchPaid

\* A liquidity pool that loses everything and is reset, provider by provider.
Pool == INSTANCE LiquidityPool WITH
  NumProviders <- 2, One <- 2, Dust <- 2, Deposits <- {2}, Shares <- {1},
  FeeAmounts <- {0}, Gains <- {1}, ProtocolTax <- 0, ReferralRatio <- 0,
  CrankReward <- 1, MaxLiquidity <- 2, UnstakePeriod <- 2, Cooldown <- 0,
  MaxTime <- 1, MaxYields <- 3, MaxFees <- 2, MaxBalance <- 4, now <- poolNow,
  pool <- poolPool, providers <- poolProviders, yields <- poolYields,
  rate <- poolRate, rated <- poolRated, reset <- poolReset, fees <- poolFees,
  balance <- poolBalance, stray <- poolStray

ASSUME ConstantsFit ==
  /\ Copy!ConstantsOK
  /\ Value!ConstantsOK
  /\ Loader!ConstantsOK
  /\ Counter!ConstantsOK
  /\ Vault!ConstantsOK
  /\ Crank!ConstantsOK
  /\ Parallel!ConstantsOK
  /\ Single!ConstantsOK
  /\ PriceItems!ConstantsOK
  /\ NativeItems!ConstantsOK
  /\ PriceHits!ConstantsOK
  /\ Lists!ConstantsOK
  /\ Listings!ConstantsOK
  /\ Requests!ConstantsOK

Parts == {"copy", "value", "markets", "counter", "vault", "crank", "parallel",
          "single", "items", "native items", "hits", "lists", "listings", "faucet", "reset"}


Init ==
  /\ part \in Parts
  /\ Copy!Init
  /\ Value!Init
  /\ part = "value" \/ <<valuePositions, valueOrders>> = <<<<{}, {}>>, <<{}, {}>>>>
  /\ Loader!Init
  /\ part = "markets" \/ loaderListed = {}
  /\ Counter!Init
  /\ Vault!Init
  /\ part = "vault" \/ DOMAIN vaultBps = {}
  /\ Crank!Init
  /\ CASE part = "single" -> Single!Init
       [] OTHER -> Parallel!Init
  /\ PriceItems!Init
  /\ IF part = "native items" THEN NativeItems!Init ELSE PriceHits!Init
  /\ Lists!Init
  /\ Listings!Init
  /\ Requests!Init
  /\ Pool!Init

\* The variables of another part stand still.
Frozen(parts, v) == IF part \in parts THEN TRUE ELSE UNCHANGED v

Others ==
  /\ UNCHANGED part
  /\ Frozen({"copy"}, copyVars)
  /\ Frozen({"value"}, valueVars)
  /\ Frozen({"markets"}, loaderVars)
  /\ Frozen({"counter"}, counterVars)
  /\ Frozen({"vault"}, vaultVars)
  /\ Frozen({"crank"}, crankVars)
  /\ Frozen({"parallel", "single"}, watcherVars)
  /\ Frozen({"items"}, priceVars)
  /\ Frozen({"hits", "native items"}, hitVars)
  /\ Frozen({"lists"}, dirVars)
  /\ Frozen({"listings"}, listingVars)
  /\ Frozen({"faucet"}, batchVars)
  /\ Frozen({"reset"}, poolVars)

Next ==
  \/ part = "copy" /\ Copy!Next /\ Others
  \/ part = "value" /\ Value!Next /\ Others
  \/ part = "markets" /\ Loader!Next /\ Others
  \/ part = "counter" /\ Counter!Next /\ Others
  \/ part = "vault" /\ Vault!Next /\ Others
  \/ part = "crank" /\ Crank!Next /\ Others
  \/ part = "parallel" /\ Parallel!Next /\ Others
  \/ part = "single" /\ Single!Next /\ Others
  \/ part = "items" /\ PriceItems!Next /\ Others
  \/ part = "native items" /\ NativeItems!Next /\ Others
  \/ part = "hits" /\ PriceHits!Next /\ Others
  \/ part = "lists" /\ Lists!Next /\ Others
  \/ part = "listings" /\ Listings!Next /\ Others
  \/ part = "faucet" /\ Requests!Next /\ Others
  \/ part = "reset" /\ Pool!Next /\ Others

Spec == Init /\ [][Next]_vars

CopyFair ==
  /\ WF_copyVars(part = "copy" /\ ~Copy!SlotTaken /\ Copy!DoWork)
  /\ WF_copyVars(part = "copy" /\ \E id \in DOMAIN copyExecs : Copy!MarketExecutes(id))

ValueFair ==
  /\ WF_valueVars(part = "value" /\ (Value!ResetStats \/ Value!Compute))

LoaderFair ==
  /\ WF_loaderVars(part = "markets" /\ Loader!LoadMarket)
  /\ WF_loaderVars(part = "markets" /\ Loader!Tick)

CounterFair ==
  /\ WF_counterVars(part = "counter" /\ (Counter!ResetShares \/ Counter!ClearDeferredExec))
  /\ WF_counterVars(part = "counter" /\ \E id \in DOMAIN counterExecs : Counter!MarketExecutes(id))

VaultFair ==
  /\ WF_vaultVars(part = "vault" /\ Vault!ProcessWithdrawal)

CrankFair ==
  /\ WF_crankVars(part = "crank" /\ Crank!Price)
  /\ \A r \in Runners : WF_crankVars(part = "crank" /\ Crank!Step(r))
  /\ \A r \in Runners : SF_crankVars(part = "crank" /\ Crank!GetPoolWallet(r))

ParallelFair ==
  /\ WF_watcherVars(part = "parallel" /\ Parallel!Start)
  /\ WF_watcherVars(part = "parallel" /\ Parallel!End)
  /\ WF_watcherVars(part = "parallel" /\ Parallel!Tick)
  /\ WF_watcherVars(part = "parallel" /\ Parallel!PieceSucceeds)

SingleFair ==
  /\ WF_watcherVars(part = "single" /\ Single!Start)
  /\ WF_watcherVars(part = "single" /\ Single!End)
  /\ WF_watcherVars(part = "single" /\ Single!Tick)
  /\ WF_watcherVars(part = "single" /\ Single!PieceSucceeds)

ItemsFair ==
  /\ WF_priceVars(part = "items" /\ PriceItems!Tick)
  /\ WF_priceVars(part = "items" /\ PriceItems!PriceTask)
  /\ WF_priceVars(part = "items" /\ PriceItems!HighTask)
  /\ SF_priceVars(part = "items" /\ PriceItems!MultiOk)
  /\ SF_priceVars(part = "items" /\ (PriceItems!MultiOk \/ PriceItems!MultiFailed))
  /\ SF_priceVars(part = "items" /\ PriceItems!SingleOk)
  /\ \A m \in BotMarkets : WF_priceVars(part = "items" /\ PriceItems!Runner(m))
  /\ \A m \in BotMarkets : SF_priceVars(part = "items" /\ PriceItems!RunnerOk(m))

NativeFair ==
  /\ WF_hitVars(part = "native items" /\ NativeItems!Tick)
  /\ WF_hitVars(part = "native items" /\ NativeItems!PriceTask)
  /\ WF_hitVars(part = "native items" /\ NativeItems!HighTask)
  /\ SF_hitVars(part = "native items" /\ NativeItems!MultiOk)
  /\ SF_hitVars(part = "native items" /\ (NativeItems!MultiOk \/ NativeItems!MultiFailed))
  /\ SF_hitVars(part = "native items" /\ NativeItems!SingleOk)
  /\ \A m \in {Poisoned} : WF_hitVars(part = "native items" /\ NativeItems!Runner(m))
  /\ \A m \in {Poisoned} : SF_hitVars(part = "native items" /\ NativeItems!RunnerOk(m))

HitsFair ==
  /\ WF_hitVars(part = "hits" /\ PriceHits!Tick)
  /\ WF_hitVars(part = "hits" /\ PriceHits!PriceTask)
  /\ WF_hitVars(part = "hits" /\ PriceHits!HighTask)
  /\ SF_hitVars(part = "hits" /\ PriceHits!MultiOk)
  /\ SF_hitVars(part = "hits" /\ (PriceHits!MultiOk \/ PriceHits!MultiFailed))
  /\ SF_hitVars(part = "hits" /\ PriceHits!SingleOk)
  /\ \A m \in {Poisoned} : WF_hitVars(part = "hits" /\ PriceHits!Runner(m))
  /\ \A m \in {Poisoned} : SF_hitVars(part = "hits" /\ PriceHits!RunnerOk(m))

ListsFair ==
  /\ WF_dirVars(part = "lists" /\ (Lists!Boot(TRUE) \/ Lists!Boot(FALSE)))
  /\ SF_dirVars(part = "lists" /\ Lists!Boot(FALSE))
  /\ WF_dirVars(part = "lists" /\ (Lists!StartFactoryRun(TRUE) \/ Lists!StartFactoryRun(FALSE)))
  /\ SF_dirVars(part = "lists" /\ Lists!StartFactoryRun(FALSE))
  /\ WF_dirVars(part = "lists" /\ (Lists!Query \/ Lists!FactoryRunFails))
  /\ WF_dirVars(part = "lists" /\ Lists!StartWork)
  /\ \A c \in 1..3 : WF_dirVars(part = "lists" /\ Lists!LeaveContract(c))
  /\ \A c \in 1..3 : SF_dirVars(part = "lists" /\ Lists!DoWork(c) /\ dirWork' # dirWork)

ListingsFair ==
  /\ WF_listingVars(part = "listings" /\ (Listings!Boot(TRUE) \/ Listings!Boot(FALSE)))
  /\ SF_listingVars(part = "listings" /\ Listings!Boot(FALSE))
  /\ WF_listingVars(part = "listings" /\ (Listings!StartFactoryRun(TRUE) \/ Listings!StartFactoryRun(FALSE)))
  /\ SF_listingVars(part = "listings" /\ Listings!StartFactoryRun(FALSE))
  /\ WF_listingVars(part = "listings" /\ (Listings!Query \/ Listings!FactoryRunFails))
  /\ WF_listingVars(part = "listings" /\ Listings!StartWork)
  /\ \A k \in {1, 2} : WF_listingVars(part = "listings" /\ Listings!CtStart(k))
  /\ \A k \in {1, 2} : WF_listingVars(part = "listings" /\ Listings!CtEnd(k))
  /\ \A k \in {1, 2} : SF_listingVars(part = "listings" /\ Listings!CtCreate(k))
  /\ \A k \in {1, 2} : SF_listingVars(part = "listings" /\ Listings!CtWork(k))

RequestsFair ==
  /\ WF_batchVars(part = "faucet" /\ Requests!Receive)
  /\ WF_batchVars(part = "faucet" /\ (Requests!Succeed \/ \E executed \in BOOLEAN : Requests!Fail(executed)))
  /\ \A r \in 1..4 : WF_batchVars(part = "faucet" /\ Requests!Send(r))

PoolFair ==
  /\ WF_poolVars(part = "reset" /\ Pool!CrankResetLpBalances)

\* What wallets ask for is settled in the end, but for the cases that the parts
\* name. Requests of copy trading are, unless their contract stops for good at a
\* head that is not worked on (SettlesUnlessStopped); a value is computed, unless a
\* validation was resumed at a later market (ValueComputed); the market list gets
\* complete but for markets listed behind the last one or in the block of a check
\* (EveryMarketKnown). The wait of a counter trade ends, the withdrawals of a vault
\* of the native coin are paid, and a drained pool is reset.
RequestsSettle ==
  /\ (part = "copy" /\ CopyFair) => Copy!SettlesUnlessStopped
  /\ (part = "value" /\ ValueFair) => Value!ValueComputed
  /\ (part = "markets" /\ LoaderFair) => Loader!EveryMarketKnown
  /\ (part = "markets" /\ LoaderFair) => Loader!RequestsGetTheirTurn
  /\ (part = "counter" /\ CounterFair) => Counter!WaitingEnds
  /\ (part = "vault" /\ VaultFair) => Vault!RequestsPaid
  /\ (part = "reset" /\ PoolFair) => Pool!ResetEnds

\* The bots find work and do it, but for the cases that the parts name. A market
\* with work is cranked and handed back. Deferred items get their transactions, in
\* markets without off-chain prices if the bots crank them for something else
\* (ItemServed); so do off-chain prices that trigger. New copy trading contracts
\* are found and served, except those added between the last page and the time
\* (EveryContractFound, copy_trade.rs:67); so are counter trade contracts, except
\* those the bots were not told of (CounterServed). Calls are answered, and a
\* status shows what is broken and what has recovered.
WorkGetsDone ==
  /\ (part = "crank" /\ CrankFair) => Crank!WorkServed
  /\ (part = "crank" /\ CrankFair) => Crank!HandedBack
  /\ (part = "items" /\ ItemsFair) => PriceItems!ItemServed
  /\ (part = "native items" /\ NativeFair) => NativeItems!ItemServed
  /\ (part = "hits" /\ HitsFair) => PriceHits!HitServed
  /\ (part = "lists" /\ ListsFair) => Lists!NewsFound
  /\ (part = "lists" /\ ListsFair) => Lists!EveryContractFound
  /\ (part = "lists" /\ ListsFair) => Lists!WorkServed
  /\ (part = "listings" /\ ListingsFair) => Listings!CounterServed
  /\ (part = "faucet" /\ RequestsFair) => Requests!AllAnswered
  /\ (part = "parallel" /\ ParallelFair) => Parallel!BrokenShown
  /\ (part = "single" /\ SingleFair) => Single!RecoveryShown

==============================================================================

------------------------------- MODULE MCBots --------------------------------
(* The bots that keep the system going: the runners that crank, the tasks   *)
(* and their watcher, the price task, the lists of contracts, the faucet    *)
(* and minter of the test networks and the price feeds. The tasks of one    *)
(* part interleave with each other and with the chain; the initial state    *)
(* chooses the part that runs. Constants are given here, with the           *)
(* instances. What must eventually happen is checked in MCProgress.         *)
EXTENDS BotCrank

CONSTANTS
  PriceMarkets,  \* markets the price task serves
  Errors         \* messages of errors

VARIABLES
  part,   \* the part that runs
  watcherResult, watcherExpire, watcherStarted, watcherRunning, watcherTodo,
  watcherFailed, watcherTotal, watcherRetries, watcherSleep, watcherTold,
  watcherMisled, watcherHealth, watcherPaused,
  hitOracle, hitMkt, hitItem, hitHit, hitHuge, hitQueue, hitTask, hitError, hitWork,
  hitTokens, hitHigh,
  priceOracle, priceMkt, priceItem, priceHit, priceHuge, priceQueue, priceTask,
  priceError, priceWork, priceTokens, priceHigh,
  dirAdded, dirStamp, dirStatus, dirWork, dirCtMade, dirCtWork, dirMarkets, dirList,
  dirTask, dirTodo, dirCtKnown, dirCt, dirLate, dirUntold,
  listingAdded, listingStamp, listingStatus, listingWork, listingCtMade,
  listingCtWork, listingMarkets, listingList, listingTask, listingTodo,
  listingCtKnown, listingCt, listingLate, listingUntold,
  batchStatus, batchQueue, batchBatch, batchTries, batchPaid,
  feedsLoaded, feedsOnChain, feedsVerdict

watcherVars == <<watcherResult, watcherExpire, watcherStarted, watcherRunning,
                 watcherTodo, watcherFailed, watcherTotal, watcherRetries,
                 watcherSleep, watcherTold, watcherMisled, watcherHealth,
                 watcherPaused>>
hitVars == <<hitOracle, hitMkt, hitItem, hitHit, hitHuge, hitQueue, hitTask, hitError,
             hitWork, hitTokens, hitHigh>>
priceVars == <<priceOracle, priceMkt, priceItem, priceHit, priceHuge, priceQueue,
               priceTask, priceError, priceWork, priceTokens, priceHigh>>
dirVars == <<dirAdded, dirStamp, dirStatus, dirWork, dirCtMade, dirCtWork, dirMarkets,
             dirList, dirTask, dirTodo, dirCtKnown, dirCt, dirLate, dirUntold>>
listingVars == <<listingAdded, listingStamp, listingStatus, listingWork,
                 listingCtMade, listingCtWork, listingMarkets, listingList,
                 listingTask, listingTodo, listingCtKnown, listingCt, listingLate, listingUntold>>
batchVars == <<batchStatus, batchQueue, batchBatch, batchTries, batchPaid>>
feedsVars == <<feedsLoaded, feedsOnChain, feedsVerdict>>
MCVars == <<part, vars, watcherVars, hitVars, priceVars, dirVars, listingVars,
                  batchVars, feedsVars>>

Poisoned == CHOOSE m \in PriceMarkets : TRUE   \* its crank always fails

\* A Pyth feed, a redemption rate and a price of the chain's own, which count
\* for the publish time, and two Pyth feeds; the price in USD shares a feed with
\* them, and may have a Pyth feed of its own.
Feed(i, k, t, v) == [id |-> i, kind |-> k, tolerance |-> t, volatile |-> v]
RateFeeds ==
  << Feed("p", "pyth", 4, TRUE), Feed("s", "stride", 2, TRUE), Feed("r", "rujira", 0, TRUE) >>
PythFeeds == << Feed("p", "pyth", 4, TRUE), Feed("q", "pyth", 4, TRUE) >>
UsdFeeds == << Feed("p", "pyth", 4, TRUE), Feed("c", "constant", 0, FALSE) >>
OwnUsdFeeds == << Feed("p", "pyth", 4, TRUE), Feed("u", "pyth", 3, TRUE) >>

\* A task that goes through two markets one by one.
Watcher == INSTANCE BotWatcher WITH
  Kind <- "sequential", Pieces <- 2, OutOfDate <- 2, MaxRetries <- 3, Delay <- 1,
  SoftErrors <- FALSE, Errors <- Errors, result <- watcherResult,
  expire <- watcherExpire, started <- watcherStarted, running <- watcherRunning,
  todo <- watcherTodo, failed <- watcherFailed, total <- watcherTotal,
  retries <- watcherRetries, sleep <- watcherSleep, told <- watcherTold,
  misled <- watcherMisled, health <- watcherHealth, paused <- watcherPaused

\* One piece of work that may report an error itself.
Single == INSTANCE BotWatcher WITH
  Kind <- "single", Pieces <- 1, OutOfDate <- 0, MaxRetries <- 3, Delay <- 0,
  SoftErrors <- TRUE, Errors <- Errors, result <- watcherResult,
  expire <- watcherExpire, started <- watcherStarted, running <- watcherRunning,
  todo <- watcherTodo, failed <- watcherFailed, total <- watcherTotal,
  retries <- watcherRetries, sleep <- watcherSleep, told <- watcherTold,
  misled <- watcherMisled, health <- watcherHealth, paused <- watcherPaused

\* Prices that trigger orders.
PriceHits == INSTANCE BotPrice WITH
  Markets <- {Poisoned}, Poison <- {}, Limit <- 1, Threshold <- 2, Tolerance <- 4,
  Slots <- 1, Source <- "pyth", Items <- FALSE, Hits <- TRUE, oracle <- hitOracle,
  mkt <- hitMkt, item <- hitItem, hit <- hitHit, huge <- hitHuge, queue <- hitQueue,
  task <- hitTask, error <- hitError, work <- hitWork, tokens <- hitTokens,
  high <- hitHigh

\* Prices of the chain's own oracle.
PriceNative == INSTANCE BotPrice WITH
  Markets <- PriceMarkets, Poison <- {}, Limit <- 1, Threshold <- 2, Tolerance <- 4,
  Slots <- 1, Source <- "native", Items <- FALSE, Hits <- TRUE, oracle <- priceOracle,
  mkt <- priceMkt, item <- priceItem, hit <- priceHit, huge <- priceHuge,
  queue <- priceQueue, task <- priceTask, error <- priceError, work <- priceWork,
  tokens <- priceTokens, high <- priceHigh

\* Copy trading contracts, in pages of two.
Lists == INSTANCE BotDirectory WITH
  MaxContracts <- 3, Page <- 2, Markets <- {}, Ignored <- {}, Poison <- {1},
  Restarts <- FALSE, Lost <- FALSE, added <- dirAdded, stamp <- dirStamp,
  status <- dirStatus, work <- dirWork, ctMade <- dirCtMade, ctWork <- dirCtWork,
  markets <- dirMarkets, list <- dirList, task <- dirTask, todo <- dirTodo,
  ctKnown <- dirCtKnown, ct <- dirCt, late <- dirLate, untold <- dirUntold

\* The process restarts, and answers get lost.
ListRestarts == INSTANCE BotDirectory WITH
  MaxContracts <- 1, Page <- 1, Markets <- {1, 2}, Ignored <- {2}, Poison <- {1},
  Restarts <- TRUE, Lost <- TRUE, added <- listingAdded, stamp <- listingStamp,
  status <- listingStatus, work <- listingWork, ctMade <- listingCtMade,
  ctWork <- listingCtWork, markets <- listingMarkets, list <- listingList,
  task <- listingTask, todo <- listingTodo, ctKnown <- listingCtKnown, ct <- listingCt,
  late <- listingLate, untold <- listingUntold

\* Four requests, two of them for the same wallet.
FaucetBatches == INSTANCE BotBatches WITH
  Requests <- 1..4, Wallets <- {2, 3, 4}, WalletOf <- <<2, 2, 3, 4>>, QueueSize <- 2,
  BatchSize <- 3, Retries <- 3, Faucet <- TRUE, status <- batchStatus,
  queue <- batchQueue, batch <- batchBatch, tries <- batchTries, paid <- batchPaid

MinterBatches == INSTANCE BotBatches WITH
  Requests <- 1..4, Wallets <- {2, 3, 4}, WalletOf <- <<2, 2, 3, 4>>, QueueSize <- 2,
  BatchSize <- 2, Retries <- 1, Faucet <- FALSE, status <- batchStatus,
  queue <- batchQueue, batch <- batchBatch, tries <- batchTries, paid <- batchPaid

\* A Pyth feed and two of other kinds, and a Pyth feed of the price in USD only.
FeedCheck == INSTANCE BotFeeds WITH
  Feeds <- RateFeeds, FeedsUsd <- OwnUsdFeeds, VolatileDiff <- 2, MaxAge <- 5,
  loaded <- feedsLoaded, onChain <- feedsOnChain, verdict <- feedsVerdict

\* Two Pyth feeds, updated together.
PythCheck == INSTANCE BotFeeds WITH
  Feeds <- PythFeeds, FeedsUsd <- UsdFeeds, VolatileDiff <- 2, MaxAge <- 5,
  loaded <- feedsLoaded, onChain <- feedsOnChain, verdict <- feedsVerdict

ASSUME ConstantsFit ==
  /\ Watcher!ConstantsOK
  /\ Single!ConstantsOK
  /\ PriceHits!ConstantsOK
  /\ PriceNative!ConstantsOK
  /\ Lists!ConstantsOK
  /\ ListRestarts!ConstantsOK
  /\ FaucetBatches!ConstantsOK
  /\ MinterBatches!ConstantsOK
  /\ FeedCheck!ConstantsOK
  /\ PythCheck!ConstantsOK

Parts == {"crank", "watcher", "single", "hits", "native", "lists", "restarts",
          "faucet", "minter", "feeds", "two feeds"}

\* A part that does not run is off.
watcherOff ==
  /\ watcherResult = 0 /\ watcherExpire = 0 /\ watcherStarted = 0
  /\ watcherRunning = 0 /\ watcherTodo = 0 /\ watcherFailed = 0 /\ watcherTotal = 0
  /\ watcherRetries = 0 /\ watcherSleep = 0 /\ watcherTold = 0 /\ watcherHealth = 0
  /\ watcherPaused = 0 /\ watcherMisled = 0
hitOff ==
  /\ hitOracle = 0 /\ hitMkt = 0 /\ hitItem = 0 /\ hitHit = 0 /\ hitHuge = 0
  /\ hitQueue = 0 /\ hitTask = 0 /\ hitError = 0 /\ hitWork = 0 /\ hitTokens = 0
  /\ hitHigh = 0
priceOff ==
  /\ priceOracle = 0 /\ priceMkt = 0 /\ priceItem = 0 /\ priceHit = 0
  /\ priceHuge = 0 /\ priceQueue = 0 /\ priceTask = 0 /\ priceError = 0
  /\ priceWork = 0 /\ priceTokens = 0 /\ priceHigh = 0
dirOff ==
  /\ dirAdded = 0 /\ dirStamp = 0 /\ dirStatus = 0 /\ dirWork = 0 /\ dirCtMade = 0
  /\ dirCtWork = 0 /\ dirMarkets = 0 /\ dirList = 0 /\ dirTask = 0 /\ dirTodo = 0
  /\ dirCtKnown = 0 /\ dirCt = 0
  /\ dirLate = 0 /\ dirUntold = 0
listingOff ==
  /\ listingAdded = 0 /\ listingStamp = 0 /\ listingStatus = 0 /\ listingWork = 0
  /\ listingCtMade = 0 /\ listingCtWork = 0 /\ listingMarkets = 0 /\ listingList = 0
  /\ listingTask = 0 /\ listingTodo = 0 /\ listingCtKnown = 0 /\ listingCt = 0
  /\ listingLate = 0 /\ listingUntold = 0
batchOff ==
  /\ batchStatus = 0 /\ batchQueue = 0 /\ batchBatch = 0 /\ batchTries = 0
  /\ batchPaid = 0
feedsOff ==
  /\ feedsLoaded = 0 /\ feedsOnChain = 0 /\ feedsVerdict = 0

MCInit ==
  /\ part \in Parts
  /\ Init
  /\ CASE part = "watcher" -> Watcher!Init
       [] part = "single" -> Single!Init
       [] OTHER -> watcherOff
  /\ CASE part = "hits" -> PriceHits!Init
       [] OTHER -> hitOff
  /\ CASE part = "native" -> PriceNative!Init
       [] OTHER -> priceOff
  /\ CASE part = "lists" -> Lists!Init
       [] OTHER -> dirOff
  /\ CASE part = "restarts" -> ListRestarts!Init
       [] OTHER -> listingOff
  /\ CASE part = "faucet" -> FaucetBatches!Init
       [] part = "minter" -> MinterBatches!Init
       [] OTHER -> batchOff
  /\ CASE part = "feeds" -> FeedCheck!Init
       [] part = "two feeds" -> PythCheck!Init
       [] OTHER -> feedsOff

\* The variables of another part stand still.
Frozen(parts, v) == IF part \in parts THEN TRUE ELSE UNCHANGED v

Others ==
  /\ UNCHANGED part
  /\ Frozen({"crank"}, vars)
  /\ Frozen({"watcher", "single"}, watcherVars)
  /\ Frozen({"hits"}, hitVars)
  /\ Frozen({"native"}, priceVars)
  /\ Frozen({"lists"}, dirVars)
  /\ Frozen({"restarts"}, listingVars)
  /\ Frozen({"faucet", "minter"}, batchVars)
  /\ Frozen({"feeds", "two feeds"}, feedsVars)

MCNext ==
  \/ part = "crank" /\ Next /\ Others
  \/ part = "watcher" /\ Watcher!Next /\ Others
  \/ part = "single" /\ Single!Next /\ Others
  \/ part = "hits" /\ PriceHits!Next /\ Others
  \/ part = "native" /\ PriceNative!Next /\ Others
  \/ part = "lists" /\ Lists!Next /\ Others
  \/ part = "restarts" /\ ListRestarts!Next /\ Others
  \/ part = "faucet" /\ FaucetBatches!Next /\ Others
  \/ part = "minter" /\ MinterBatches!Next /\ Others
  \/ part = "feeds" /\ FeedCheck!Next /\ Others
  \/ part = "two feeds" /\ PythCheck!Next /\ Others

MCSpec == MCInit /\ [][MCNext]_MCVars

\* What the bots tell is true: Sentry was told of what a task is like, except that
\* a run which reports an error itself may be told as a recovery or a start
\* (watcher.rs:483, :489); a task that works is never shown as very late; a price
\* the bot finds is made of feeds the market takes, and without an update when it
\* says so, the feeds of the price in USD aside, which it does not look at
\* (oracle.rs:139); and a caller who is told "paid" was paid once.
ToldTruly ==
  /\ part = "watcher" => Watcher!NeverVeryLate /\ Watcher!ToldOrMisled
  /\ part = "single" => Single!ToldOrMisled
  /\ part = "feeds" => FeedCheck!MarketWouldTakeIt /\ FeedCheck!NoUpdateNeeded
  /\ part = "two feeds" => PythCheck!MarketWouldTakeIt /\ PythCheck!NoUpdateNeeded
  /\ part = "faucet" =>
       /\ FaucetBatches!OkMeansPaid
       /\ FaucetBatches!PaidOnce
       /\ FaucetBatches!WaitingOnce
  /\ part = "minter" => MinterBatches!OkMeansPaid /\ MinterBatches!PaidOnce

\* The lists the bots keep are true: contracts are known in the order of the
\* factory, and all of them when the bots take it that nothing was added, but those
\* added between the last page and the time (copy_trade.rs:67); counter trade
\* contracts are known if they exist and the bots were told; and urgent prices are
\* signalled.
ListsTrue ==
  /\ part = "lists" => Lists!ListIsPrefix /\ Lists!OnlyLateMissed
  /\ part = "restarts" => ListRestarts!KnownAreMade /\ ListRestarts!OnlyLateMissed
  /\ part = "hits" => PriceHits!UrgentSignalled

==============================================================================

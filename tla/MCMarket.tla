------------------------------ MODULE MCMarket -------------------------------
(* The parts of a market beside its crank and its positions: the liquidity  *)
(* pool, the configuration, the spot price, the histories, and the          *)
(* arithmetic of numbers and prices. They share no state here; the initial  *)
(* state chooses the one that runs. The pool that has a longer time, for    *)
(* unstaking and the cooldown, is the extended module itself, with the      *)
(* constants of the configuration file; the others are instances, with      *)
(* their constants here.                                                    *)
EXTENDS LiquidityPool, SequencesExt

CONSTANTS
  Wallets,  \* wallets with a history
  Position  \* a position that changes hands

VARIABLES
  part,   \* the part that runs
  taxedNow, taxedPool, taxedProviders, taxedYields, taxedRate, taxedRated, taxedReset,
  taxedFees, taxedBalance, taxedStray,
  confCfg, confPrice, confQueue, confFund, confNow, confPos, confFailed, confShort,
  spotNow, spotOracle, spotPrices, spotManual, spotReader,
  mixNow, mixOracle, mixPrices, mixManual, mixReader,
  adminNow, adminOracle, adminPrices, adminManual, adminReader,
  histNow, histPrice, histPriceAt, histPos, histByPos, histByAddr, histPnl, histLp,
  histLpSummary, histReader,
  numAcc, numFrom, numOp, numOk,
  convMarket, convPrice, convLast, convOp, convResult

taxedVars == <<taxedNow, taxedPool, taxedProviders, taxedYields, taxedRate,
               taxedRated, taxedReset, taxedFees, taxedBalance, taxedStray>>
confVars == <<confCfg, confPrice, confQueue, confFund, confNow, confPos, confFailed,
              confShort>>
spotVars == <<spotNow, spotOracle, spotPrices, spotManual, spotReader>>
mixVars == <<mixNow, mixOracle, mixPrices, mixManual, mixReader>>
adminVars == <<adminNow, adminOracle, adminPrices, adminManual, adminReader>>
histVars == <<histNow, histPrice, histPriceAt, histPos, histByPos, histByAddr,
              histPnl, histLp, histLpSummary, histReader>>
numVars == <<numAcc, numFrom, numOp, numOk>>
convVars == <<convMarket, convPrice, convLast, convOp, convResult>>
MCVars == <<part, vars, taxedVars, confVars, spotVars, mixVars, adminVars, histVars,
                  numVars, convVars>>

(* Settings: sets of updates that are on, below and above the limits validate *)
(* checks.  Whole is the decimal 1 of ConfigRules.                            *)

Whole == 10000
NoSetting == {[mute_events |-> TRUE]}

DelayUpdates ==
  [liquifunding_delay : 0..3, liquifunding_delay_fuzz : 0..3]
    \cup [liquifunding_delay : 1..3] \cup [liquifunding_delay_fuzz : 0..3]

ShareUpdates ==
  [protocol_tax : {0, 3000, Whole - 2, Whole}]
    \cup [referral_reward_ratio : {0, 500, Whole - 100, Whole}]

Settings ==
  [trading_fee_notional_size : {0, 999}] \cup [trading_fee_counter_collateral : {0, 999}]
    \cup [crank_execs : {0, 1}] \cup [unstake_period : {0, 1}]
    \cup [carry_leverage : {Whole, 29 * Whole, 30 * Whole}]
    \cup [target_utilization : {5000, Whole}] \cup [exposure_margin_ratio : {0, Whole}]

RewardSettings ==
  [crank_fee_reward : {0, 500, 1000, 1500}, crank_fee_surcharge : {500}, crank_execs : {1, 7}]
RewardUpdates == [crank_fee_reward : {500, 1000, 1500}] \cup [crank_fee_charged : {500, 1000}]

SpotUpdates ==
  LET Feeds == {<< >>, <<"feed">>}
  IN [spot_price : [kind : {"oracle"}, valid : BOOLEAN, feeds : Feeds, feeds_usd : Feeds]
                     \cup [kind : {"manual"}, valid : BOOLEAN]]

(* Feeds: two Pyth prices, a redemption rate, a contract.                     *)

Feed(kind, src, inverted, tolerance, volatile) ==
  [kind |-> kind, src |-> src, inverted |-> inverted, tolerance |-> tolerance,
   volatile |-> volatile]

PythFeeds == <<Feed("pyth", "eth", FALSE, 2, "unset"), Feed("pyth", "btc", TRUE, 1, "unset")>>
PythUsdFeeds == <<Feed("pyth", "eth", FALSE, 2, "unset")>>
MixedFeeds == <<Feed("rujira", "rune", FALSE, 0, "unset"), Feed("stride", "rate", FALSE, 2, "yes")>>
MixedUsdFeeds ==
  <<Feed("stride", "rate", FALSE, 2, "yes"), Feed("simple", "contract", FALSE, 1, "unset")>>
InForce(sources) == [s \in sources |-> [price |-> 1, time |-> 1, timed |-> TRUE, volatile |-> FALSE]]

\* A pool with traders that gain, taxes and resets; with referral rewards, too.
Fees == INSTANCE LiquidityPool WITH
  NumProviders <- 2, One <- 2, Dust <- 2, Deposits <- {2}, Shares <- {1},
  FeeAmounts <- {2}, Gains <- {1}, ProtocolTax <- 1, ReferralRatio <- 0,
  CrankReward <- 1, MaxLiquidity <- 2, UnstakePeriod <- 2, Cooldown <- 0,
  MaxTime <- 1, MaxYields <- 2, MaxFees <- 1, MaxBalance <- 4, now <- taxedNow,
  pool <- taxedPool, providers <- taxedProviders, yields <- taxedYields,
  rate <- taxedRate, rated <- taxedRated, reset <- taxedReset, fees <- taxedFees,
  balance <- taxedBalance, stray <- taxedStray

Rewarded == INSTANCE LiquidityPool WITH
  NumProviders <- 2, One <- 2, Dust <- 2, Deposits <- {2}, Shares <- {1},
  FeeAmounts <- {2}, Gains <- {1}, ProtocolTax <- 1, ReferralRatio <- 1,
  CrankReward <- 1, MaxLiquidity <- 2, UnstakePeriod <- 2, Cooldown <- 0,
  MaxTime <- 1, MaxYields <- 2, MaxFees <- 1, MaxBalance <- 4, now <- taxedNow,
  pool <- taxedPool, providers <- taxedProviders, yields <- taxedYields,
  rate <- taxedRate, rated <- taxedRated, reset <- taxedReset, fees <- taxedFees,
  balance <- taxedBalance, stray <- taxedStray

\* The delay of liquifundings and its fuzz change while a position is open.
Schedule == INSTANCE MarketConfig WITH
  InitUpdates <- NoSetting, Updates <- DelayUpdates, Prices <- {Whole}, MaxQueue <- 0,
  MaxTime <- 7, MaxFund <- 0, cfg <- confCfg, price <- confPrice, queue <- confQueue,
  fund <- confFund, now <- confNow, pos <- confPos, failed <- confFailed,
  short <- confShort

\* Shares of the fees, and the settings with limits.
FeeShares == INSTANCE MarketConfig WITH
  InitUpdates <- Settings, Updates <- ShareUpdates, Prices <- {Whole}, MaxQueue <- 1,
  MaxTime <- 0, MaxFund <- 3000, cfg <- confCfg, price <- confPrice,
  queue <- confQueue, fund <- confFund, now <- confNow, pos <- confPos,
  failed <- confFailed, short <- confShort

\* Crank fees collected and paid out, while their settings change with work queued.
CrankFund == INSTANCE MarketConfig WITH
  InitUpdates <- RewardSettings, Updates <- RewardUpdates \cup SpotUpdates,
  Prices <- {Whole \div 2, Whole, 2 * Whole}, MaxQueue <- 11, MaxTime <- 1,
  MaxFund <- 12000,
  cfg <- confCfg, price <- confPrice, queue <- confQueue, fund <- confFund,
  now <- confNow, pos <- confPos, failed <- confFailed,
  short <- confShort

\* Two Pyth prices, whose clock may run ahead.
Spot == INSTANCE SpotPrice WITH
  Feeds <- PythFeeds, FeedsUsd <- PythUsdFeeds, Manual <- FALSE,
  CollateralIsBase <- FALSE, VolatileDiff <- 1, InstantiationTime <- 1,
  Values <- {1, 2}, Ahead <- 1, Readers <- {}, Limit <- 2, MaxTime <- 4,
  now <- spotNow, oracle <- spotOracle, prices <- spotPrices, manual <- spotManual,
  reader <- spotReader

\* The other kinds of feeds.
MixedSpot == INSTANCE SpotPrice WITH
  Feeds <- MixedFeeds, FeedsUsd <- MixedUsdFeeds, Manual <- FALSE,
  CollateralIsBase <- TRUE, VolatileDiff <- 1, InstantiationTime <- 1,
  Values <- {1, 2}, Ahead <- 0, Readers <- {}, Limit <- 2, MaxTime <- 2,
  now <- mixNow, oracle <- mixOracle, prices <- mixPrices, manual <- mixManual,
  reader <- mixReader

\* Prices of an administrator, and a reader of their history.
ManualSpot == INSTANCE SpotPrice WITH
  Feeds <- <<>>, FeedsUsd <- <<>>, Manual <- TRUE, CollateralIsBase <- TRUE,
  VolatileDiff <- 1, InstantiationTime <- 1, Values <- {1, 2}, Ahead <- 0,
  Readers <- {"ascending", "descending"}, Limit <- 2, MaxTime <- 5, now <- adminNow,
  oracle <- adminOracle, prices <- adminPrices, manual <- adminManual,
  reader <- adminReader

\* Trades of two wallets with one position.
Trades == INSTANCE History WITH
  Wallets <- Wallets, Positions <- {Position}, Providers <- {},
  Reader <- CHOOSE w \in Wallets : TRUE, Orders <- {}, Amounts <- {1, 2},
  Prices <- {1, 2}, Limit <- 2, MaxActions <- 3, MaxTime <- 1, now <- histNow,
  price <- histPrice, priceAt <- histPriceAt, pos <- histPos, byPos <- histByPos,
  byAddr <- histByAddr, pnl <- histPnl, lp <- histLp, lpSummary <- histLpSummary,
  reader <- histReader

\* One wallet, whose histories are read page by page.
Pages == INSTANCE History WITH
  Wallets <- {CHOOSE w \in Wallets : TRUE}, Positions <- {Position},
  Providers <- {CHOOSE w \in Wallets : TRUE}, Reader <- CHOOSE w \in Wallets : TRUE,
  Orders <- {"asc", "desc"}, Amounts <- {1}, Prices <- {1}, Limit <- 2,
  MaxActions <- 3, MaxTime <- 1, now <- histNow, price <- histPrice,
  priceAt <- histPriceAt, pos <- histPos, byPos <- histByPos, byAddr <- histByAddr,
  pnl <- histPnl, lp <- histLp, lpSummary <- histLpSummary, reader <- histReader

\* Every pair of numbers with four parts of one, up to eight.
Number == INSTANCE Numbers WITH
  Base <- 2, Digits <- 2, MaxRaw <- 31, MaxU128 <- 7, Eps <- 2, acc <- numAcc,
  from <- numFrom, op <- numOp, ok <- numOk

Conversion == INSTANCE Prices WITH
  Base <- 2, Digits <- 3, MaxRaw <- 511, MaxU128 <- 60, Eps <- 2,
  Assets <- {"ATOM", "USDC", "USD", "EUR"}, Fiat <- {"USD", "EUR"}, Usd <- "USD",
  MaxPrice <- 9, MaxAmount <- 9, Places <- 1, MaxI64 <- 9, market <- convMarket,
  price <- convPrice, last <- convLast, op <- convOp, result <- convResult

ASSUME ConstantsFit ==
  /\ Schedule!ConstantsOK
  /\ FeeShares!ConstantsOK
  /\ CrankFund!ConstantsOK
  /\ Spot!ConstantsOK
  /\ MixedSpot!ConstantsOK
  /\ ManualSpot!ConstantsOK
  /\ Trades!ConstantsOK
  /\ Pages!ConstantsOK
  /\ Number!NumberConstants
  /\ Conversion!ConstantsOK

Parts == {"unstaking", "fees", "rewarded", "schedule", "shares", "fund", "spot", "mixed",
          "manual", "history", "pages", "numbers", "prices"}

\* A part that does not run is off.
taxedOff ==
  /\ taxedNow = 0 /\ taxedPool = 0 /\ taxedProviders = 0 /\ taxedYields = 0
  /\ taxedRate = 0 /\ taxedRated = 0 /\ taxedReset = 0 /\ taxedFees = 0
  /\ taxedBalance = 0 /\ taxedStray = 0
confOff ==
  /\ confCfg = 0 /\ confPrice = 0 /\ confQueue = 0 /\ confFund = 0 /\ confNow = 0
  /\ confPos = 0 /\ confFailed = 0 /\ confShort = 0
spotOff ==
  /\ spotNow = 0 /\ spotOracle = 0 /\ spotPrices = 0 /\ spotManual = 0
  /\ spotReader = 0
mixOff ==
  /\ mixNow = 0 /\ mixOracle = 0 /\ mixPrices = 0 /\ mixManual = 0 /\ mixReader = 0
adminOff ==
  /\ adminNow = 0 /\ adminOracle = 0 /\ adminPrices = 0 /\ adminManual = 0
  /\ adminReader = 0
histOff ==
  /\ histNow = 0 /\ histPrice = 0 /\ histPriceAt = 0 /\ histPos = 0 /\ histByPos = 0
  /\ histByAddr = 0 /\ histPnl = 0 /\ histLp = 0 /\ histLpSummary = 0
  /\ histReader = 0
numOff ==
  /\ numAcc = 0 /\ numFrom = 0 /\ numOp = 0 /\ numOk = 0
convOff ==
  /\ convMarket = 0 /\ convPrice = 0 /\ convLast = 0 /\ convOp = 0 /\ convResult = 0

MCInit ==
  /\ part \in Parts
  /\ Init
  /\ CASE part = "fees" -> Fees!Init
       [] part = "rewarded" -> Rewarded!Init
       [] OTHER -> taxedOff
  /\ CASE part = "schedule" -> Schedule!Init
       [] part = "shares" -> FeeShares!Init
       [] part = "fund" -> CrankFund!Init
       [] OTHER -> confOff
  /\ CASE part = "spot" -> Spot!Init
       [] OTHER -> spotOff
  /\ CASE part = "mixed" -> MixedSpot!Init
       [] OTHER -> mixOff
  /\ CASE part = "manual" -> ManualSpot!Init
       [] OTHER -> adminOff
  /\ CASE part = "history" -> Trades!Init
       [] part = "pages" -> Pages!Init
       [] OTHER -> histOff
  /\ CASE part = "numbers" -> Number!Init
       [] OTHER -> numOff
  /\ CASE part = "prices" -> Conversion!Init
       [] OTHER -> convOff

\* The variables of another part stand still.
Frozen(parts, v) == IF part \in parts THEN TRUE ELSE UNCHANGED v

Others ==
  /\ UNCHANGED part
  /\ Frozen({"unstaking"}, vars)
  /\ Frozen({"fees", "rewarded"}, taxedVars)
  /\ Frozen({"schedule", "shares", "fund"}, confVars)
  /\ Frozen({"spot"}, spotVars)
  /\ Frozen({"mixed"}, mixVars)
  /\ Frozen({"manual"}, adminVars)
  /\ Frozen({"history", "pages"}, histVars)
  /\ Frozen({"numbers"}, numVars)
  /\ Frozen({"prices"}, convVars)

MCNext ==
  \/ part = "unstaking" /\ Next /\ Others
  \/ part = "fees" /\ Fees!Next /\ Others
  \/ part = "rewarded" /\ Rewarded!Next /\ Others
  \/ part = "schedule" /\ Schedule!Next /\ Others
  \/ part = "shares" /\ FeeShares!Next /\ Others
  \/ part = "fund" /\ CrankFund!Next /\ Others
  \/ part = "spot" /\ Spot!Next /\ Others
  \/ part = "mixed" /\ MixedSpot!Next /\ Others
  \/ part = "manual" /\ ManualSpot!Next /\ Others
  \/ part = "history" /\ Trades!Next /\ Others
  \/ part = "pages" /\ Pages!Next /\ Others
  \/ part = "numbers" /\ Number!Next /\ Others
  \/ part = "prices" /\ Conversion!Next /\ Others

MCSpec == MCInit /\ [][MCNext]_MCVars

\* What settings may change, and what may not follow from it.  With taxes, crank
\* rewards, traders that gain and resets, the tokens held cover the pool, its fees
\* and all claims.  With referral rewards, the tokens held do too, but the wallets'
\* fees cover the claims only together with fees.referral (fees.rs:175).  After
\* any valid update the liquifunding of a position opened before can be scheduled,
\* and providers keep a part of the fees.  Work charged under other settings is
\* paid in full, with the two exceptions that FundCoversQueue names: the reward
\* was raised since, or collateral was worth more than a dollar (fees.rs:272).
SettingsHarmless ==
  /\ part = "fees" => Fees!TypeOK /\ Fees!PoolBacked
  /\ part = "rewarded" =>
       /\ Rewarded!TypeOK
       /\ Rewarded!SharesAddUp /\ Rewarded!Solvent /\ Rewarded!ClaimsCovered
  /\ part = "schedule" => Schedule!ScheduleNeverFails
  /\ part = "shares" => FeeShares!LpsAlwaysEarn
  /\ part = "fund" => CrankFund!FundCoversQueue

\* What is stored can be read back and added up: profits and losses from the
\* trades, owners from the actions on a position, the summary of a provider
\* from the actions; exports come in order, and pages of prices are complete.
HistoryTrue ==
  /\ part = "history" => Trades!PnlFromHistory /\ Trades!OwnersCancel
  /\ part = "pages" => Pages!ExportInOrder /\ Pages!LpSummaryFromHistory
  /\ part = "manual" => ManualSpot!PagesComplete

\* Operations on numbers return the exact result or one rounded down, or they
\* fail; order, keys and printed forms are those of the numbers; conversions
\* of prices and amounts keep order and gain nothing, forth and back.
NothingGained ==
  /\ part = "numbers" =>
       /\ Number!OneZero
       /\ Number!SumsExact
       /\ Number!NeverMore
       /\ Number!OrderIsNumeric
       /\ Number!ApproxAgree
       /\ Number!TokensNotMade
       /\ Number!KeysSorted
       /\ Number!PrintedIsParsed
       /\ Number!StaysInType
  /\ part = "prices" =>
       /\ Conversion!MarketNames
       /\ Conversion!PricesKeepOrder
       /\ Conversion!PriceRoundTrip
       /\ Conversion!NothingGained
       /\ Conversion!DollarsAgree
       /\ Conversion!PythRoundTrip
       /\ Conversion!ValidIsExact

\* A price that was stored is never changed, and a price that is stored is
\* composed of feeds that are fresh and close enough to each other; what was
\* read from the histories in pages is what they held.
PricesHold ==
  /\ [][part = "spot" => Spot!PastFixedStep]_spotVars
  /\ [][part = "spot" => Spot!ComposedFreshStep]_spotVars
  /\ [][part = "mixed" => MixedSpot!ComposedFreshStep]_mixVars
  /\ [][part = "pages" => Pages!PagesExactStep]_histVars

==============================================================================

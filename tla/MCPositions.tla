----------------------------- MODULE MCPositions -----------------------------
(* What happens to positions: funding, borrow fees, the delta neutrality    *)
(* fee, the life of positions from opening to liquidation, slippage         *)
(* assertions and the queries that foretell a payout. The parts share no    *)
(* state here; the initial state chooses the one that runs. Funding is the  *)
(* extended module itself, with the constants of the configuration file;    *)
(* the others are instances, with their constants here. Positions are       *)
(* interchangeable.                                                         *)
EXTENDS Funding, TLC

CONSTANTS
  Pair   \* positions whose whole life is modelled

VARIABLES
  part,   \* the part that runs
  dnPrice, dnPos, dnLong, dnShort, dnFund, dnShortfall,
  dnpPrice, dnpPos, dnpLong, dnpShort, dnpFund, dnpShortfall,
  lifePrice, lifePos, lifeSpent, lifeDesc, lifeAsc, lifeLocked, lifeUnlocked, lifePot,
  lifeBank, lifeFailed,
  borrowCfg, borrowPool, borrowRate, borrowAcc, borrowNow, borrowOpen, borrowPos,
  borrowPaid,
  slipPrice, slipOthers, slipPos, slipItem, slipQueued, slipTrade,
  queryPrice, queryRate, queryPos, queryOwed, queryPeriods, queryKept, queryClosed

dnVars == <<dnPrice, dnPos, dnLong, dnShort, dnFund, dnShortfall>>
dnpVars == <<dnpPrice, dnpPos, dnpLong, dnpShort, dnpFund, dnpShortfall>>
lifeVars == <<lifePrice, lifePos, lifeSpent, lifeDesc, lifeAsc, lifeLocked,
              lifeUnlocked, lifePot, lifeBank, lifeFailed>>
borrowVars == <<borrowCfg, borrowPool, borrowRate, borrowAcc, borrowNow, borrowOpen,
                borrowPos, borrowPaid>>
slipVars == <<slipPrice, slipOthers, slipPos, slipItem, slipQueued, slipTrade>>
queryVars == <<queryPrice, queryRate, queryPos, queryOwed, queryPeriods, queryKept,
               queryClosed>>
MCVars == <<part, vars, dnVars, dnpVars, lifeVars, borrowVars, slipVars, queryVars>>

Symmetry == Permutations(Ids) \cup Permutations(Pair)

\* Long or short.
FundingSizes == {8, -4}

\* An empty pool, an idle one and two in use.
BorrowPools ==
  {[locked |-> 0, unlocked |-> 0, lp |-> 0, xlp |-> 0],
   [locked |-> 0, unlocked |-> 10, lp |-> 10, xlp |-> 0],
   [locked |-> 10, unlocked |-> 0, lp |-> 3, xlp |-> 7],
   [locked |-> 9, unlocked |-> 1, lp |-> 6, xlp |-> 2]}

BorrowUpdates ==
  {[borrow_fee_rate_max_annualized |-> 3000], [borrow_fee_rate_max_annualized |-> 6000],
   [borrow_fee_rate_min_annualized |-> 4000, max_xlp_rewards_multiplier |-> 30000],
   [liquifunding_delay |-> 6]}

\* One price, for the books of the fund; the cap binds in both directions.
Neutrality == INSTANCE DeltaNeutrality WITH
  Ids <- Ids, Sizes <- {-6, -1, 1, 5, 7}, NotionalCap <- 8, Tax <- 1, TaxUnit <- 4,
  Prices <- {2}, Room <- 1, MaxFund <- 900, MaxShortfall <- 100, price <- dnPrice,
  pos <- dnPos, long <- dnLong, short <- dnShort, fund <- dnFund,
  shortfall <- dnShortfall

\* Prices move beyond what a position reserved for.
NeutralityPrices == INSTANCE DeltaNeutrality WITH
  Ids <- Ids, Sizes <- {-4, -1, 2, 7}, NotionalCap <- 3, Tax <- 1, TaxUnit <- 4,
  Prices <- {2, 3, 5}, Room <- 2, MaxFund <- 40, MaxShortfall <- 20,
  price <- dnpPrice, pos <- dnpPos, long <- dnpLong, short <- dnpShort,
  fund <- dnpFund, shortfall <- dnpShortfall

\* Two positions that share a pool.
Life == INSTANCE PositionLife WITH
  Ids <- Pair, Prices <- {4, 6, 9}, StopPrices <- {5}, Sizes <- {-1, 2},
  Deposits <- {4}, Fees <- {0, 1}, Dnfs <- {-1, 2}, FeePart <- 4, DnfPart <- 4,
  MaxLeverage <- 4, MinDeposit <- 2, Pool <- 8, MaxBank <- 16, price <- lifePrice,
  pos <- lifePos, spent <- lifeSpent, desc <- lifeDesc, asc <- lifeAsc,
  locked <- lifeLocked, unlocked <- lifeUnlocked, pot <- lifePot, bank <- lifeBank,
  failed <- lifeFailed

\* A position while pools, limits and delays change.
Borrow == INSTANCE BorrowRates WITH
  Pools <- BorrowPools, Updates <- BorrowUpdates, InitialRates <- {50, 100, 6001},
  Year <- 40, Counter <- 100, Active <- 60, Steps <- {6, 12}, MaxTime <- 12,
  cfg <- borrowCfg, pool <- borrowPool, rate <- borrowRate, acc <- borrowAcc,
  now <- borrowNow, open <- borrowOpen, pos <- borrowPos, paid <- borrowPaid

\* A queued item meets a later price and a later open interest.
Slippage == INSTANCE Slippage WITH
  Prices <- {2, 3, 4}, Others <- {-100, 0, 12}, Sensitivity <- 100, NotionalCap <- 60,
  Room <- 2, Kinds <- {"size", "leverage", "close"}, Deposits <- {24},
  Amounts <- {1, 12}, Leverages <- {1, 2, 3}, Tolerances <- {0, 30}, MaxItems <- 2,
  price <- slipPrice, others <- slipOthers, pos <- slipPos, item <- slipItem,
  queued <- slipQueued, trade <- slipTrade

\* A long or a short position; the fee of a close is paid or received.
Query == INSTANCE PositionQuery WITH
  Prices <- {6, 9, 12}, Sizes <- {-4, 4}, Deposits <- {24}, Counters <- {12, 20},
  Borrowed <- {0, 1}, Funded <- {-3, 2}, Rates <- {-2, 0, 2}, BorrowPart <- 20,
  FundingPart <- 25, CapPart <- 10, ExposurePart <- 20, CrankFee <- 1,
  MaxPeriods <- 2, MaxKept <- 2, price <- queryPrice, rate <- queryRate,
  pos <- queryPos, owed <- queryOwed, periods <- queryPeriods, kept <- queryKept,
  closed <- queryClosed

ASSUME ConstantsFit ==
  /\ Neutrality!ConstantsOK
  /\ NeutralityPrices!ConstantsOK
  /\ Life!ConstantsOK
  /\ Borrow!ConstantsOK
  /\ Slippage!ConstantsOK
  /\ Query!ConstantsOK

Parts == {"funding", "neutral", "neutral prices", "life", "borrow", "slippage",
          "query"}

\* A part that does not run is off.
dnOff ==
  /\ dnPrice = 0 /\ dnPos = 0 /\ dnLong = 0 /\ dnShort = 0 /\ dnFund = 0
  /\ dnShortfall = 0
dnpOff ==
  /\ dnpPrice = 0 /\ dnpPos = 0 /\ dnpLong = 0 /\ dnpShort = 0 /\ dnpFund = 0
  /\ dnpShortfall = 0
lifeOff ==
  /\ lifePrice = 0 /\ lifePos = 0 /\ lifeSpent = 0 /\ lifeDesc = 0 /\ lifeAsc = 0
  /\ lifeLocked = 0 /\ lifeUnlocked = 0 /\ lifePot = 0 /\ lifeBank = 0
  /\ lifeFailed = 0
borrowOff ==
  /\ borrowCfg = 0 /\ borrowPool = 0 /\ borrowRate = 0 /\ borrowAcc = 0
  /\ borrowNow = 0 /\ borrowOpen = 0 /\ borrowPos = 0 /\ borrowPaid = 0
slipOff ==
  /\ slipPrice = 0 /\ slipOthers = 0 /\ slipPos = 0 /\ slipItem = 0
  /\ slipQueued = 0 /\ slipTrade = 0
queryOff ==
  /\ queryPrice = 0 /\ queryRate = 0 /\ queryPos = 0 /\ queryOwed = 0
  /\ queryPeriods = 0 /\ queryKept = 0 /\ queryClosed = 0

MCInit ==
  /\ part \in Parts
  /\ Init
  /\ CASE part = "neutral" -> Neutrality!Init
       [] OTHER -> dnOff
  /\ CASE part = "neutral prices" -> NeutralityPrices!Init
       [] OTHER -> dnpOff
  /\ CASE part = "life" -> Life!Init
       [] OTHER -> lifeOff
  /\ CASE part = "borrow" -> Borrow!Init
       [] OTHER -> borrowOff
  /\ CASE part = "slippage" -> Slippage!Init
       [] OTHER -> slipOff
  /\ CASE part = "query" -> Query!Init
       [] OTHER -> queryOff

\* The variables of another part stand still.
Frozen(parts, v) == IF part \in parts THEN TRUE ELSE UNCHANGED v

Others ==
  /\ UNCHANGED part
  /\ Frozen({"funding"}, vars)
  /\ Frozen({"neutral"}, dnVars)
  /\ Frozen({"neutral prices"}, dnpVars)
  /\ Frozen({"life"}, lifeVars)
  /\ Frozen({"borrow"}, borrowVars)
  /\ Frozen({"slippage"}, slipVars)
  /\ Frozen({"query"}, queryVars)

MCNext ==
  \/ part = "funding" /\ Next /\ Others
  \/ part = "neutral" /\ Neutrality!Next /\ Others
  \/ part = "neutral prices" /\ NeutralityPrices!Next /\ Others
  \/ part = "life" /\ Life!Next /\ Others
  \/ part = "borrow" /\ Borrow!Next /\ Others
  \/ part = "slippage" /\ Slippage!Next /\ Others
  \/ part = "query" /\ Query!Next /\ Others

MCSpec == MCInit /\ [][MCNext]_MCVars

\* The fund of the delta neutrality fee holds what balancing the market costs,
\* and the net open interest is that of the positions; a borrow fee fits into
\* its margin, and staking dilutes those who stake already.
FeesMatch ==
  /\ part = "neutral" => Neutrality!TypeOK
  /\ part = "neutral prices" => NeutralityPrices!TypeOK
  /\ part = "neutral" =>
       /\ Neutrality!InterestAddsUp
       /\ Neutrality!FundMatchesPotential
  /\ part = "borrow" => Borrow!MarginSuffices /\ Borrow!StakingDilutes

\* The crank can settle and close every position at every price: what is
\* locked is the counter collateral of the open positions, the contract holds
\* what is owed, and prices trigger exactly the positions whose limits they
\* pass.
CrankNeverFails ==
  /\ part = "life" =>
       /\ Life!TypeOK
       /\ Life!LockedIsCounter
       /\ Life!Backed
       /\ Life!CrankNeverFails
       /\ Life!TriggersExact
       /\ Life!UntriggeredInRange

\* Whatever came between its message and the crank, a trade that asserts its
\* slippage is executed exactly when its price is within the tolerance. The
\* exception is a change of collateral with impact on the size, whose size the
\* settlement changes after it was asserted: its price may be beyond the
\* tolerance by the fee rate on the size it changed by (EveryTradeAsAsserted of
\* Slippage, which has no such latitude, does not hold). What the Positions query
\* tells of a position is possible, and a position it keeps open is open.
TradesAsToldOf ==
  /\ part = "slippage" => Slippage!TradeAsAsserted
  /\ part = "query" => Query!QueryPossible /\ Query!KeptIsOpen

\* No step charges more than was promised: a close costs no more than the
\* margin set apart for the delta neutrality fee, only closes exceed the cap,
\* borrow rates stay within their limits and reward staking, charges stay
\* within margins, and a close pays what the query foretold.
FeesAsPromised ==
  /\ [][part = "neutral prices" => NeutralityPrices!MarginCoversCloseStep]_dnpVars
  /\ [][part = "neutral prices" => NeutralityPrices!OnlyClosesGoBeyondStep]_dnpVars
  /\ [][part = "borrow" => Borrow!RateWithinLimitsStep]_borrowVars
  /\ [][part = "borrow" => Borrow!XlpRewardedStep]_borrowVars
  /\ [][part = "borrow" => Borrow!ChargeWithinMarginStep]_borrowVars
  /\ [][part = "query" => Query!AllFeesIsPayoutStep]_queryVars

==============================================================================

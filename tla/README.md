# Levana perps: a TLA+ model of the contracts and their bots

The Levana perpetual swaps protocol is a set of CosmWasm contracts. The
*market* contract holds the money and all the rules: traders open leveraged
positions against a pool of liquidity, a price oracle drives profits, losses
and liquidations, and fees flow to the liquidity providers. The other
contracts front the market (token proxies, factory) or are clients of it (copy
trading, counter trade, vault). Off-chain bots publish prices and turn the
crank.

This directory models the market's **transaction engine** (price points,
crank, deferred execution, limit orders, liquifunding, liquidation), its
**liquidity pool and fees**, its **positions** (margins, funding, borrow fees,
delta neutrality, slippage, queries), its **prices, configuration, tokens and
histories**, the **contracts around it**, the **numbers** they calculate with,
and the **bots** that keep it going. Everything is model-checked with TLC. The
safety properties of the engine, the liquidity pool, the funding ledger, the
copy trading contract, the CW20 token, the position NFTs and the bots' crank
runners are also proved with TLAPS for all values of their parameters.

Source paths below are relative to `contracts/market/src/` unless they start
with `contracts/`, `packages/` or `bots/`, which stands for
`packages/perps-exes/src/bin/perps-bots/`.

## 1. Inventory

### The system's parts

| Part | State | Operations |
|---|---|---|
| Spot prices, `state/spot_price.rs` | `PRICES`: publish time -> price | append from the oracle (`Crank`, `SetManualPrice`), price in force at a time, next price after a time |
| Crank, `state/crank.rs` | `LAST_CRANK_COMPLETED`, `CRANK_BATCH_WEIGHT_LEFT` | `crank_work` (what is next), `crank_exec` (do it), `crank_exec_batch` (weighted loop, suspended by submessages) |
| Deferred execution, `state/deferred_execution.rs`, `deferred_exec.rs` | `DEFERRED_EXECS`, `DEFERRED_EXEC_LATEST_IDS`, `PENDING_DEFERRED_FOR_POSITION/_ORDER`, `IS_POSITION_CLOSING`, `IS_LIMIT_ORDER_CANCELING` | queue a message, send it as a submessage at a later price, settle it in the reply |
| Limit orders, `state/order.rs` | `LIMIT_ORDERS` and their price indices | place, trigger, execute or refund, cancel |
| Positions, `state/position.rs`, `state/position/*` | `OPEN_POSITIONS`, `CLOSED_POSITIONS`, `NEXT_LIQUIFUNDING`, price trigger indices, open interest | open, update, liquifund, close, transfer as NFT |
| Liquidity pool, `state/liquidity.rs`, `state/liquidity/stats.rs` | `LIQUIDITY_STATS`, `LIQUIDITY_STATS_BY_ADDR`, `YIELD_PER_TIME_PER_TOKEN`, `RESET_LP_STATUS` | deposit, withdraw, stake, unstake, stop, collect, claim, reinvest; lock, unlock; reset |
| LP/xLP tokens, `state/liquidity/cw20.rs` | balances of the pool, allowances | transfer and the rest of CW20, through proxy contracts |
| Fees, `state/fees.rs`, `state/referral.rs` | `ALL_FEES` (wallets, protocol, crank, referral) | trading, borrow and crank fees; DAO transfer; crank reward; claims |
| Funding and borrow rates, `state/funding.rs`, `state/data_series.rs` | data series (prefix sums) | accumulate at a completed price point, charge at liquifunding |
| Delta neutrality fee, `state/delta_neutrality_fee.rs` | a fund | charge or pay on change of net notional |
| Configuration, `state/config.rs`, `packages/perpswap/src/contracts/market/config.rs` | one record | instantiate, `SetConfig`, validation |
| Histories, `state/history/*` | actions by position, trader and provider; summaries | append; read in pages |
| Position NFTs, `state/position/cw721.rs` | owner indexes, approvals, operators | CW721 messages through a proxy |
| Entry points, `contract.rs` | - | dispatch, authorisation, halting |
| Factory, `contracts/factory` | registry of markets and their contracts, roles, shutdown switches, referrals | add a market (a chain of replies), shut down, refer |
| Copy trading, `contracts/copy_trading` | two queues, a slot for a deferred item, shares, totals, batch work | deposit, withdraw, trade as leader, `DoWork` |
| Counter trade, `contracts/countertrade` | shares, one position, a slot | deposit, withdraw, `DoWork` by a strategy |
| Vault, `contracts/vault` | tokens, queue of withdrawals, allocations | deposit, request, process, redistribute, collect |
| CW20, faucet, tracker (`contracts/*`) | ledgers and registries | CW20 messages; taps; registration and lookup |
| Numbers and prices, `packages/perpswap/src/number*`, `price.rs` | none | decimal arithmetic, conversions |
| Bots, `bots/` | queues, caches, statuses in memory | price task, crank runners, high gas task, factory, copy and counter trade tasks, faucet server, watcher |

### How they interact

A trader's message is checked against the book (does the sender own the
position?), pays a crank fee and is **queued**. A `Crank` message, which
anybody may send, first appends the oracle's price if it is newer, and then
replays the published price points in order. At each point it does, in this
order: reset of a drained pool, due liquifundings, closing of all positions
in a wind-down, liquidations, queued messages created before the price point,
triggered limit orders; when nothing is left it completes the point (rates
are accumulated). Work is weighed, and a message buys a fixed budget.

A queued message runs in a **submessage** of the contract to itself, so that
its failure rolls back that item alone. CosmWasm runs a submessage after the
handler returns: the crank saves its progress and returns; the reply handler
records the failure and refunds the deposit (or checks that the item recorded
its own success), drops the item from the index of pending items, and
**resumes** the batch.

Trading touches the pool in three ways: liquidity is locked and unlocked,
gains and losses move collateral, and fees are distributed to LP and xLP
holders through a prefix sum of yield per token that is evaluated lazily, per
provider. If traders win the whole pool, all tokens become void at once and
the crank resets the providers one by one.

The **copy trading** and **counter trade** contracts are traders whose items
are executed blocks later, like anybody's. They keep the id of the one item
they wait for in a slot, and whoever calls `DoWork` lets them do one piece of
work: load markets, book what came back, value the shares, work on the head of
a queue. The **vault** invests deposits in the pools of several markets and pays
withdrawals in order. The **factory** creates a market and its three token
proxies by a chain of submessages and replies, and its shutdown switches are
read by every market at every message.

The **bots** see all this only through queries and transactions that may fail
or whose answers may be lost. The price task compares off-chain prices with
what the oracle and the markets have, pushes prices, and hands markets with
work to crank runners through a deduplicated queue and a channel of bounded
size; the runners share a pool of wallets. A watcher restarts tasks and tells
Sentry what changed.

### What is hard

* **Stale checks across a queue.** Ownership, existence and fees are checked
  at queueing; execution comes blocks later, after transfers, liquidations,
  closings.
* **Price fairness.** An item must run at the first price after its creation:
  not earlier (a known price is a free option) and not later.
* **Suspended control flow.** Handler, submessage and reply of one
  transaction share stored state; a failure rolls back only the middle.
* **Lazy accounting.** Yield, unstaking and totals are kept in step by code
  in every operation, never by a recount; rounding happens several times.
* **Work spread over transactions.** Crank batches and pool resets are
  interleaved with everything else; copy trading reads its markets page by
  page, within a budget of queries, while the markets change.
* **Settings that change under running business.** Positions and items live
  across an update of the configuration or a shutdown.
* **Concurrency off chain.** Tasks of the bots share queues, wallets and
  caches, requests fail, and answers of transactions are lost.
* **Progress.** Every message must be settled although each crank does a
  bounded amount of work and prices keep coming.

`PROJECT.json` lists these as hazards, each at its line and with the
properties that cover it; section 7 names further ones.

### What makes each part correct

* Crank: liquifunding before anything else at a price point, liquidation
  before queued messages, batches within their budget, catching up.
* Deferred execution: first in first out, settled exactly once, at the first
  later price, for the current owner; deposit held until then and no longer;
  free messages queued once; exact index of pending items.
* Money of the engine: every token has exactly one owner.
* Pool: totals equal the sum of the providers' tokens; claims are backed;
  tokens held cover the books; unstaking is linear; nobody gains by
  rounding; a reset ends and leaves nothing behind.
* Positions: locked liquidity is the counter collateral; the crank can always
  close; triggers are exact; a trade is the one that was asserted; a query
  says what a close would pay.
* Funding: payments are covered by the margins whoever settles first. Borrow
  fees fit into their margin. The delta neutrality fund holds what balancing
  the market costs.
* Prices: no fresher than their feeds, never changed once used.
* Clients (copy trading, counter trade, vault): shares add up and are priced at
  a value of their own, books are backed, every request is settled.
* Factory: the registry is complete between transactions, and a shutdown leaves
  the exits open.
* Bots: everything that waits is cranked in the end, by one runner at a time;
  what is reported is true.

## 2. Modules

Every module states in its header what it models and what it leaves out, names
each storage item beside its variable, and keeps the names of the source for
its actions where TLA+ allows. `PROJECT.json` maps each definition to the lines
it stands for. In all contract modules an action is one message (or one call
of the market into the component) in one transaction; a call that fails reverts
and is no step. Where a contract's own submessages or queries matter, the
transaction is cut into steps and a variable (`phase`, `run`, `pending`,
`calls`) keeps everybody else out until it ends.

| Module | Code | State and actions |
|---|---|---|
| `MarketCrank` | `contract.rs`, `deferred_exec.rs`, `state/crank.rs`, `state/deferred_execution.rs`, `state/order.rs`, parts of `state/position*`, `state/fees.rs` | see below |
| `DeferredQueue` | the promise of `state/deferred_execution.rs` | abstract: the messages with deposit and status, and an escrow; `Submit`, `Settle` |
| `LiquidityPool` | `state/liquidity*`, `state/fees.rs` | see below |
| `PositionLife` | `state/position.rs`, `state/position/{open,update,liquifund,close,validate}.rs`, `packages/perpswap/src/contracts/market/position.rs` | two positions that share a pool: price triggers, margins, locked liquidity, tokens; open, six kinds of update, liquifund, liquidate, close |
| `Funding` | `state/funding.rs`, `state/funding/aggregate_capping.rs`, `state/data_series.rs` | prefix sums by side, what is paid and held; price points, opens, updates, liquifundings, closes |
| `BorrowRates` | `state/funding.rs`, `state/data_series.rs` | rate, series and pool; price points, pool changes, configuration updates, settlement |
| `DeltaNeutrality` | `state/delta_neutrality_fee.rs`, `state/position.rs` | open interest and the fund; every operation that changes the net notional |
| `Slippage` | `deferred_exec.rs`, `state/position/validate.rs`, `state/delta_neutrality_fee.rs` | an item with an expected price, later prices and trades of others, the execution |
| `PositionQuery` | `packages/perpswap/src/contracts/market/position.rs`, `state/position.rs` | what the query answers beside what liquifunding and closing do |
| `SpotPrice` | `state/spot_price.rs` | oracles with their own clocks, stored prices, manual price, a reader of pages; publish, crank, set |
| `ConfigRules`, `MarketConfig` | `state/config.rs`, `packages/perpswap/src/contracts/market/config.rs` | defaults, merge and validation; a position and queued work while settings change |
| `History` | `state/history/*`, the companion's export | recorded actions and summaries; trades, transfers, providers' actions, readers of pages |
| `PositionNft` | `state/position/cw721.rs` | owner indexes, approvals, operators; all CW721 messages, mint and burn |
| `Allowances`, `Cw20` | `contracts/cw20/src/state/cw20.rs` | balances, supply, allowances in two indexes, a competition; all CW20 messages and the receiver's call |
| `LpTokenProxy` | `contracts/liquidity_token`, `state/liquidity/cw20.rs` | proxy, market and receiver of LP and xLP tokens; messages as chains of calls |
| `Factory` | `contracts/factory`, `packages/perpswap/src/shutdown.rs` | roles, registry, a chain of replies, switches and a market that obeys them |
| `Referrals` | `contracts/factory/src/state/referrer.rs` | referees, counts, leaderboard, two readers of pages |
| `CopyTrading` | `contracts/copy_trading` | both queues, slot, shares, totals; requests, `DoWork` (what `get_work` answers), the markets |
| `CopyTradingRebalance` | `contracts/copy_trading/src/execute.rs` | the walk over closed positions, query by query |
| `CopyTradingValue` | `contracts/copy_trading/src/execute.rs` | the valuation of shares, query by query, and its validation |
| `CopyTradingMarkets` | `contracts/copy_trading/src/common.rs` | the copy of the factory's list, page by page |
| `CounterTrade`, `CounterTradeTarget` | `contracts/countertrade` | shares and slot; the strategy with its bisection |
| `Vault` | `contracts/vault` | tokens, queue, allocations; all messages |
| `Faucet`, `Tracker` | `contracts/faucet`, `contracts/tracker` | taps with their limits and history; codes, contracts and families |
| `Decimals`, `Numbers`, `Prices` | `packages/perpswap/src/number*`, `price.rs`, `token.rs`, `market_type.rs` | operators of the arithmetic; a machine that applies them in any sequence |
| `BotCrank` | `bots/app/crank_run*` | see below |
| `BotPrice` | `bots/app/price.rs`, `bots/app/high_gas.rs` | ages of prices and of work; price task, runners, high gas task |
| `BotWatcher` | `bots/watcher.rs` | one task with its status, retries, timeouts and alerts |
| `BotDirectory` | `bots/app/{factory,copy_trade,countertrade}.rs` | lists of markets and contracts and the tasks that use them |
| `BotFeeds` | `bots/util/oracle.rs` | ages of feeds off chain and on chain, the verdict |
| `BotBatches` | `bots/app/faucet.rs`, `bots/wallet_manager.rs` | requests collected from a channel and paid by one transaction |
| `MCMarketCrank` | | definitions a configuration file cannot hold, for the engine |
| `MCMarket`, `MCPositions`, `MCClients`, `MCTokens`, `MCBots`, `MCProgress` | | many components in one run, see below |
| `MarketCrankProofs`, `LiquidityPoolProofs` | | proofs about the engine and about the pool |
| `FiniteSums` | | `Total`, the sum over a finite set, and what the proofs need of it; least elements |

`Funding`, `CopyTrading`, `Cw20`, `PositionNft` and `BotCrank` hold their proofs
themselves, after their properties.

### MarketCrank

Variables are the storage items named in their comments. `phase` says where
inside a `Crank` transaction the engine is: `crank` (the loop of
`crank_exec_batch`), `perform` (a `PerformDeferredExec` submessage is about to
run), `reply` (its reply is about to be handled). Messages from outside are
enabled only in `idle`: transactions do not interleave on chain, their steps
are split here only so that invariants can speak about the inside of one.

| Action | Code |
|---|---|
| `DeferNew`, `DeferAdd`, `DeferUpdate`, `DeferClose`, `DeferCancel` | `defer_execution`, by the kinds that differ in what they check, charge and mark |
| `NftTransfer`, `CloseAllPositions`, `SetManualPrice`, `Crank` | entry points in `contract.rs` |
| `CrankReset`, `CrankLiquifund`, `CrankCloseAll`, `CrankLiquidate`, `CrankDeferred`, `CrankLimitOrder`, `CrankCompleted` | one iteration of the batch, by the answer of `crank_work` |
| `CrankFinish` | end of the batch, `allocate_crank_fees` |
| `PerformOpen`, `PerformPlace`, `PerformUpdate`, `PerformClose`, `PerformCancel` | a successful `helper_execute`, up to `mark_deferred_exec_success` |
| `PerformFail` | a submessage that fails: rolled back, so nothing changes |
| `Reply` | `handle_deferred_exec_reply` |
| `Tick` | block time moves on |

Abstractions. Whether an item's data is acceptable (size, leverage, slippage,
liquidity) is a choice between `PerformX` and `PerformFail`; the one failure
that is *not* a choice is the cancellation of an open order, which has no
validation. Trigger prices and the next liquifunding time of a position are
chosen anew whenever the code recomputes them (`PositionLife` and
`MarketConfig` are about how). Collateral of positions, liquidity and their
non-crank fees are one amount, `pot`. How many steps a reset takes is
`LpCount + 1`. Positions that close keep their settlement times, which is what
the debug assertions in `close.rs` are about.

### LiquidityPool

One action per message of a provider and per call the market makes into the
pool and the fees. Amounts are atoms of the fixed-point decimals of the code:
`One` atoms make 1, and `Mul`, `Div` round down as `Decimal256` does. With
`One = 2` every product and quotient of small amounts is exposed to rounding.
Providers are numbered as their addresses are ordered, because the reset walks
over them in that order. `rate` is what the last point of the borrow fee series
pays to which class of tokens, `rated` what any point does; `stray` is a
history variable: fees credited to a class nobody holds. A cooldown that is
over is forgotten on `Tick`; `get_liquidity_cooldown` treats it as absent.

`MarketCrank` and `LiquidityPool` meet in `reset` (the engine counts steps, the
pool walks over providers), in the crank fee (`CrankPayment`) and in `pot`.

### BotCrank

`fifo`, `set` and `guards` are the three fields of the queue behind its mutex;
an action that uses several of them at once is code that holds the lock, and
signalling (`channel`), waiting for a wallet (`free`) and the transaction are
steps of their own, with `runner[r].pc` naming the place in `crank_run.rs`.

### Composition

A configuration file instantiates one module, but many components of this
system share no state. `MCMarket`, `MCPositions`, `MCClients`, `MCTokens`,
`MCBots` and `MCProgress` are disjoint sums: a variable `part` is chosen in the
initial state and never changes; an `INSTANCE` with constants written out gives
each part its variables; `MCNext` takes a step of the chosen part, and `Others`
keeps the variables of all other parts as they are (`Frozen`). Variables of a
part that does not run are 0 (`MCProgress` leaves them at their initial values).
One part of a sum is not an instance: `MCMarket` extends `LiquidityPool`,
`MCPositions` extends `Funding`, `MCClients` extends `CopyTrading`, `MCTokens`
extends `Cw20` and `MCBots` extends `BotCrank`, with the constants of the
configuration file. The properties of that module are those the theorems are
about, and its variables start in an initial state of the module whichever part
runs.
A property of a sum is a conjunction of implications `part = "..." =>
Component!Property`, so one run checks a group of components for one question,
each with every interleaving of its own actors. Two parts may instantiate
the same module with different constants, for instance a vault of a native coin
and one of a CW20 token. `ConstantsFit` collects the assumptions on constants of
the instances, which TLC would not evaluate otherwise. The component's own
properties are stated, with their comments, in the component's module.

`MarketCrank` is composed with its promise instead: `ImplementsQueue` is
`DeferredQueue!Spec` under a refinement mapping: the messages are the deposits
and statuses of `execs`, and the escrow is what the market holds beyond pot,
fees, rewards and open orders (`Escrow`).

## 3. Runs

Every run that holds is exhaustive for its constants. Each property of such a
run has a mutant in `PROJECT.json`: a plausible slip in the code, written as an
operator beside the definition it replaces, under which TLC finds the property
violated.

| Run | Module, config | What it asks |
|---|---|---|
| `crank` | `MCMarketCrank`, `MarketCrank.cfg` | Is every queued item settled once, in order, at the first later price, for the right owner, and is every token accounted for, whatever interleaves with the crank? Does the engine implement the abstract queue? |
| `crank_live` | `MCMarketCrank`, `MarketCrankLive.cfg` | Is every item settled, and does the crank catch up, even if a `Crank` message does one unit of work or none? |
| `market` | `MCMarket`, `Market.cfg` | Is anybody paid from anybody else's liquidity; do updates of the configuration, prices and histories keep their promises? |
| `positions` | `MCPositions`, `Positions.cfg` | Do fees stay within what positions hold, can the crank always settle, and do slippage assertions and queries tell the truth? |
| `clients` | `MCClients`, `Clients.cfg` | Are the books of the contracts that act for others backed, and is work done in order and nobody diluted? |
| `tokens` | `MCTokens`, `Tokens.cfg` | Do registries and indexes agree, and do tokens move by right only? |
| `bots` | `MCBots`, `Bots.cfg` | Do concurrent tasks keep apart, and is what they report true? |
| `progress` | `MCProgress`, `Progress.cfg` | Does what must happen eventually happen? |
| `crank_settlement` | `MCMarketCrank`, `MarketCrankSettlement.cfg` | violation, see section 4 |
| `pool_referral` | `LiquidityPool`, `PoolReferral.cfg` | violation, see section 4 |
| `copy_trading_slot` | `CopyTrading`, `CopyTradingSlot.cfg` | violation, see section 4 |

### What the properties say

* `crank`: `TypeOK`; `SettledInOrder`, `PendingIndexExact`,
  `OwnerWhenExecuted`, `FirstLaterPrice`, `FreeItemsQueuedOnce` of the queue;
  `LiquifundedInTime`, `NoItemBeforeLiquidation` of the schedule;
  `TokenBalance`, `BatchWithinBudget` of the money; `ImplementsQueue`, the
  refinement.
* `crank_live`: `EveryItemSettles`, `CrankCatchesUp`.
* `market`: `TypeOK`, `UnstakesLinearly`, `NoDilution` of the pool that has time
  for unstaking. `PoolBacked`: shares add up, the tokens held cover the pool and
  its fees, and yield is backed. `SettingsHarmless`: that also holds with traders
  that gain, taxes, rewards and resets, and with referral rewards as far as the
  finding of `pool_referral` leaves it (claims are covered by the wallets' and the
  referrers' fees together); after any valid update a position's schedule works
  out (`ScheduleNeverFails`), providers keep a part of the fees (`LpsAlwaysEarn`),
  and the fund pays work that was queued under other settings
  (`FundCoversQueue`), unless the reward was raised while it waited or it was
  charged when collateral was worth more than a dollar.
  `HistoryTrue`: profit, owners, summaries and pages follow from what was
  recorded. `NothingGained`: all of `Numbers` and `Prices`: results are exact or
  rounded down, conversions gain nothing, orders and keys agree. `PricesHold`
  (action property): a stored price never changes and is as fresh as its feeds;
  pages are what the history holds.
* `positions`: `FundingBacked` (funding paid in advance is covered by the payers'
  margins, whoever settles first, the totals are the sums over the positions, and
  the prefix sums those of the rates), `FeesMatch` (the delta neutrality fund equals the
  potential of the net interest, borrow fees fit their margin),
  `CrankNeverFails` (locked liquidity, tokens and triggers are exact, so every
  position can be settled and closed at every price), `TradesAsToldOf`
  (a trade is executed or refused as its slippage assertion says, within a
  latitude in the fee when a change of collateral impacts the size; what the query
  tells is possible), `FeesAsPromised` (action property: caps, margins, limits of
  the rates, payout as foretold).
* `clients`: `BooksBacked` of `CopyTrading` (it holds what its books say, what is
  pending is what waits in the queue, shares add up) and its `WorkInOrder` (slot,
  head of the queue and value of a share belong together). `ClientsBooked`: the
  same of the counter trade and the vault, and of the rebalance over several
  markets and calls: every closed position is booked once, and gains are gifts,
  unless a call left a market half read or old work in place, or a position closed
  behind a cursor. `ValueComplete`: a value computed in batches counts everything
  once, from the first market that its last validation began with; the market list
  is complete up to the last market seen, but for those listed behind it; the
  strategy decides in few steps. `NobodyShorted` (action property).
* `tokens`: `AllowancesKept` of `Cw20` (supply, both maps of allowances, what was
  granted, what a receiver is told); `RegistryComplete`; `IndexesAgree` (and pages
  find every referee, and every rank that does not move while they are read);
  `MovedByRight` (action property; for the faucet, gas up to the allowance unless
  a batch names a wallet twice where taps are not limited, and one competition tap
  and one batch for each wallet and token).
* `bots`: `RunnersApart` of `BotCrank`; `ToldTruly`: statuses, alerts, verdicts and
  answers are true, except that an error a task reports itself may be told as a
  recovery or a start, and that feeds used only for the price in dollars are not
  looked at; `ListsTrue`: the bots know every contract when they take it that
  nothing was added, except one added between the last page and the query for
  the time.
* `progress`: `RequestsSettle`: requests of copy trading settle unless the contract
  stops for good (`SettlesUnlessStopped`: the slot is taken by an item of the other
  queue, a market item comes before the first value, or a request deals in amounts
  worth nothing), a value is computed unless its validation was resumed at a later
  market, the market list gets complete but for the markets that
  `EveryMarketKnown` names, the wait of counter trade ends, withdrawals of a vault
  of a native coin are paid, a drained pool is reset. `WorkGetsDone`: work the bots
  can see is done. Deferred items of markets without off-chain prices are executed
  if the bots crank for something else; contracts are found and served unless they
  were added late or the bots were not told of them.

An exception named above is in every case a thing the code does, is reachable in
the instance that is checked, and was verified to be necessary: without it TLC
finds the property violated. Section 4 lists the unrestricted forms.

### Bounds

Names that begin with `Max` bound what would grow for ever (time, queues,
tokens, messages) and appear in guards only; nothing depends on their values
otherwise.

* `crank`: two traders, two queued items, three block times, two prices,
  liquifunding after one block, batches of two. An item needs one price after its
  creation, so three block times give an item, its price, and a second item that
  sees the effect of the first. Two traders suffice for every ownership
  conflict. Every kind of item, work and failure occurs, and a position can be
  opened, transferred, liquifunded, liquidated or closed with an item waiting
  for it. The symmetry over traders is sound: they are only compared for
  equality. `crank_live` has one trader and budgets of 0 or 1, so every batch is
  cut short.
* Pool: two providers, the smallest number with somebody else. Uneven deposits
  (3 atoms at `One = 2`) round at every step; an unstaking period of two blocks
  over three block times has a middle; `MaxLiquidity`, `MaxYields`, `MaxFees`
  and `MaxBalance` limit how many deposits and distributions there are, never
  their order. `MaxLiquidity = 4` is the least with which one provider can
  withdraw while another's shares are rounded.
* Positions: three positions for funding, where two payers race for one
  receiver's money; sizes on both sides of the caps of the delta neutrality fee;
  prices on both sides of every trigger. The symmetry over positions is sound:
  they are never ordered.
* Configuration: updates on, below and above each limit that `validate` checks;
  rewards and charges change with up to eleven units of work queued, at dollar
  prices of one half, one and two.
* Clients: pages of one or two. The rebalance walks over two markets with a budget
  of one query, so that it is cut between any two of them, over two markets with
  a budget for all of them, and over four positions of one market, where a call
  finds more than it looks for. The value is computed for one market, cut after
  every query, and for two markets with five queries in a call, where a validation
  may begin at the first market or be resumed at the second. The list has three
  markets, added in any order, in the block of a check as well; two requests
  per queue, so that one waits behind another.
* Faucet: with a tap limit and two recipients in a batch; without a limit, where a
  batch may name a wallet twice; and with two assets for one recipient, where it
  may name a token twice.
* Numbers: every pair of numbers with four parts of one up to eight, which
  includes overflow, underflow to zero and every rounding.
* Bots: two runners, one wallet, a channel of two and three markets: a runner
  can find the pool empty and the channel full, and a third market waits while
  two are worked on. Lists of three contracts in pages of two; four requests,
  two of the same wallet, in a channel of two.

Parts of `MCProgress` are smaller than in the safety runs, as liveness needs the
whole state graph, but each one keeps at least one cut batch, one failed
transaction or one full queue. No order of calls is excluded: in copy trading
deposits come while the leader's request is with a market, the leader may ask
before the first value, and amounts of one atom may be worth nothing.

### Deadlock

The engine's runs and `pool_referral` check for deadlock. In the engine a
`Crank` message is always possible between transactions, and inside one there
is always a next step: that there is one is the point of the check, since a
reply handler that finds an unexpected status bails out and blocks the crank.
The sums switch it off, as many of their parts really stop: a clock at its
bound, a list that is complete, requests that are all answered. So does
`copy_trading_slot`, where the stop is the finding.

### Fairness

`MarketCrank!Fairness` assumes that blocks are produced, that the price is
published again and again, and that somebody keeps cranking with a non-zero
budget; the off-chain bots do both, and the crank reward is their incentive.
Steps inside a transaction are weakly fair, since a transaction runs to its
end. The messages are strongly fair only because the model cuts transactions
into steps: on the level of transactions, this is weak fairness. Traders owe
nothing. A factory that disables the crank (shutdown) is excluded.
`CrankCatchesUp` relies on the bound `MaxTime`: in reality prices may arrive
faster than they are cranked; the run shows that the crank gets stuck nowhere.

In `progress` each conjunct is an implication whose antecedent is the fairness of
its part, the one its module states as `FairSpec`:

* Contracts: `DoWork` is called (the copy trading and counter trade tasks of the
  bots do), a market executes its deferred items (`EveryItemSettles` of the
  engine), `ProcessWithdrawal` and the crank's reset are called. Depositors,
  leaders and traders owe nothing.
* Bots: a task goes on (its loop has no exit but a failure of the process) and
  a step of a task that is enabled is taken. Transactions that sometimes get
  through get through in the end (strong fairness of the successful outcome):
  a node may refuse one for a while, not for ever. A runner that waits for a
  wallet gets one, if wallets come back again and again: the pool is a queue.
  A watcher's work succeeds when the trouble (`Weather`) is over.

## 4. Findings and observations

### Findings

Each is shown by a run that TLC ends with a violation of the property that
states what the quoted line says.

1. **Settlement before the last liquifunding** (`crank_settlement`,
   `SettledAfterLiquifunding`). `ClosePositionExec::new` asserts
   `pos.liquifunded_at <= settlement_price.timestamp`
   (`state/position/close.rs:99`). The crank liquifunds a position up to its own
   `next_liquifunding`; the settlement price is the price in force then and
   carries its own publish time. After two liquifundings without a price point
   in between, of which the second closes the position, the assertion is false.
   It is a debug assertion, so release builds go on.
2. **Referral rewards are claimed from the wrong counter** (`pool_referral`,
   `ClaimsBacked`). `collect_trading_fee` credits the reward to
   `fees.referral` (`state/fees.rs:175`), a claim subtracts it from
   `fees.wallets` (`state/fees.rs:219`), and nothing ever decreases
   `fees.referral`. Wallet fees then do not cover the yield of the others.
3. **A deposit during a deferred execution stops copy trading**
   (`copy_trading_slot`, `NotImpossible`). `get_work` bails with "Impossible:
   Deferred Inc work handler got non market item"
   (`contracts/copy_trading/src/work.rs:73`). It is possible: while the leader's
   request of the dec queue waits for its deferred execution, a follower
   deposits; the inc queue goes first, the deposit's share value is outdated and
   the slot is taken, so `get_inc_deferred_work` is called for the deposit. No
   `DoWork` succeeds from then on.

### Observations

While the modules were written, further places came up where the code and its
text disagree, or where a property one would like to have does not hold. The
operators named here are in the modules and no run of the project asserts them.
Where a run checks a weaker property, its exceptions are these cases.
`mod!Prop` below stands for property `Prop` of module `mod`.

Market:

* `LiquidityPool!NoYieldWithoutHolders`: a fee is split by the last point of the
  rate series; providers may have moved all their tokens to the other class
  since, and then the assertions at `state/liquidity.rs:186` and `193` fail; a
  release build leaves the fee unclaimed in `fees.wallets`.
* `BorrowRates!RateRisesWhenEmpty`: without liquidity the bias is -1 and the rate
  falls, where the comment says it has to be pushed up
  (`state/funding.rs:161`).
* `MarketConfig!FundAlwaysCovers`: the reward is paid as so many units of
  collateral, the charge is converted from dollars (`state/fees.rs:272`); and a
  reward that is raised while work is queued is paid for work that was charged
  before. `FundCoversQueue` has these two exceptions.
* `MarketConfig!NextWithinDelay`: the self check at `state/sanity.rs:69` uses the
  current delay, positions keep the one they were given.
* `MarketConfig!LimitsIncluded`: messages call limits inclusive that are not
  (`packages/perpswap/src/contracts/market/config.rs:215`, `:268`).
* `SpotPrice!MostRecentGiven`: a Pyth price ahead of the block time is stored,
  but "the most recent price" is the last one at or before it
  (`state/spot_price.rs:267`).
* `SpotPrice!VolatileFeedsCount`: the `volatile` field of a Simple feed is never
  read (`state/spot_price.rs:718`).
* `Slippage!EveryTradeAsAsserted`: for a change of collateral with impact on the
  size, the assertion uses the position before its liquifunding, the update the
  one after (`deferred_exec.rs:152`). `TradeAsAsserted` bounds the difference.
* `Slippage!DocumentedTolerance`: the fee rate divides collateral by notional
  (`state/position/validate.rs:136`), documented as a ratio in collateral.
* `PositionQuery!PendingIsPayout`: a position whose gains exceed its counter
  collateral is reported with the whole exposure, the close pays at most the
  counter collateral (`packages/perpswap/src/contracts/market/position.rs:595`).
* `PositionQuery!OpenIsKept`: the query calls open what the market liquidates for
  its margin (same file, `:574`).
* `PositionNft!SendAccepted`: `nft_send` serialises the bare struct, the receiver
  expects it under `Receive` (`state/position/cw721.rs:574`).

Copy trading, counter trade, vault:

* `CopyTrading!EveryRequestSettles`: besides the case of finding 3, a market item
  queued before any value was computed fails for ever at the head
  (`contracts/copy_trading/src/work.rs:1067`), and so do a deposit that buys no
  shares and a withdrawal of shares worth less than the smallest amount
  (`contracts/copy_trading/src/types.rs:226`, `:234`).
* `CopyTradingRebalance!NeverOverbooked` and `OnlyGiftsAreGains`: a walk whose
  allowance is exactly used up leaves the rest of a market and goes on with the
  next (`contracts/copy_trading/src/execute.rs:746`), and a batch that finds more
  than its amount leaves the old batch work in place (`:768`); gains are then
  booked that nobody sent (`:754`). A position that closes in the block of a
  rebalance, with a smaller id, is behind the cursor (`:698`) and booked as a gift.
* `CopyTradingValue!CountsEverything`: a resumed validation adds up the markets of
  that call only (`:1033`). `CopyTradingValue!NothingHalfDone`: it leaves an
  earlier market in a status for which `work.rs:319` asserts.
* `CopyTradingMarkets`: a new market with a smaller id
  (`contracts/copy_trading/src/common.rs:127`), or added in the block of the
  check (`:103`), is not found, which `EveryMarketKnown` excepts;
  with a factory that tells no time of the last addition loading stays due for ever
  (`:122`), which `RequestsGetTheirTurn` excepts.
* `CounterTrade!DepositsGoOn`: collateral without shares blocks deposits
  (`contracts/countertrade/src/common.rs:121`). `CounterTradeTarget!NoPanic`: an
  assertion fails for equal sides (`contracts/countertrade/src/work.rs:577`).
  `CounterTradeTarget!SearchConverges`: a search with nothing to find ends with
  an error (`:460`).
* `Vault!RequestsPaid` for a CW20 vault: withdrawals look at the bank balance
  (`contracts/vault/src/execute.rs:327`). `Vault!TokensBacked`: what rounding
  leaves of the excess goes to the governance (`:259`). `Vault!FullDeposit`: a
  deposit is measured against a balance that already holds it (`:65`).

Factory, tokens, tools:

* `Factory!NoNewTrades`: an open that was queued before a shutdown is executed
  after it (`packages/perpswap/src/shutdown.rs:128`). `Factory!AllDaoFees`: one
  market without fees fails the transfer of all
  (`contracts/factory/src/contract.rs:311`).
* `Referrals!EveryReferrerRead`: a reader of the leaderboard misses who moves up
  past it (`contracts/factory/src/state/referrer.rs:115`).
  `Referrals!PageWithinLimit`: a page holds one entry more (`:48`).
* `Faucet!OneTapPerPerson`: two entry points keep the record of taps under
  different keys (`contracts/faucet/src/state/trading_competition.rs:85`), and a
  token named twice in a batch is paid twice (`multitap.rs:51`). Without a tap
  limit a wallet listed twice in a batch is topped off twice (`multitap.rs:58`).
* `Tracker!LookupMatches`: a second `Instantiate` for an address overwrites its
  record (`contracts/tracker/src/execute.rs:86`).
* `Numbers!NonZeroIsNot`, `Numbers!InverseExists`, `Prices!NeverNothing`,
  `Prices!DustSends`: products of non-zero values may be cut off to zero
  (`packages/perpswap/src/number/types.rs:704`, `number/nonzero.rs:18`,
  `price.rs:118`, `token.rs:360`).

Bots:

* `BotCrank!SignalMeansWork`: a push and its signal are two steps, so a runner may
  be woken for nothing (`bots/app/crank_run/trigger_crank.rs:170`).
* `BotPrice!CrankCanWork`: an item created at the oracle's publish time is taken
  for work, the market wants it strictly before (`bots/app/price.rs:506`).
  `BotPrice!RetriedSingly`: without Pyth feeds a failed common transaction is not
  retried (`:256`). `BotPrice!EveryItemServed` for native feeds: the bots do not
  crank for an item newer than the market's price (`:603`); the comparison of prices
  in `price_would_trigger` is reversed for them.
* `BotWatcher!TruthTold` for tasks that report errors themselves
  (`bots/watcher.rs:489`), and `BotWatcher!ExpiredIsNoAlert` (`:663`).
* `BotDirectory!NothingMissed`: the time of the last addition is read after the
  last page (`bots/app/copy_trade.rs:67`), so that a contract added in between is
  found only after yet another one is added. A counter trade contract made by
  others, or by a transaction whose answer was lost, is only learnt after a
  restart.
* `BotFeeds!MarketWouldTakeAll`, `BotFeeds!NoUpdateNeededAtAll`: a feed that is only
  in `feeds_usd` is not looked at (`bots/util/oracle.rs:139`).

## 5. Proofs

Proved with TLAPS for every value of the constants that satisfies the named
assumptions. No bound on time, queue length, number of positions, runners or
markets is used beyond their being natural numbers and finite sets.

*Assumptions of `MarketCrank`*: non-empty sets of traders, triggers and delays;
amounts, prices and delays natural numbers; a positive crank fee and queue step
(with a fee of zero, updates are queued without any funds, a case the model
leaves out); `AmountsFinite`, a finite set of amounts, as amounts are `u128`.
*Assumptions of `LiquidityPool`*: any number of wallets; a positive `One` (so for
decimals of any granularity, 18 digits included) and a positive unstaking
period; deposits and named token amounts positive, all other amounts natural
numbers; tax and referral ratio between 0 and 1.
*Assumption of `BotCrank`*, `ConstantsAssumption`: a channel, a pool and a work
bound of at least one, finitely many runners and markets.
*`FundingConstants`*: finitely many positions with a size other than zero; a
positive delay, positive steps of time; any rates, sensitivity and deposits; a
positive `HighCap`, the product of two settings whose type is `NumberGtZero`.
*`CopyConstants`*: finitely many wallets, positive deposits, withdrawals and
stakes (the messages require that), a commission rate of at most one.
*`Cw20Constants`*: finitely many wallets, of which the market is none; natural
numbers for the cap and the bounds. *`ConstantsOK` of `PositionNft`*, a hypothesis
of its theorems that `ConstantsFit` of `MCTokens` checks: "no owner" is no account.

| Theorem | Statement | Module |
|---|---|---|
| `TypeCorrect` | `Spec => []TypeOK` | `MarketCrankProofs` |
| `Liquifunding` | `Spec => []LiquifundedInTime` | |
| `LiquidationFirst` | `Spec => []NoItemBeforeLiquidation` | |
| `FirstInFirstOut` | `Spec => []SettledInOrder` | |
| `PendingIndex` | `Spec => []PendingIndexExact` | |
| `ActsForOwner` | `Spec => []OwnerWhenExecuted` | |
| `SettlementPrice` | `Spec => []FirstLaterPrice` | |
| `Finality` | `Spec => SettledIsFinal` | |
| `Budget` | `Spec => []BatchWithinBudget` | |
| `FreeItems` | `Spec => []FreeItemsQueuedOnce` | |
| `Balanced` | `Spec => []TokenBalance` | |
| `QueueRefined` | `Spec => ImplementsQueue` | |
| `PoolTypeCorrect` | `Spec => []TypeOK` | `LiquidityPoolProofs` |
| `TokensAddUp` | `Spec => []SharesAddUp` | |
| `UnstakingIsLinear` | `Spec => []UnstakesLinearly` | |
| `ValueOfTokens` | `Spec => NoDilution` | |
| `Solvency` | `Spec => []Solvent` | |
| `ClaimsAreCovered` | `Spec => []ClaimsCovered` | |
| `YieldIsBacked` | `ReferralRatio = 0 => (Spec => []YieldBacked)` | |
| `PoolIsBacked` | `ReferralRatio = 0 => (Spec => []PoolBacked)` | |
| `NeverInTheWay` | `Spec => []RunnersApart` | `BotCrank` |
| `FundingIsBacked` | `Spec => []FundingBacked` | `Funding` |
| `CopyBooksBacked` | `Spec => []BooksBacked` | `CopyTrading` |
| `CopyWorksInOrder` | `Spec => []WorkInOrder` | |
| `TokenKept` | `Spec => []AllowancesKept` | `Cw20` |
| `ExpiredUnspent` | `Spec => NoSpendingExpired` | |
| `CompetitionIsConfined` | `Spec => CompetitionConfined` | |
| `IndexesAreExact` | `Spec => []IndexesExact` | `PositionNft` |
| `ApprovalsAreOfOwner` | `Spec => []ApprovalsOfOwner` | |
| `PositionsMoveByRight` | `Spec => MovedByRight` | |

So every property of the run `crank`, everything the run `market` asks of the
pool (`TypeOK`, `UnstakesLinearly`, `NoDilution`, `PoolBacked`), `FundingBacked` of
`positions`, `BooksBacked` and `WorkInOrder` of `clients`, `AllowancesKept` of
`tokens` and `RunnersApart` of `bots` hold for all instances, not only for the
ones TLC explored. The action properties of `Cw20` and all theorems of
`PositionNft` state parts of `IndexesAgree` and `MovedByRight`. `Finality` is
about an action property no run checks: the refinement implies it for the queue,
and the theorem adds closed positions.

### The engine, bottom up

* `TypeInv` adds to the types that an item in flight exists and that there is
  a price to run it at (`InFlightOK`); without it `Cur` and `NextPrice` would
  be undefined choices. The work list chooses by `CHOOSE`; lemmas (`LeastExists`,
  `FirstByKey`, `LastByKey`) show that a first (last) element by key and id
  exists, so that what the crank picks is what it looked for. They get induction
  in the form of well-foundedness: a non-empty set of naturals has a least
  element.
* `ScheduleInv` is `TypeInv`, `PricedOK` (every open position has a price in
  force at its next liquifunding) and the two properties about the schedule.
  `PositionStep`: no step makes an open position due earlier, and a new or
  updated one is due after the price being worked on. `PriceStep`: prices are
  only added at the end. Completing a point, and sending an item, requires
  that nothing is due there.
* `StepKinds` reduces every step, seen from the queue, to six kinds: quiet,
  submission, sending, success, failure, reply. With it `SettledInOrder` and
  `PendingIndexExact` are inductive.
* `PositionMoves` reduces every step, seen from the book, to four moves. Owners
  change only by `NftTransfer`, which the exact index rules out while an item
  waits: `OwnerWhenExecuted` is inductive relative to `PendingIndexExact`.
* `PriceOrder` strengthens `FirstLaterPrice`: nothing is dated in the future,
  the queue is ordered by creation, no waiting item is older than a completed
  price, the item in flight is older than the price it runs at. The step that
  matters is `CrankCompleted`: `DeferredReady` looks at the head of the queue
  only, and the order of creation makes that enough.
* `QueueInv` is the conjunction of all these; `Finality` follows from it step
  by step.
* `BudgetInv`: inside a transaction, the weight done and the weight left make up
  what was requested, and each paid unit is a regular weight that was done. The
  batch is suspended by submessages, and the invariant is about the saved
  weight as well.
* `MarksInv` adds to `FreeItemsQueuedOnce` that a close has a position for its
  target and that an order a cancellation waits for is marked.
* `FundsInv` is `QueueInv`, `UnpaidHoldNothing` (an item that pays no fee holds no
  deposit) and the equation *escrow = deposits of the pending items*, which is
  `TokenBalance` solved for the queue. Sums over sets are folds, which no prover
  unfolds: `SumsAgree` of `FiniteSums` shows that a fold of `MapThenSumSet` over a finite set is
  a function defined by recursion over subsets, from which `OwedAdd`,
  `OwedRemove` and `OwedSame` follow by `SubsetInduction`. `MoneySteps` says for
  every action what it does to balance, pot, fees, rewards and open orders.
* `QueueRefined`: initial states map to initial states, and a step of kind
  submission maps to `Submit`, success and failure to `Settle`, all others to a
  stutter; the escrow moves as the abstract queue says by `FundsInv` before and
  after the step.

### The pool

The code never recounts: it keeps totals beside the records they sum up, and one
number for what all wallets together may claim. The proofs show that the totals
stay true.

* `PoolInv` is `BooksInv` and `FeesInv`. `BooksInv`: no prefix sum is larger than
  the last; every record has a key into them, is not empty and unstakes within
  its bounds (`RecordOk`); the totals are the sums of the records, and while the
  pool is reset those the crank has passed have no tokens (`SharesInv`), which
  the property, speaking about the end of the reset, needs on the way.
  `RecordSaved` and `TokensSaved` carry most messages: one record is saved, and
  the totals change as it does (`SaveSums`, from `TotalMoved`). `UnstakedBound` is
  the arithmetic of `calculate_unstaked_lp`: what two divisions rounded down give
  for the time since the last collection, added to what was collected, stays below
  the line from the start.
* `Solvent` is inductive with `PoolInv`: each message moves as many tokens as pool
  and fees change together (`SolventBy`), a withdrawal of the last tokens leaves
  the dust behind, and a drained pool has no collateral to lose.
* `ValueKept` says of a step that collateral per token does not fall, without a
  division. It comes from the direction of four roundings: a deposit's tokens
  (`KeptByDeposit`) and a withdrawal's collateral (`KeptByWithdrawal`) are a
  product rounded down, divided and rounded down again.
* `YieldBacked` is not inductive: each record is accrued at its own times, and the
  rounded shares of two periods can be less than the share of both. `BackedInv`
  speaks of the **exact** claims (`ExactClaim`: what a record is owed before
  rounding, times `One`) of all providers: with the fees of a class that nobody
  held they are at most the fees of wallets and referrers. A new prefix sum raises
  the exact claims by the sum of the tokens times the increment (`YieldClaims`),
  and that the totals are the sums of the tokens makes it at most the fee; that
  is where the proof uses `SharesInv`. Accruing only loses (`AccrueRoundsDown`),
  and every message that moves tokens accrues first, on both sides of a transfer
  (`BackedByCall`, `BackedByTransfer`). `ClaimsCovered` follows, and says how far the
  finding of the run `pool_referral` goes: the wallets' fees fall short by no more
  than the referral rewards in `fees.referral`. With `ReferralRatio = 0` nothing
  is ever in there (`NoReferralStep`), which gives `YieldBacked`, and with it that no
  claim fails for lack of funds.
* One attempt failed for a good reason: `ClosePosition` had allowed a gain larger
  than the locked collateral, with a negative amount to unlock, for values of
  `Gains` no configuration used. Its guard now says what the code's conversions
  to non-negative numbers do.

### The crank runners

`RunnersApart` says four things at once: the queue's set holds exactly what waits
and what runners hold (`QueueMatches`); nobody holds a market another runner
holds or that waits, and nothing waits twice (`OneRunnerPerMarket`); while
something waits there is a value in the channel, a runner that is about to look,
or the price task is about to signal (`WorkSignalled`); and wallets are in the
pool or in use (`WalletsConserved`). The inductive invariant `Inv` adds types and
`GuardsInv`: a runner has a market exactly at the places of `crank_run.rs` where
it holds the guard, and the count of guards is the number of such runners. There
is a lemma for each kind of step (`RunnerWaits`, `RunnerCranks`, `RunnerPops`,
`RunnerDrops`, `RunnerQueues`, `OtherStep`) and, under it, one for each part that
the step does not disturb (`QueueStill`, `AllStill`, `RunnerGoesOn`). The step
that matters is a runner's way from an empty look at the queue to the channel:
the last signal is swallowed only by a runner that will look again.

### The funding ledger

`FundingBacked` speaks of what is tracked in one total (`TOTAL_FUNDING_MARGIN`,
`TOTAL_NET_FUNDING_PAID`) and of prefix sums; positions settle at different
times, in any order, and what one receives another pays later. `FundingInv` has
four parts. `PositionsInv`: an open position has more left than its margin, and
is due a delay after its last settlement. `SeriesInv`: the sum at a point is
the second-for-second sum of the rates before it, and between points the rate is
that of the earlier one, so a difference of two sums is the sum of the rates in
between (`SumOfIsSum`), at most the time times the cap (`RatesWithin`).
`BooksInv`: the totals are sums over the open positions, and what is held is
their active collateral plus what was paid in advance. `MarginSuffices`: no
payment was cut because it exceeds the margin. It follows from
`OwedWithinMargin`, since every settlement ends at the time the position is due or
before: a late crank settles up to that time, and while a position is due nothing
is closed or updated. `PaymentWithin` shows that the cap of
`aggregate_capping.rs` keeps advances within the margins that are left, and
`SettledBooks` that the totals follow.

### Copy trading

`CopyInv` is `QueuesInv` (in each queue exactly the requests up to the last
processed one are settled, and only the next one may be in progress), `SlotInv`
(the slot is taken exactly while one of the two heads is in progress, and never
both), `ValueInv` (a value computed for a request is as recent as the last
message to a market, and no message to a market is under way before the first
value), `BooksInv` (types, `BalanceCovers`, shares) and `PendingIsQueued`, which
makes what is pending a sum over the requests that wait. The head's way through
the queue is three lemmas (`AppendStep`, `ProgressStep`, `SettledStep`), and what
each does to the sum three more (`DueAppended`, `DueInProgress`, `DueSettled`).
`CopyWorksInOrder` follows: shares are priced when the slot is free, at a
value no message to a market came after.

### The CW20 token

`TokenInv` has a part for each storage item that is written on its own: `AllowInv`
(both maps equal, the entry plus what was spent at most what was granted),
`CoinInv` (supply and balances), `BookInv` (the market's books and the call it is
about to get), `MiscInv`. Each operation is a lemma that cites one lemma for each
part: `AllowStep` (both maps get the *same* entry, by `EntryIncreased`,
`EntryDecreased`, `EntryDeducted`), `MoveStep` (take, then add, which leaves
a balance alone in a transfer to oneself), `ArrivalBooked` (tokens are there
before the market is told). A decrease computes the entry from the map by owner
and stores it in both, so the equality of the maps is needed for the next step.
`MoveConfined` carries `CompetitionConfined`: a move whose one end is the market
does not take from a wallet and give to a wallet.

### Position NFTs

`NftInv`: the owner in the position decides what the indexes hold, ids are used
once, closed positions have no approvals, and approvals are of the present owner.
That a position opens without approvals needs the last two; that a transfer is by
right (`TransferStep`) needs the approvals' owner.

### Only model-checked

* Liveness (`EveryItemSettles`, `CrankCatchesUp`, `RequestsSettle`,
  `WorkGetsDone`) and everything that involves `ENABLED`: the temporal backend
  has no rule for fairness with `ENABLED`.
* What a recursive definition or a fold computes for every input (arithmetic of
  `Decimals` on texts, the bisection of `CounterTradeTarget`, prefix sums of the
  data series): the induction theorems of the library take operators as
  parameters, which the provers cannot instantiate. Sums over finite sets are
  the exception, by the detour of `FiniteSums`.
* Properties of a sum of components (`SettingsHarmless`, `HistoryTrue`,
  `NothingGained`, `PricesHold`, `FeesMatch`, `CrankNeverFails`, `TradesAsToldOf`,
  `FeesAsPromised`, `ClientsBooked`, `ValueComplete`, `NobodyShorted`,
  `RegistryComplete`, `IndexesAgree`, `MovedByRight`, `ToldTruly`, `ListsTrue`),
  but for the parts named above.

## 6. Plan

Done: all components of the inventory that are listed as modelled or partly
modelled in `PROJECT.json`, their runs, and the proofs above. Next, in this
order:

1. `Vault`: `PendingAddsUp` and `NobodyOvertakenStep`; `CounterTrade`:
   `SharesAddUp`, which need the queues and sums of `CopyTrading`'s proof.
2. `LpTokenProxy`: its allowances are those of `Cw20`, once for each kind.
3. Collateral-is-base markets in `PositionLife` (leverage off by one, change of
   direction).

## 7. Not modelled, and what to know of the models

* Not modelled: migration, the self checks (`state/sanity.rs`, whose conditions
  are invariants here), the test harness, events and formatting, most read-only
  queries, code ids beyond "stored or not". Of the bots: gas refills, their
  spending limits and trading hours, test traders, RPC statistics and the
  tracker's test deployments. `PROJECT.json` gives the reason for each part.
* Markets whose collateral is the base asset change the direction of a position
  with its leverage (`PERP-996`); `PositionLife`, `Slippage` and `PositionQuery`
  are about collateral-is-quote markets. Cost bases in dollars are left out.
* `ConfigRules` counts numbers with four decimals (`Whole` = 10000) and times in
  hours. `BorrowRates` dates a liquifunding at the time it was due, as the crank
  does when it is late.
* `PositionQuery`: the query computes a reduced delta neutrality margin and
  discards it, and does not apply the total cap on received funding; the model
  does neither.
* `BotFeeds` leaves the `volatile` flag of Simple feeds to `SpotPrice`.
  `BotBatches` assumes weak fairness of the server's loop.
* Oracles, other contracts, token receivers, nodes and traders are environment:
  actions without code behind them are marked external in `PROJECT.json`.

### Further hazards

Beyond those in `PROJECT.json`, the modules contain these, and the runs of their
components go through them. Market: rewards for work whose fee was never
collected (`state/fees.rs:280`); a pool voided before a fee reaches its
providers (`state/position/close.rs:289`); rates appended after the work of a
price point (`state/data_series.rs:40`); a late crank that settles several
periods at once (`state/crank.rs:236`); a trade across zero net interest paid
and charged in one (`state/delta_neutrality_fee.rs:198`); closes that are never
refused beyond a cap (`state/position.rs:739`); liquifunding that unlocks
liquidity before its close (`state/position/liquifund.rs:143`); a rate split by
rounded shares (`state/funding.rs:224`); two manual prices in one block
(`state/spot_price.rs:461`); a position that changes hands between deposit and
close (`state/history/trade.rs:81`). Clients: collateral given back by reply,
rebalance or not at all (`contracts/copy_trading/src/reply.rs:45`); commission
over gains and losses of several markets (`contracts/copy_trading/src/types.rs:475`);
a deposit that is already in the balance (`contracts/countertrade/src/common.rs:108`);
a strategy that goes back and forth (`contracts/countertrade/src/work.rs:293`); an
excess computed from a counter kept apart from the queue
(`contracts/vault/src/execute.rs:205`). Registries and tokens: four
instantiations of which one fails (`contracts/factory/src/contract.rs:368`); an
index used twice (`contracts/factory/src/state/copy_trading.rs:91`); a transfer to
oneself (`contracts/cw20/src/state/cw20.rs:270`); an allowance in the block it
expires (`:646`); a cooldown passed on with the tokens
(`state/liquidity/cw20.rs:343`); several payments under one key
(`contracts/faucet/src/state/history.rs:54`); types compared after migrations
(`contracts/tracker/src/execute.rs:111`). Bots: a full channel
(`bots/app/crank_run/trigger_crank.rs:134`), a crank that fails half way
(`bots/app/crank_run.rs:91`), a market that always has work
(`bots/app/crank_run/trigger_crank.rs:85`), a task that hangs
(`bots/watcher.rs:584`), urgent work taken between lock and signal
(`bots/app/high_gas.rs:39`), one query of an update that fails
(`bots/app/factory.rs:122`), a price that grows too old on its way
(`bots/util/oracle.rs:292`).

----------------------------- MODULE MarketCrank -----------------------------
(***************************************************************************)
(* The transaction engine of the market contract: price points, the crank, *)
(* and the queue of deferred executions.                                   *)
(*                                                                         *)
(* A trader's message never acts at once.  It is queued as a deferred      *)
(* execution, and a later Crank message replays, price point by price      *)
(* point, everything that is due: liquifunding, liquidation, queued items, *)
(* triggered limit orders.  A queued item runs in a submessage of the      *)
(* contract to itself; the crank returns, and the reply handler settles    *)
(* the item (a failed item is refunded) and resumes the batch.             *)
(*                                                                         *)
(* A blockchain transaction is atomic, but a Crank transaction has many    *)
(* internal steps.  `phase' says where in a transaction we are; the other  *)
(* messages are enabled only between transactions (phase = "idle").        *)
(*                                                                         *)
(* Data that only decides WHETHER an item succeeds (sizes, leverage,       *)
(* slippage, available liquidity) is abstracted to a choice.  Collateral   *)
(* of positions, liquidity and the fees they pay other than crank fees are *)
(* one amount, `pot'.                                                      *)
(***************************************************************************)
EXTENDS Integers, Sequences, FiniteSets, FiniteSetsExt

CONSTANTS
  Traders,          \* wallets that trade
  Amounts,          \* collateral amounts a trader may attach
  Prices,           \* spot prices
  TriggerPairs,     \* <<lo, hi>>: triggered by a price =< lo or >= hi
  OrderTriggers,    \* <<"long" or "short", trigger price>> of a limit order
  CrankFee,         \* config.crank_fee_charged
  CrankSurcharge,   \* config.crank_fee_surcharge
  QueueStep,        \* queue length that adds one surcharge (10 in the code)
  CrankReward,      \* config.crank_fee_reward
  Delays,           \* possible distances to the next liquifunding (with fuzz)
  Payouts,          \* collateral a position may pay out
  LpCount,          \* liquidity providers a reset has to visit
  CrankExecs,       \* values of `execs' in a Crank message
  InitPot,          \* liquidity deposited at the start
  MaxTime,          \* bound: last block time
  MaxExecs          \* bound: number of deferred executions

ASSUME TradersAssumption == Traders # {}
ASSUME AmountsAssumption == Amounts \subseteq Nat \ {0}
ASSUME AmountsFinite == IsFiniteSet(Amounts)     \* u128 amounts
ASSUME PricesAssumption == Prices \subseteq Nat \ {0}
ASSUME TriggerPairsAssumption ==
  TriggerPairs \subseteq Nat \X Nat /\ TriggerPairs # {}
ASSUME OrderTriggersAssumption ==
  OrderTriggers \subseteq {"long", "short"} \X Nat
ASSUME FeeAssumption ==
  /\ CrankFee \in Nat \ {0}
  /\ CrankSurcharge \in Nat
  /\ QueueStep \in Nat \ {0}
  /\ CrankReward \in Nat
ASSUME DelaysAssumption == Delays \subseteq Nat \ {0} /\ Delays # {}
ASSUME PayoutsAssumption == Payouts \subseteq Nat
ASSUME BoundsAssumption ==
  /\ LpCount \in Nat
  /\ CrankExecs \subseteq Nat
  /\ InitPot \in Nat
  /\ MaxTime \in Nat
  /\ MaxExecs \in Nat

VARIABLES
  now,              \* block time
  prices,           \* PRICES: publish time -> spot price
  lastCompleted,    \* LAST_CRANK_COMPLETED
  execs,            \* DEFERRED_EXECS; its length is LatestIds.issued
  processed,        \* LatestIds.processed (0: none)
  pendingFor,       \* PENDING_DEFERRED_FOR_POSITION and _FOR_ORDER
  closing,          \* IS_POSITION_CLOSING
  canceling,        \* IS_LIMIT_ORDER_CANCELING
  positions,        \* OPEN_POSITIONS and CLOSED_POSITIONS, by id
  orders,           \* LIMIT_ORDERS (open or gone), by id
  closeAll,         \* CLOSE_ALL_POSITIONS
  reset,            \* RESET_LP_STATUS: crank steps left, 0 when unset
  phase,            \* where in a transaction we are
  replyOk,          \* result of the last PerformDeferredExec submessage
  progress,         \* CRANK_BATCH_WEIGHT_LEFT, and the batch in memory
  balance,          \* collateral tokens held by the contract
  crankFees,        \* ALL_FEES.crank
  rewards,          \* the part of ALL_FEES.wallets from cranks and refunds
  pot               \* positions, liquidity and the fees they paid

queueVars == <<execs, processed, pendingFor, closing, canceling>>
bookVars  == <<positions, orders, closeAll, reset>>
txVars    == <<phase, replyOk, progress>>
timeVars  == <<now, prices, lastCompleted>>
moneyVars == <<balance, crankFees, rewards, pot>>
vars == <<queueVars, bookVars, txVars, timeVars, moneyVars>>

------------------------------------------------------------------------------
(* Values.                                                                 *)

NewKinds    == {"open", "place"}
UpdateKinds == {"update", "closeSlippage"}
PosKinds    == {"add", "close"} \cup UpdateKinds
Kinds       == NewKinds \cup PosKinds \cup {"cancel"}

\* DeferredExecTarget
Target == ({"none"} \X {0}) \cup ({"position", "order"} \X (Nat \ {0}))
NoTarget == <<"none", 0>>

Exec == [kind : Kinds, target : Target, owner : Traders, created : Nat,
         amount : Nat, status : {"pending", "success", "failure"}, at : Nat]

Position == [owner : Traders, open : BOOLEAN, liquifundedAt : Nat,
             next : Nat, lo : Nat, hi : Nat, settled : Nat]

LimitOrder == [owner : Traders, open : BOOLEAN, dir : {"long", "short"},
               trigger : Nat, amount : Nat]

Phases == {"idle", "crank", "perform", "reply"}

NoProgress == [requested |-> 0, left |-> 0, paying |-> 0, done |-> 0]

------------------------------------------------------------------------------
(* Price points.                                                           *)

Published == DOMAIN prices

\* spot_price: the publish time of the price in force at time t.
SpotPriceTime(t) == Max({u \in Published : u =< t})

\* next_crank_timestamp: price points the crank has not completed.
Uncranked == {u \in Published : u > lastCompleted}
NextPrice == Min(Uncranked)

\* spot_price_append: only a strictly newer publish time is stored.
SpotPriceAppend(u, v) ==
  /\ \A w \in Published : w < u
  /\ prices' = [w \in Published \cup {u} |-> IF w = u THEN v ELSE prices[w]]

------------------------------------------------------------------------------
(* The work list of the crank.                                             *)

Open == {p \in 1..Len(positions) : positions[p].open}
OpenOrders == {o \in 1..Len(orders) : orders[o].open}

\* Mutant: the index is read up to, but excluding, the price point.
DueExclusive(t) == {p \in Open : positions[p].next < t}

\* NEXT_LIQUIFUNDING up to and including the price point.
Due(t) == {p \in Open : positions[p].next =< t}

\* Lowest (next_liquifunding, id).
FirstDue(t) ==
  CHOOSE p \in Due(t) : \A q \in Due(t) :
    \/ positions[p].next < positions[q].next
    \/ positions[p].next = positions[q].next /\ p =< q

\* PRICE_TRIGGER_DESC from the price upwards, PRICE_TRIGGER_ASC up to it.
TriggeredDesc(v) == {p \in Open : positions[p].lo >= v}
TriggeredAsc(v)  == {p \in Open : positions[p].hi =< v}

\* liquidatable_position: highest (price, id) of DESC, else lowest of ASC.
Liquidatable(v) ==
  IF TriggeredDesc(v) # {}
  THEN CHOOSE p \in TriggeredDesc(v) : \A q \in TriggeredDesc(v) :
         \/ positions[p].lo > positions[q].lo
         \/ positions[p].lo = positions[q].lo /\ p >= q
  ELSE CHOOSE p \in TriggeredAsc(v) : \A q \in TriggeredAsc(v) :
         \/ positions[p].hi < positions[q].hi
         \/ positions[p].hi = positions[q].hi /\ p =< q

LongHit(v)  == {o \in OpenOrders : orders[o].dir = "long" /\ orders[o].trigger >= v}
ShortHit(v) == {o \in OpenOrders : orders[o].dir = "short" /\ orders[o].trigger =< v}

\* limit_order_triggered_order: most urgent long order, else short order.
TriggeredOrder(v) ==
  IF LongHit(v) # {}
  THEN CHOOSE o \in LongHit(v) : \A q \in LongHit(v) :
         \/ orders[o].trigger > orders[q].trigger
         \/ orders[o].trigger = orders[q].trigger /\ o >= q
  ELSE CHOOSE o \in ShortHit(v) : \A q \in ShortHit(v) :
         \/ orders[o].trigger < orders[q].trigger
         \/ orders[o].trigger = orders[q].trigger /\ o =< q

\* Mutants: an item may run at the price of its own block; the last issued
\* id is taken for the next free one.
DeferredReadySameBlock(t) ==
  processed < Len(execs) /\ execs[processed + 1].created =< t
DeferredReadyButLast(t) ==
  processed + 1 < Len(execs) /\ execs[processed + 1].created < t

\* next_crankable_deferred_exec_id: strictly created before the price.
DeferredReady(t) ==
  processed < Len(execs) /\ execs[processed + 1].created < t

\* Mutant: queued items before liquidations.
CrankWorkItemsFirst(t) ==
  IF reset > 0 THEN "reset"
  ELSE IF Due(t) # {} THEN "liquifunding"
  ELSE IF closeAll /\ Open # {} THEN "closeAll"
  ELSE IF DeferredReady(t) THEN "deferred"
  ELSE IF TriggeredDesc(prices[t]) \cup TriggeredAsc(prices[t]) # {} THEN "liquidation"
  ELSE IF LongHit(prices[t]) \cup ShortHit(prices[t]) # {} THEN "limitOrder"
  ELSE "completed"

\* crank_work: what to do next at price point t.
CrankWork(t) ==
  IF reset > 0 THEN "reset"
  ELSE IF Due(t) # {} THEN "liquifunding"
  ELSE IF closeAll /\ Open # {} THEN "closeAll"
  ELSE IF TriggeredDesc(prices[t]) \cup TriggeredAsc(prices[t]) # {} THEN "liquidation"
  ELSE IF DeferredReady(t) THEN "deferred"
  ELSE IF LongHit(prices[t]) \cup ShortHit(prices[t]) # {} THEN "limitOrder"
  ELSE "completed"

RegularWeight == 5
\* Mutant: completing a price point costs more than a batch of one.
CompletedWeightTooHigh == RegularWeight + 1
CompletedWeight == 1
Weight(work) == IF work = "completed" THEN CompletedWeight ELSE RegularWeight

\* CrankWorkInfo::receives_crank_rewards
Paying(work) == work \in {"liquifunding", "liquidation", "deferred", "limitOrder"}

------------------------------------------------------------------------------
Init ==
  /\ now = 1
  /\ prices = [t \in {} |-> 0]
  /\ lastCompleted = 0
  /\ execs = <<>>
  /\ processed = 0
  /\ pendingFor = {}
  /\ closing = {}
  /\ canceling = {}
  /\ positions = <<>>
  /\ orders = <<>>
  /\ closeAll = FALSE
  /\ reset = 0
  /\ phase = "idle"
  /\ replyOk = TRUE
  /\ progress = NoProgress
  /\ balance = InitPot
  /\ crankFees = 0
  /\ rewards = 0
  /\ pot = InitPot

------------------------------------------------------------------------------
(* Messages of traders: all of them are deferred.                          *)

\* ensure_not_resetting_lps, and a current price to charge the fee at.
\* Bounds: MaxExecs, and room for one more price point.
CanDefer ==
  /\ phase = "idle"
  /\ reset = 0
  /\ Published # {}
  /\ Len(execs) < MaxExecs
  /\ now < MaxTime

\* The crank fee grows by one surcharge per QueueStep queued items.
QueueSize == Len(execs) - processed
Fee == CrankFee + CrankSurcharge * (QueueSize \div QueueStep)

Item(t, kind, target, amount) ==
  [kind |-> kind, target |-> target, owner |-> t, created |-> now,
   amount |-> amount, status |-> "pending", at |-> 0]

Enqueue(t, kind, target, amount) ==
  /\ execs' = Append(execs, Item(t, kind, target, amount))
  /\ pendingFor' = IF target = NoTarget THEN pendingFor
                   ELSE pendingFor \cup {<<target, Len(execs) + 1>>}

\* OpenPosition, PlaceLimitOrder: the fee comes out of the deposit.
DeferNew(t, kind, a) ==
  /\ CanDefer
  /\ kind \in NewKinds
  /\ a > Fee
  /\ Enqueue(t, kind, NoTarget, a - Fee)
  /\ balance' = balance + a
  /\ crankFees' = crankFees + Fee
  /\ UNCHANGED <<processed, closing, canceling, rewards, pot>>
  /\ UNCHANGED <<bookVars, txVars, timeVars>>

OwnsPosition(t, p) == p \in Open /\ positions[p].owner = t

\* UpdatePositionAddCollateral*: the fee comes out of the added collateral.
DeferAdd(t, p, a) ==
  /\ CanDefer
  /\ OwnsPosition(t, p)
  /\ a > Fee
  /\ Enqueue(t, "add", <<"position", p>>, a - Fee)
  /\ balance' = balance + a
  /\ crankFees' = crankFees + Fee
  /\ UNCHANGED <<processed, closing, canceling, rewards, pot>>
  /\ UNCHANGED <<bookVars, txVars, timeVars>>

\* The other updates, and closing with a slippage assert: funds are attached
\* for the fee, and what is left is credited to the trader's rewards.
DeferUpdate(t, p, kind, a) ==
  /\ CanDefer
  /\ kind \in UpdateKinds
  /\ OwnsPosition(t, p)
  /\ a >= Fee
  /\ Enqueue(t, kind, <<"position", p>>, 0)
  /\ balance' = balance + a
  /\ crankFees' = crankFees + Fee
  /\ rewards' = rewards + (a - Fee)
  /\ UNCHANGED <<processed, closing, canceling, pot>>
  /\ UNCHANGED <<bookVars, txVars, timeVars>>

\* ClosePosition without a slippage assert is free, and queued once.
DeferClose(t, p) ==
  /\ CanDefer
  /\ OwnsPosition(t, p)
  /\ p \notin closing
  /\ closing' = closing \cup {p}
  /\ Enqueue(t, "close", <<"position", p>>, 0)
  /\ UNCHANGED <<processed, canceling>>
  /\ UNCHANGED <<bookVars, txVars, timeVars, moneyVars>>

\* CancelLimitOrder is free, and queued once.
DeferCancel(t, o) ==
  /\ CanDefer
  /\ o \in OpenOrders
  /\ orders[o].owner = t
  /\ o \notin canceling
  /\ canceling' = canceling \cup {o}
  /\ Enqueue(t, "cancel", <<"order", o>>, 0)
  /\ UNCHANGED <<processed, closing>>
  /\ UNCHANGED <<bookVars, txVars, timeVars, moneyVars>>

\* Mutant: transfers ignore what is queued.
NftTransferAnytime(p, to) ==
  /\ phase = "idle" /\ reset = 0 /\ p \in Open
  /\ positions' = [positions EXCEPT ![p].owner = to]
  /\ UNCHANGED <<orders, closeAll, reset>>
  /\ UNCHANGED <<queueVars, txVars, timeVars, moneyVars>>

\* NftProxy: a position changes hands only with nothing pending for it.
NftTransfer(p, to) ==
  /\ phase = "idle"
  /\ reset = 0
  /\ p \in Open
  /\ \A e \in pendingFor : e[1] # <<"position", p>>
  /\ positions' = [positions EXCEPT ![p].owner = to]
  /\ UNCHANGED <<orders, closeAll, reset>>
  /\ UNCHANGED <<queueVars, txVars, timeVars, moneyVars>>

\* CloseAllPositions: wind the market down; the flag is never cleared.
CloseAllPositions ==
  /\ phase = "idle"
  /\ reset = 0
  /\ closeAll' = TRUE
  /\ UNCHANGED <<positions, orders, reset>>
  /\ UNCHANGED <<queueVars, txVars, timeVars, moneyVars>>

------------------------------------------------------------------------------
(* Time, prices, and the start of a crank.                                 *)

\* Bound: MaxTime.
Tick ==
  /\ phase = "idle"
  /\ now < MaxTime
  /\ now' = now + 1
  /\ UNCHANGED <<prices, lastCompleted>>
  /\ UNCHANGED <<queueVars, bookVars, txVars, moneyVars>>

\* SetManualPrice: the publish time is the block time.
SetManualPrice(v) ==
  /\ phase = "idle"
  /\ SpotPriceAppend(now, v)
  /\ UNCHANGED <<now, lastCompleted>>
  /\ UNCHANGED <<queueVars, bookVars, txVars, moneyVars>>

\* Crank: append the oracle's price if it is newer, then start a batch.
Crank(n) ==
  /\ phase = "idle"
  /\ \/ Published # {} /\ UNCHANGED prices
     \/ \E u \in 1..now, v \in Prices : SpotPriceAppend(u, v)
  /\ phase' = "crank"
  /\ progress' = [requested |-> n, left |-> n * RegularWeight,
                  paying |-> 0, done |-> 0]
  /\ UNCHANGED <<now, lastCompleted, replyOk>>
  /\ UNCHANGED <<queueVars, bookVars, moneyVars>>

------------------------------------------------------------------------------
(* One iteration of crank_exec_batch.                                      *)

\* The loop has a price point, its work is `work', and the budget pays it.
DoWork(work) ==
  /\ phase = "crank"
  /\ Uncranked # {}
  /\ CrankWork(NextPrice) = work
  /\ progress.left >= Weight(work)
  /\ progress' = [requested |-> progress.requested,
                  left |-> progress.left - Weight(work),
                  paying |-> progress.paying + (IF Paying(work) THEN 1 ELSE 0),
                  done |-> progress.done + Weight(work)]

\* The market drained the liquidity pool: only without other positions.
MayReset(others) ==
  \/ reset' = reset
  \/ others = {} /\ reset' = LpCount + 1

\* ClosePositionExec: into the history, with its settlement time.
Closed(p, liquifundedAt, settled) ==
  [positions EXCEPT ![p] =
     [owner |-> @.owner, open |-> FALSE, liquifundedAt |-> liquifundedAt,
      next |-> 0, lo |-> 0, hi |-> 0, settled |-> settled]]

NewPosition(t, at, d, tp) ==
  [owner |-> t, open |-> TRUE, liquifundedAt |-> at, next |-> at + d,
   lo |-> tp[1], hi |-> tp[2], settled |-> 0]

\* PositionLiquifund to time e that leaves position p open: it differs from
\* a position opened at e by its owner only.
Liquifunded(p, e, d, tp) ==
  [positions EXCEPT ![p] = NewPosition(@.owner, e, d, tp)]

\* An order that is executed or cancelled leaves the book.
OffBook(o) == [orders EXCEPT ![o].open = FALSE]

\* Collateral leaves the contract for a trader's wallet.
PayFromPot(x, fee) ==
  /\ x \in Payouts
  /\ x + fee =< pot
  /\ pot' = pot - x - fee
  /\ crankFees' = crankFees + fee
  /\ balance' = balance - x
  /\ rewards' = rewards

CrankReset ==
  /\ DoWork("reset")
  /\ reset' = reset - 1
  /\ UNCHANGED <<positions, orders, closeAll, phase, replyOk>>
  /\ UNCHANGED <<queueVars, timeVars, moneyVars>>

\* Liquifunding up to the position's own next_liquifunding, which may be
\* older than the price point; settled with the price in force then.
CrankLiquifund ==
  /\ DoWork("liquifunding")
  /\ LET p == FirstDue(NextPrice)
         e == positions[p].next
         fee == Min({CrankFee, pot})
     IN \/ /\ \E d \in Delays, tp \in TriggerPairs :
                 positions' = Liquifunded(p, e, d, tp)
           /\ pot' = pot - fee
           /\ crankFees' = crankFees + fee
           /\ UNCHANGED <<reset, balance, rewards>>
        \/ /\ positions' = Closed(p, positions[p].liquifundedAt, SpotPriceTime(e))
           /\ \E x \in Payouts : PayFromPot(x, fee)
           /\ MayReset(Open \ {p})
  /\ UNCHANGED <<orders, closeAll, phase, replyOk>>
  /\ UNCHANGED <<queueVars, timeVars>>

CrankCloseAll ==
  /\ DoWork("closeAll")
  /\ LET p == Min(Open)
     IN /\ \E l \in {positions[p].liquifundedAt, NextPrice} :
             positions' = Closed(p, l, NextPrice)
        /\ MayReset(Open \ {p})
  /\ \E x \in Payouts : PayFromPot(x, 0)
  /\ UNCHANGED <<orders, closeAll, phase, replyOk>>
  /\ UNCHANGED <<queueVars, timeVars>>

\* One more liquifunding to the price point, then close.
CrankLiquidate ==
  /\ DoWork("liquidation")
  /\ LET p == Liquidatable(prices[NextPrice])
     IN /\ \E l \in {positions[p].liquifundedAt, NextPrice} :
             positions' = Closed(p, l, NextPrice)
        /\ MayReset(Open \ {p})
  /\ \E x \in Payouts : PayFromPot(x, Min({CrankFee, pot}))
  /\ UNCHANGED <<orders, closeAll, phase, replyOk>>
  /\ UNCHANGED <<queueVars, timeVars>>

\* Mutant: the closing mark outlives the attempt to close.
CrankDeferredKeepsMark ==
  /\ DoWork("deferred")
  /\ processed' = processed + 1
  /\ phase' = "perform"
  /\ UNCHANGED <<execs, pendingFor, closing, canceling, replyOk>>
  /\ UNCHANGED <<bookVars, timeVars, moneyVars>>

\* process_deferred_exec: send the submessage, move on, and let a closing
\* position be closed again should this attempt fail.
CrankDeferred ==
  /\ DoWork("deferred")
  /\ processed' = processed + 1
  /\ closing' = IF execs[processed + 1].kind = "close"
                THEN closing \ {execs[processed + 1].target[2]} ELSE closing
  /\ phase' = "perform"
  /\ UNCHANGED <<execs, pendingFor, canceling, replyOk>>
  /\ UNCHANGED <<bookVars, timeVars, moneyVars>>

\* limit_order_execute_order: open a position, or refund the collateral.
CrankLimitOrder ==
  /\ DoWork("limitOrder")
  /\ LET o == TriggeredOrder(prices[NextPrice])
     IN /\ orders' = OffBook(o)
        /\ \/ /\ \E d \in Delays, tp \in TriggerPairs :
                   positions' = Append(positions,
                                  NewPosition(orders[o].owner, NextPrice, d, tp))
              /\ pot' = pot + orders[o].amount
              /\ balance' = balance
           \/ /\ balance' = balance - orders[o].amount
              /\ UNCHANGED <<positions, pot>>
  /\ UNCHANGED <<closeAll, reset, phase, replyOk, crankFees, rewards>>
  /\ UNCHANGED <<queueVars, timeVars>>

CrankCompleted ==
  /\ DoWork("completed")
  /\ lastCompleted' = NextPrice
  /\ UNCHANGED <<now, prices, phase, replyOk>>
  /\ UNCHANGED <<queueVars, bookVars, moneyVars>>

\* Mutant: the reward is not capped by the fees collected.
CrankPaymentUncapped == CrankReward * progress.paying

\* allocate_crank_fees: the reward, as far as the collected fees go.
CrankPayment == Min({CrankReward * progress.paying, crankFees})

\* No price point left, or the budget is spent: the cranker is paid.
CrankFinish ==
  /\ phase = "crank"
  /\ Uncranked # {} => progress.left < Weight(CrankWork(NextPrice))
  /\ crankFees' = crankFees - CrankPayment
  /\ rewards' = rewards + CrankPayment
  /\ phase' = "idle"
  /\ progress' = NoProgress
  /\ UNCHANGED <<replyOk, balance, pot>>
  /\ UNCHANGED <<queueVars, bookVars, timeVars>>

------------------------------------------------------------------------------
(* PerformDeferredExec: the submessage.  On an error everything it did is  *)
(* rolled back, so a failing execution leaves the state unchanged.         *)

Cur == execs[processed]

\* The final status of the item in flight, with the price it is settled at.
SettledAs(status) ==
  [execs EXCEPT ![processed].status = status, ![processed].at = NextPrice]

Succeed(kinds) ==
  /\ phase = "perform"
  /\ reset = 0
  /\ Cur.kind \in kinds
  /\ execs' = SettledAs("success")
  /\ phase' = "reply"
  /\ replyOk' = TRUE
  /\ UNCHANGED <<processed, pendingFor, closing, canceling, progress>>
  /\ UNCHANGED timeVars

PerformOpen ==
  /\ Succeed({"open"})
  /\ \E d \in Delays, tp \in TriggerPairs :
       positions' = Append(positions, NewPosition(Cur.owner, NextPrice, d, tp))
  /\ pot' = pot + Cur.amount
  /\ UNCHANGED <<orders, closeAll, reset, balance, crankFees, rewards>>

\* Mutant: the order keeps the collateral its second crank fee was paid with.
PerformPlaceKeepsFee ==
  /\ Succeed({"place"})
  /\ Cur.amount > CrankFee
  /\ \E ot \in OrderTriggers :
       orders' = Append(orders, [owner |-> Cur.owner, open |-> TRUE, dir |-> ot[1],
                                 trigger |-> ot[2], amount |-> Cur.amount])
  /\ crankFees' = crankFees + CrankFee
  /\ UNCHANGED <<positions, closeAll, reset, balance, rewards, pot>>

\* PlaceLimitOrder charges a second crank fee, for the order's execution.
PerformPlace ==
  /\ Succeed({"place"})
  /\ Cur.amount > CrankFee
  /\ \E ot \in OrderTriggers :
       orders' = Append(orders, [owner |-> Cur.owner, open |-> TRUE, dir |-> ot[1],
                                 trigger |-> ot[2], amount |-> Cur.amount - CrankFee])
  /\ crankFees' = crankFees + CrankFee
  /\ UNCHANGED <<positions, closeAll, reset, balance, rewards, pot>>

\* Mutant: an update of a position closed since it was queued is applied.
PerformUpdateOfClosed ==
  /\ Succeed({"add", "update"})
  /\ \E d \in Delays, tp \in TriggerPairs :
       positions' = Liquifunded(Cur.target[2], NextPrice, d, tp)
  /\ IF Cur.kind = "add"
     THEN /\ pot' = pot + Cur.amount
          /\ UNCHANGED <<balance, crankFees, rewards>>
     ELSE \E x \in Payouts : PayFromPot(x, 0)
  /\ UNCHANGED <<orders, closeAll, reset>>

\* Updates liquifund the position up to the price point first.
PerformUpdate ==
  /\ Succeed({"add", "update"})
  /\ Cur.target[2] \in Open
  /\ \E d \in Delays, tp \in TriggerPairs :
       positions' = Liquifunded(Cur.target[2], NextPrice, d, tp)
  /\ IF Cur.kind = "add"
     THEN /\ pot' = pot + Cur.amount
          /\ UNCHANGED <<balance, crankFees, rewards>>
     ELSE \E x \in Payouts : PayFromPot(x, 0)
  /\ UNCHANGED <<orders, closeAll, reset>>

PerformClose ==
  /\ Succeed({"close", "closeSlippage"})
  /\ Cur.target[2] \in Open
  /\ \E l \in {positions[Cur.target[2]].liquifundedAt, NextPrice} :
       positions' = Closed(Cur.target[2], l, NextPrice)
  /\ \E x \in Payouts : PayFromPot(x, 0)
  /\ MayReset(Open \ {Cur.target[2]})
  /\ UNCHANGED <<orders, closeAll>>

PerformCancel ==
  /\ Succeed({"cancel"})
  /\ Cur.target[2] \in OpenOrders
  /\ orders' = OffBook(Cur.target[2])
  /\ balance' = balance - orders[Cur.target[2]].amount
  /\ UNCHANGED <<positions, closeAll, reset, crankFees, rewards, pot>>

\* Any validation may fail, but for an open order's cancellation.
PerformFail ==
  /\ phase = "perform"
  /\ ~(reset = 0 /\ Cur.kind = "cancel" /\ Cur.target[2] \in OpenOrders)
  /\ phase' = "reply"
  /\ replyOk' = FALSE
  /\ UNCHANGED progress
  /\ UNCHANGED <<queueVars, bookVars, timeVars, moneyVars>>

\* Mutants: a failed item is not recorded; it is not refunded.
SettleReplyUnrecorded ==
  IF replyOk
  THEN Cur.status = "success" /\ UNCHANGED <<execs, balance>>
  ELSE /\ Cur.status = "pending"
       /\ execs' = execs
       /\ balance' = balance - Cur.amount
SettleReplyNoRefund ==
  IF replyOk
  THEN Cur.status = "success" /\ UNCHANGED <<execs, balance>>
  ELSE /\ Cur.status = "pending"
       /\ execs' = SettledAs("failure")
       /\ balance' = balance

\* A success is left as it is; a failure is recorded, and its deposit
\* refunded.
SettleReply ==
  IF replyOk
  THEN Cur.status = "success" /\ UNCHANGED <<execs, balance>>
  ELSE /\ Cur.status = "pending"
       /\ execs' = SettledAs("failure")
       /\ balance' = balance - Cur.amount

\* Mutant: only a success leaves the index.
DropPendingOnSuccess ==
  pendingFor' = IF replyOk THEN pendingFor \ {<<Cur.target, processed>>}
                ELSE pendingFor

\* The index entry must be there, and is removed.
DropPending ==
  /\ Cur.target # NoTarget => <<Cur.target, processed>> \in pendingFor
  /\ pendingFor' = pendingFor \ {<<Cur.target, processed>>}

\* Mutant: the budget saved for the resumed batch is the one before the item.
ReplyStaleBudget ==
  /\ phase = "reply"
  /\ SettleReply
  /\ DropPending
  /\ phase' = "crank"
  /\ progress' = [progress EXCEPT !.left = @ + RegularWeight]
  /\ UNCHANGED <<processed, closing, canceling, replyOk, crankFees, rewards, pot>>
  /\ UNCHANGED <<bookVars, timeVars>>

\* handle_deferred_exec_reply, then crank_exec_batch resumes.
Reply ==
  /\ phase = "reply"
  /\ SettleReply
  /\ DropPending
  /\ phase' = "crank"
  /\ UNCHANGED <<processed, closing, canceling, replyOk, progress>>
  /\ UNCHANGED <<crankFees, rewards, pot>>
  /\ UNCHANGED <<bookVars, timeVars>>

------------------------------------------------------------------------------
TraderMsg ==
  \E t \in Traders :
    \/ \E k \in NewKinds, a \in Amounts : DeferNew(t, k, a)
    \/ \E p \in Open :
         \/ \E a \in Amounts : DeferAdd(t, p, a)
         \/ \E k \in UpdateKinds, a \in Amounts : DeferUpdate(t, p, k, a)
         \/ DeferClose(t, p)
         \/ NftTransfer(p, t)
    \/ \E o \in OpenOrders : DeferCancel(t, o)

TxStep ==
  \/ CrankReset
  \/ CrankLiquifund
  \/ CrankCloseAll
  \/ CrankLiquidate
  \/ CrankDeferred
  \/ CrankLimitOrder
  \/ CrankCompleted
  \/ CrankFinish
  \/ PerformOpen
  \/ PerformPlace
  \/ PerformUpdate
  \/ PerformClose
  \/ PerformCancel
  \/ PerformFail
  \/ Reply

Next ==
  \/ TraderMsg
  \/ CloseAllPositions
  \/ Tick
  \/ \E v \in Prices : SetManualPrice(v)
  \/ \E n \in CrankExecs : Crank(n)
  \/ TxStep

Spec == Init /\ [][Next]_vars

(* Fairness.  Between transactions the chain keeps producing blocks, the   *)
(* oracle keeps publishing, and some wallet keeps cranking with a non-zero *)
(* budget.  The engine splits a transaction, which is atomic on chain,     *)
(* into steps, so these actions are disabled inside every transaction:     *)
(* strong fairness here is weak fairness at the grain of transactions.     *)
Fairness ==
  /\ WF_vars(TxStep)
  /\ SF_vars(Tick)
  /\ SF_vars(\E v \in Prices : SetManualPrice(v))
  /\ SF_vars(\E n \in CrankExecs \ {0} : Crank(n))

FairSpec == Spec /\ Fairness

------------------------------------------------------------------------------
(* Properties.                                                             *)

\* The type of every storage item of the engine.
TypeOK ==
  /\ now \in Nat \ {0}
  /\ Published \subseteq Nat \ {0} /\ prices \in [Published -> Prices]
  /\ lastCompleted \in Nat
  /\ execs \in Seq(Exec)
  /\ processed \in 0..Len(execs)
  /\ pendingFor \subseteq Target \X (Nat \ {0})
  /\ closing \subseteq Nat \ {0}
  /\ canceling \subseteq Nat \ {0}
  /\ positions \in Seq(Position)
  /\ orders \in Seq(LimitOrder)
  /\ closeAll \in BOOLEAN
  /\ reset \in 0..(LpCount + 1)
  /\ phase \in Phases
  /\ replyOk \in BOOLEAN
  /\ progress \in [requested : Nat, left : Nat, paying : Nat, done : Nat]
  /\ balance \in Int
  /\ crankFees \in Nat
  /\ rewards \in Nat
  /\ pot \in Nat

\* The item whose submessage or reply is being handled.
InFlight == {i \in {processed} : phase \in {"perform", "reply"}}
Unsettled == InFlight \cup ((processed + 1)..Len(execs))

\* Items are settled first in, first out: exactly the items behind
\* `processed' are settled, the item in flight has the status its reply
\* expects (so handle_deferred_exec_reply never bails out and blocks the
\* crank), and the pending items are a suffix, as deferred_exec_deposit_balance
\* assumes when it stops at the first settled one.
SettledInOrder ==
  /\ \A i \in 1..Len(execs) :
       i \notin InFlight => (execs[i].status = "pending" <=> i > processed)
  /\ phase \in {"perform", "reply"} =>
       Cur.status = IF phase = "reply" /\ replyOk THEN "success" ELSE "pending"

\* PENDING_DEFERRED_FOR_POSITION/_ORDER hold exactly the unsettled items
\* that have a target, through queueing, failure, refund and reply.
PendingIndexExact ==
  pendingFor = {<<execs[i].target, i>> :
                  i \in {j \in Unsettled : execs[j].target # NoTarget}}

\* "We used to assert position owner here, but that's now handled when
\* queueing": an item that will run on an open position or order was queued
\* by the wallet that owns it when it runs, although NFTs can be
\* transferred while items wait.
OwnerWhenExecuted ==
  \A i \in Unsettled :
    /\ execs[i].target[1] = "position" =>
         /\ execs[i].target[2] \in 1..Len(positions)
         /\ positions[execs[i].target[2]].owner = execs[i].owner
    /\ execs[i].target[1] = "order" =>
         /\ execs[i].target[2] \in 1..Len(orders)
         /\ orders[execs[i].target[2]].owner = execs[i].owner

\* Nobody trades on a price known when the item was queued, and the crank
\* gives nobody a later price than the first eligible one: an item is
\* settled at the first price point published strictly after its creation.
FirstLaterPrice ==
  \A i \in 1..Len(execs) :
    execs[i].status # "pending" =>
      /\ execs[i].at \in Published
      /\ execs[i].at > execs[i].created
      /\ \A u \in Published : u > execs[i].created => u >= execs[i].at

\* The anti-spam marks: a position is marked as closing iff exactly one
\* free close is queued for it, so the mark never outlives a failed close
\* (the position could never be closed again) nor goes missing; and an
\* order is cancelled by at most one item.
FreeItemsQueuedOnce ==
  /\ closing = {execs[i].target[2] :
                  i \in {j \in (processed + 1)..Len(execs) : execs[j].kind = "close"}}
  /\ \A i, j \in (processed + 1)..Len(execs) :
       execs[i].kind = "close" /\ execs[j].kind = "close"
         /\ execs[i].target = execs[j].target => i = j
  /\ \A i, j \in 1..Len(execs) :
       execs[i].kind = "cancel" /\ execs[j].kind = "cancel"
         /\ execs[i].target = execs[j].target => i = j

\* Liquifunding comes first: no price point is completed, and no deferred
\* item runs, while an open position is due for liquifunding at that price
\* (the debug assertions `next_liquifunding >= price_point.timestamp').
LiquifundedInTime ==
  /\ \A p \in Open : positions[p].next > lastCompleted
  /\ phase = "perform" => \A p \in Open : positions[p].next > NextPrice

\* Nobody escapes a liquidation by a queued message: when a deferred item
\* runs, no open position is triggered by the price it runs at, and no
\* reset of the liquidity pool is under way that would make it fail.
NoItemBeforeLiquidation ==
  phase = "perform" =>
    /\ reset = 0
    /\ Uncranked # {}
    /\ TriggeredDesc(prices[NextPrice]) \cup TriggeredAsc(prices[NextPrice]) = {}

\* What a set of items or orders holds.
Owed(q, S) == MapThenSumSet(LAMBDA i : q[i].amount, S)

PendingItems == {i \in 1..Len(execs) : execs[i].status = "pending"}

\* sanity.rs, token_balance: every token the contract holds belongs to
\* exactly one of: waiting items, open orders, fees, rewards, the market.
TokenBalance ==
  balance = pot + crankFees + rewards
          + Owed(execs, PendingItems) + Owed(orders, OpenOrders)

\* A batch interrupted by submessages does, over all its resumptions, no
\* more than the requested number of work items.
BatchWithinBudget ==
  phase # "idle" =>
    /\ progress.done + progress.left = RegularWeight * progress.requested
    /\ progress.paying =< progress.requested

\* What is settled stays settled: a settled item and a closed position
\* (a paid-out one) never change again, whatever is still queued for them.
SettledIsFinal ==
  [][/\ \A i \in 1..Len(execs) :
          execs[i].status # "pending" => execs'[i] = execs[i]
     /\ \A p \in 1..Len(positions) :
          ~positions[p].open => positions'[p] = positions[p]]_vars

\* Every queued item is eventually executed or refunded.
EveryItemSettles ==
  \A i \in 1..MaxExecs :
    i =< Len(execs) ~> (i =< processed /\ i \notin InFlight)

\* The crank catches up with the published prices again and again.
CrankCatchesUp == []<>(Uncranked = {} /\ phase = "idle")

\* The engine implements the trader's view of the queue.  What the contract
\* holds for the market, fees, rewards and open orders is not escrow.
Escrow == balance - pot - crankFees - rewards - Owed(orders, OpenOrders)

Queue == INSTANCE DeferredQueue WITH
  Deposits <- 0..Max(Amounts \cup {0}),
  reqs <- [i \in 1..Len(execs) |-> [deposit |-> execs[i].amount,
                                    status |-> execs[i].status]],
  escrow <- Escrow

\* Every transaction step is a step of the abstract queue, or none: items
\* are settled one at a time and in order, and a deposit leaves escrow in
\* the very step that settles its item - into the market or to its owner.
ImplementsQueue == Queue!Spec

\* The assertion of ClosePositionExec::new on a position closed by its own
\* liquifunding: `pos.liquifunded_at <= settlement_price.timestamp'.
SettledAfterLiquifunding ==
  \A p \in 1..Len(positions) :
    ~positions[p].open => positions[p].liquifundedAt =< positions[p].settled
==============================================================================

------------------------------ MODULE Slippage ------------------------------
(***************************************************************************)
(* Slippage assertions.  A trader queues an open, an update or a close with  *)
(* an expected price and a tolerance; when the item is executed, at a later  *)
(* price and a later net open interest, the price of the trade, with its     *)
(* delta neutrality fee, must be within the tolerance or the item fails.     *)
(* The size of an update depends on the active collateral, which the         *)
(* settlement (liquifunding) before the update changes.                      *)
(*                                                                         *)
(* Collateral is the quote asset.  Fees are in units of 1 / (2 *            *)
(* Sensitivity) of the collateral, tolerances in percent; the fund is taken  *)
(* to be full, so that a trade towards balance is paid its whole fee.        *)
(* Trading fees, funding and the validation of leverage are not here.        *)
(***************************************************************************)
EXTENDS Integers

CONSTANTS
  Prices,       \* prices of price points
  Others,       \* net notional of all other positions
  Sensitivity,  \* delta_neutrality_fee_sensitivity
  NotionalCap,  \* delta_neutrality_fee_cap * sensitivity
  Room,         \* how far a position's price may move
  Kinds,        \* the items that are queued: "open", "size", "leverage", "close"
  Deposits,     \* collateral of an open
  Amounts,      \* collateral added to or taken from a position
  Leverages,
  Tolerances,   \* in percent
  MaxItems      \* bound: items queued in a behaviour

ConstantsOK ==
  /\ Prices \subseteq Nat \ {0} /\ Others \subseteq Int /\ {Sensitivity, NotionalCap, Room, MaxItems} \subseteq Nat \ {0}
  /\ Kinds \subseteq {"open", "size", "leverage", "close"}
  /\ Deposits \subseteq Nat \ {0} /\ Amounts \subseteq Nat \ {0}
  /\ Leverages \subseteq Nat \ {0} /\ Tolerances \subseteq 0..100

VARIABLES
  price,   \* the current price point
  others,  \* net open interest without the position
  pos,     \* the position: notional size, active collateral, price and margin it was saved with
  item,    \* the queued item
  queued,  \* how many items were queued
  trade    \* the last item executed: what was expected and what it came to

vars == <<price, others, pos, item, queued, trade>>

NoPosition == [size |-> 0, active |-> 0, at |-> 0, margin |-> 0]
NoItem == [kind |-> "none"]
NoTrade == [kind |-> "none"]
HasPosition == pos.size # 0

Abs(x) == IF x < 0 THEN -x ELSE x
Least(a, b) == IF a < b THEN a ELSE b
Most(a, b) == IF a > b THEN a ELSE b
\* Division towards zero.
Quot(a, b) == IF a < 0 THEN -((-a) \div b) ELSE a \div b

Init ==
  /\ price \in Prices /\ others \in Others
  /\ pos = NoPosition /\ item = NoItem /\ queued = 0 /\ trade = NoTrade

(* The fee of a change of the net open interest, and what it makes of the    *)
(* price.                                                                    *)

FeeAmount(net, delta) ==
  LET low == Least(net + delta, -NotionalCap) - Least(net, -NotionalCap)
      high == Most(net + delta, NotionalCap) - Most(net, NotionalCap)
      uncapped == delta - low - high
      inside == Most(-NotionalCap, Least(net, NotionalCap))
  IN 2 * NotionalCap * (high - low) + uncapped * uncapped + 2 * uncapped * inside

Net == others + pos.size

\* A fee to the fund stops at the margin of a position.
Fee(delta, margin, capped) ==
  LET fee == price * FeeAmount(Net, delta) IN IF capped THEN Least(fee, margin) ELSE fee

\* do_slippage_assert: the fee rate is the fee, in collateral, by the change
\* of the size, in notional.
WithinTolerance(delta, fee, expected, tolerance) ==
  \/ delta = 0
  \/ /\ delta > 0
     /\ 100 * price * (2 * Sensitivity * delta + fee) <= expected * (100 + tolerance) * 2 * Sensitivity * delta
  \/ /\ delta < 0
     /\ 100 * price * (2 * Sensitivity * Abs(delta) - fee) >= expected * (100 - tolerance) * 2 * Sensitivity * Abs(delta)

----------------------------------------------------------------------------
NewPrice(p) == p # price /\ price' = p /\ UNCHANGED <<others, pos, item, queued, trade>>

OthersTrade(o) == o # others /\ others' = o /\ UNCHANGED <<price, pos, item, queued, trade>>

Queue(new) ==
  /\ item = NoItem /\ new.kind \in Kinds \union {"open"}
  /\ (new.kind = "open") = ~HasPosition
  /\ queued < MaxItems /\ queued' = queued + 1
  /\ item' = new /\ trade' = NoTrade /\ UNCHANGED <<price, others, pos>>

Saved(size, active) ==
  [size |-> size, active |-> active, at |-> price, margin |-> 2 * NotionalCap * Abs(size) * (price + Room)]

\* position_liquifund_store: profit and loss are settled, and the margin is
\* renewed; a position out of its range is closed instead.
Settled == Saved(pos.size, pos.active + pos.size * (price - pos.at))
Settles == Abs(price - pos.at) < Room /\ Settled.active > 0

\* The end of an item: a trade at the current price, or a refusal.  The change
\* of the size that was asserted is kept beside the one that was made.
Executed(delta, fee, asserted, assertedFee, saved) ==
  LET checked == WithinTolerance(asserted, assertedFee, item.expected, item.tolerance) IN
  /\ trade' = [kind |-> item.kind, delta |-> delta, fee |-> fee, price |-> price,
               asserted |-> asserted, expected |-> item.expected,
               tolerance |-> item.tolerance, refused |-> ~checked]
  /\ pos' = IF checked THEN saved ELSE pos
  /\ item' = NoItem /\ UNCHANGED <<price, others, queued>>

Charged(active, fee) == active - Quot(fee, 2 * Sensitivity)

OpenPosition ==
  /\ item.kind = "open"
  /\ LET delta == Quot(item.leverage * item.amount, price)
         fee == Fee(delta, 0, FALSE)
     IN /\ delta # 0 /\ Charged(Abs(item.amount), fee) > 0
        /\ Executed(delta, fee, delta, fee, Saved(delta, Charged(Abs(item.amount), fee)))

\* The change of the size that comes with a change of the collateral.
SizeDelta(p, amount) == Quot(p.size * (p.active + amount), p.active) - p.size

\* Add or remove collateral, impact size: the assertion is about the position
\* before it is settled, the update is made to the settled one.
UpdatePositionSize ==
  /\ item.kind = "size" /\ Settles
  /\ pos.active + item.amount > 0 /\ Settled.active + item.amount > 0
  /\ LET asserted == SizeDelta(pos, item.amount)
         delta == SizeDelta(Settled, item.amount)
         fee == Fee(delta, Settled.margin, TRUE)
     IN /\ pos.size + delta # 0 /\ Charged(Settled.active + item.amount, fee) > 0
        /\ Executed(delta, fee, asserted, Fee(asserted, pos.margin, TRUE),
                    Saved(pos.size + delta, Charged(Settled.active + item.amount, fee)))

\* Mutant: the assertion is made before the position is settled.
UpdatePositionLeverageEarly ==
  /\ item.kind = "leverage" /\ Settles
  /\ LET sign == IF pos.size > 0 THEN 1 ELSE -1
         size(active) == sign * ((item.leverage * active) \div price)
         delta == size(Settled.active) - pos.size
         early == size(pos.active) - pos.size
         fee == Fee(delta, Settled.margin, TRUE)
     IN /\ size(Settled.active) # 0 /\ Charged(Settled.active, fee) > 0
        /\ Executed(delta, fee, early, Fee(early, pos.margin, TRUE),
                    Saved(size(Settled.active), Charged(Settled.active, fee)))

\* The position is settled first, then the size follows from the leverage.
UpdatePositionLeverage ==
  /\ item.kind = "leverage" /\ Settles
  /\ LET size == (IF pos.size > 0 THEN 1 ELSE -1) * ((item.leverage * Settled.active) \div price)
         delta == size - pos.size
         fee == Fee(delta, Settled.margin, TRUE)
     IN /\ size # 0 /\ Charged(Settled.active, fee) > 0
        /\ Executed(delta, fee, delta, fee, Saved(size, Charged(Settled.active, fee)))

\* The whole size is given back; the fee is charged after the settlement.
ClosePosition ==
  /\ item.kind = "close" /\ Settles
  /\ LET fee == Fee(-pos.size, Settled.margin, TRUE)
     IN Executed(-pos.size, fee, -pos.size, Fee(-pos.size, pos.margin, TRUE), NoPosition)

\* Whatever else makes an item fail.
ItemFails ==
  /\ item # NoItem /\ item' = NoItem /\ trade' = NoTrade /\ UNCHANGED <<price, others, pos, queued>>

\* The crank liquidates a position whose price left its range.
Liquidate ==
  /\ HasPosition /\ ~Settles
  /\ pos' = NoPosition /\ item' = NoItem /\ trade' = NoTrade /\ UNCHANGED <<price, others, queued>>

Items ==
  [kind : {"open"}, amount : Deposits \union {-d : d \in Deposits}, leverage : Leverages, expected : {price}, tolerance : Tolerances]
  \union [kind : {"size"}, amount : Amounts \union {-a : a \in Amounts}, leverage : {0}, expected : {price}, tolerance : Tolerances]
  \union [kind : {"leverage"}, amount : {0}, leverage : Leverages, expected : {price}, tolerance : Tolerances]
  \union [kind : {"close"}, amount : {0}, leverage : {0}, expected : {price}, tolerance : Tolerances]

Next ==
  \/ \E p \in Prices : NewPrice(p)
  \/ \E o \in Others : OthersTrade(o)
  \/ \E new \in Items : Queue(new)
  \/ OpenPosition \/ UpdatePositionSize \/ UpdatePositionLeverage \/ ClosePosition
  \/ ItemFails \/ Liquidate

Spec == Init /\ [][Next]_vars

----------------------------------------------------------------------------
\* The price a trade came to, as SlippageAssert documents it: the fee rate is
\* in the collateral asset.
Beyond(t) == LET d == 2 * Sensitivity * Abs(t.delta) IN
  IF t.delta > 0 THEN 100 * (t.price * d + t.fee) > t.expected * (100 + t.tolerance) * d
  ELSE 100 * (t.price * d - t.fee) < t.expected * (100 - t.tolerance) * d

Traded == trade.kind # "none" /\ trade.delta # 0

\* The price of the trade that was made, by the rule of the assertion, with some
\* latitude in the fee.
Asserted(t, latitude) == LET d == 2 * Sensitivity * Abs(t.delta) IN
  IF t.delta > 0
  THEN 100 * t.price * (d + t.fee - latitude) <= t.expected * (100 + t.tolerance) * d
  ELSE 100 * t.price * (d - t.fee + latitude) >= t.expected * (100 - t.tolerance) * d

\* The fee rate of a change of the size grows with the change: what it differs
\* by between the asserted change and the one that was made.
Latitude(t) == t.price * Abs(t.delta - t.asserted) * Abs(t.delta)

\* Whatever the price, the other positions and the settlement did since the
\* item was queued: a trade is executed exactly when its own change of size
\* and its own fee pass the assertion.  A change of collateral that impacts
\* the size is asserted with the change computed before the settlement
\* (deferred_exec.rs:152): it is executed, or refused, within a latitude of the
\* fee on the part of the size that the settlement changed, and no further.
\* When that change is rounded to zero there is no assertion (validate.rs:126).
TradeAsAsserted ==
  Traded /\ trade.asserted # 0 =>
    IF trade.refused THEN ~Asserted(trade, -Latitude(trade))
    ELSE Asserted(trade, Latitude(trade))

\* The same of every trade, without a latitude.
EveryTradeAsAsserted == Traded /\ ~trade.refused => Asserted(trade, 0)

\* No trade is executed beyond the tolerance on its documented price.
DocumentedTolerance == Traded /\ ~trade.refused => ~Beyond(trade)
=============================================================================

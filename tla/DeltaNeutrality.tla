---------------------------- MODULE DeltaNeutrality ----------------------------
(***************************************************************************)
(* The delta neutrality fee.  Whoever moves the net open interest away     *)
(* from zero pays into a fund, whoever moves it back is paid from it: the  *)
(* fee is the area below a line that is cut off at a cap.  A fee that      *)
(* crosses zero is computed in two passes.  Payments to traders are scaled *)
(* down when the fund is short, payments of an existing position stop at   *)
(* its margin, and the protocol taxes what goes into the fund.             *)
(*                                                                         *)
(* Amounts are in units of 1 / (2 * sensitivity) of the collateral, so     *)
(* that with NotionalCap = cap * sensitivity no fee is rounded; the price  *)
(* is collateral per notional.  What a trader's own collateral allows is   *)
(* left to PositionLife.                                                   *)
(***************************************************************************)
EXTENDS Integers, FiniteSets, FiniteSetsExt

CONSTANTS
  Ids,              \* positions
  Sizes,            \* notional a position may have; shorts have negative ones
  NotionalCap,      \* delta_neutrality_fee_cap * delta_neutrality_fee_sensitivity
  Tax, TaxUnit,     \* delta_neutrality_fee_tax = Tax / TaxUnit
  Prices,           \* prices of price points
  Room,             \* collateral per notional: how far a position's price may move
  MaxFund, MaxShortfall     \* bounds: the fund, and fees that exceeded margins

ConstantsOK ==
  /\ Sizes \subseteq Int \ {0} /\ NotionalCap \in Nat \ {0}
  /\ TaxUnit \in Nat \ {0} /\ Tax \in 0 .. TaxUnit
  /\ Prices \subseteq Nat \ {0} /\ Room \in Nat \ {0}
  /\ MaxFund \in Nat /\ MaxShortfall \in Nat

VARIABLES
  price,            \* the price of the current price point
  pos,              \* OPEN_POSITIONS: notional, its margin, the price it goes up to
  long, short,      \* OPEN_NOTIONAL_LONG_INTEREST, OPEN_NOTIONAL_SHORT_INTEREST
  fund,             \* DELTA_NEUTRALITY_FUND
  shortfall         \* fees that exceeded a margin (events; for properties)

vars == <<price, pos, long, short, fund, shortfall>>

None == [size |-> 0, margin |-> 0, limit |-> 0]
Open == {p \in Ids : pos[p] # None}
Net == long - short

Least(a, b) == IF a < b THEN a ELSE b
Most(a, b) == IF a > b THEN a ELSE b
Abs(x) == IF x < 0 THEN -x ELSE x

------------------------------------------------------------------------------
(* The fee.                                                                *)

\* calculate_delta_neutrality_fee_amount
FeeAmount(net, delta) ==
  LET low == Least(net + delta, -NotionalCap) - Least(net, -NotionalCap)
      high == Most(net + delta, NotionalCap) - Most(net, NotionalCap)
      uncapped == delta - low - high
      inside == Most(-NotionalCap, Least(net, NotionalCap))
  IN 2 * NotionalCap * (high - low) + uncapped * uncapped + 2 * uncapped * inside

\* Mutant: what the fund pays is not scaled down.
PayoutFull(amount, net, inFund) == amount

\* What the fund pays for amount: the share of the fund that amount is of a full balance.
Payout(amount, net, inFund) ==
  LET balance == price * FeeAmount(0, net)
  IN IF inFund >= balance THEN Least(amount, inFund)
     ELSE Least((amount * inFund) \div balance, inFund)

\* update_inner: acc holds the fees so far, the net notional and what exceeded the margin.
Pass(acc, delta, inFund, cap) ==
  LET amount == price * FeeAmount(acc.net, delta)
      fee == IF amount < 0 THEN -Payout(-amount, acc.net, inFund + acc.fees)
             ELSE Least(amount, cap)
  IN [fees |-> acc.fees + fee, net |-> acc.net + delta,
      missing |-> acc.missing + Most(amount - fee, 0) * (IF amount > 0 THEN 1 ELSE 0)]

\* Mutant: the second pass does not take off what the first one did.
RunTwice(delta, cap) ==
  LET start == [fees |-> 0, net |-> Net, missing |-> 0]
  IN IF Net * (Net + delta) < 0
     THEN Pass(Pass(start, -Net, fund, cap), delta, fund, cap)
     ELSE Pass(start, delta, fund, cap)

\* DeltaNeutralityFeeMultiPass::run
Run(delta, cap) ==
  LET start == [fees |-> 0, net |-> Net, missing |-> 0]
  IN IF Net * (Net + delta) < 0
     THEN Pass(Pass(start, -Net, fund, cap), delta + Net, fund, cap)
     ELSE Pass(start, delta, fund, cap)

\* charge_delta_neutrality_fee and ChargeDeltaNeutralityFeeResult::apply
Charge(delta, cap) ==
  LET run == Run(delta, cap)
      tax == IF run.fees > 0 THEN (run.fees * Tax) \div TaxUnit ELSE 0
  IN /\ fund' = fund + run.fees - tax
     /\ shortfall' = shortfall + run.missing
     /\ fund' <= MaxFund /\ shortfall' <= MaxShortfall

\* The fees of an open are not capped.
Uncapped == 2 * NotionalCap * price * (2 * Cardinality(Ids) + 1) * Max({Abs(s) : s \in Sizes})

------------------------------------------------------------------------------
(* The net open interest.                                                  *)

CappedLow(net) == net <= -NotionalCap
CappedHigh(net) == net >= NotionalCap

\* Mutant: only the direction counts once the market is beyond a cap.
MayAdjustAcross(delta) ==
  /\ CappedLow(Net) => delta >= 0
  /\ CappedHigh(Net) => delta < 0
  /\ ~CappedLow(Net) /\ ~CappedHigh(Net) => ~CappedLow(Net + delta) /\ ~CappedHigh(Net + delta)

\* AdjustOpenInterest::new: no further beyond a cap, and not from one to the other.
MayAdjust(delta) ==
  /\ CappedLow(Net) => delta >= 0 /\ ~CappedHigh(Net + delta)
  /\ CappedHigh(Net) => delta < 0 /\ ~CappedLow(Net + delta)
  /\ ~CappedLow(Net) /\ ~CappedHigh(Net) => ~CappedLow(Net + delta) /\ ~CappedHigh(Net + delta)

\* Mutant: the side is the change's.
AdjustByDelta(size, delta) ==
  /\ long' = IF delta > 0 THEN long + delta ELSE long
  /\ short' = IF delta > 0 THEN short ELSE short - delta

\* AdjustOpenInterest::apply: the side is the position's, not the change's.
Adjust(size, delta) ==
  /\ long' = IF size > 0 THEN long + delta ELSE long
  /\ short' = IF size > 0 THEN short ELSE short - delta

------------------------------------------------------------------------------
(* Positions.                                                              *)

\* Mutant: the margin of a fee at today's price.
SavedFlat(size) ==
  [size |-> size, margin |-> 2 * NotionalCap * Abs(size) * price, limit |-> price + Room]

\* liquidation_margin: the fee at the highest price the position can see.
Saved(size) ==
  [size |-> size, margin |-> 2 * NotionalCap * Abs(size) * (price + Room),
   limit |-> price + Room]

\* A position whose price is out of its range is closed when it is settled.
Settles(p) == price < pos[p].limit

OpenPosition(p, size) ==
  /\ pos[p] = None
  /\ MayAdjust(size)
  /\ Charge(size, Uncapped)
  /\ Adjust(size, size)
  /\ pos' = [pos EXCEPT ![p] = Saved(size)]
  /\ UNCHANGED price

\* Size and leverage: the fee is capped by the margin of the position as it was.
UpdatePosition(p, size) ==
  /\ p \in Open /\ Settles(p)
  /\ (size > 0) = (pos[p].size > 0) /\ size # pos[p].size
  /\ MayAdjust(size - pos[p].size)
  /\ Charge(size - pos[p].size, Saved(pos[p].size).margin)
  /\ Adjust(size, size - pos[p].size)
  /\ pos' = [pos EXCEPT ![p] = Saved(size)]
  /\ UNCHANGED price

\* Liquifunding renews the margin at the price of now.
Liquifund(p) ==
  /\ p \in Open /\ Settles(p) /\ pos[p] # Saved(pos[p].size)
  /\ pos' = [pos EXCEPT ![p] = Saved(@.size)]
  /\ UNCHANGED <<price, long, short, fund, shortfall>>

Leave(p, cap) ==
  /\ p \in Open
  /\ Charge(-pos[p].size, cap)
  /\ Adjust(pos[p].size, -pos[p].size)
  /\ pos' = [pos EXCEPT ![p] = None]
  /\ UNCHANGED price

\* By message: settled first.
ClosePosition(p) == Settles(p) /\ Leave(p, Saved(pos[p].size).margin)

\* Its price is out of range, or within but too little remains after fees: the margin is
\* the one that was saved.
LiquidatePosition(p) == Leave(p, pos[p].margin)

NewPrice(p) ==
  /\ p # price
  /\ price' = p
  /\ UNCHANGED <<pos, long, short, fund, shortfall>>

Init ==
  /\ price \in Prices
  /\ pos = [p \in Ids |-> None]
  /\ long = 0 /\ short = 0 /\ fund = 0 /\ shortfall = 0

Next ==
  \/ \E p \in Ids :
       \/ \E size \in Sizes : OpenPosition(p, size) \/ UpdatePosition(p, size)
       \/ Liquifund(p)
       \/ ClosePosition(p) \/ LiquidatePosition(p)
  \/ \E p \in Prices : NewPrice(p)

Spec == Init /\ [][Next]_vars

------------------------------------------------------------------------------
(* Properties.                                                             *)

\* The fund is never overdrawn: its type is unsigned, and its debug assertions say so.
TypeOK ==
  /\ price \in Prices
  /\ \A p \in Open : pos[p].size \in Sizes
  /\ long \in Nat /\ short \in Nat
  /\ fund \in Nat /\ shortfall \in Nat

\* The two totals that opens, updates and closes adjust are the positions' sizes.
InterestAddsUp ==
  /\ long = MapThenSumSet(LAMBDA p : Most(pos[p].size, 0), Open)
  /\ short = MapThenSumSet(LAMBDA p : Most(-pos[p].size, 0), Open)

\* The price of bringing the market from balance to where it is.
Potential == FeeAmount(0, Net)

\* While the price does not move, in whatever order positions come and go: the fund holds
\* what it takes to balance the market, less the tax and less what margins did not cover.
FundMatchesPotential ==
  /\ fund <= price * Potential
  /\ TaxUnit * (fund + shortfall) >= (TaxUnit - Tax) * price * Potential

\* A position that can still be settled has put enough aside to leave: only closing after
\* the price left its range comes short of the fee.
MarginCoversCloseStep ==
   \A p \in Ids : pos[p] # None /\ pos'[p] = None /\ price < pos[p].limit
     => shortfall' = shortfall 
MarginCoversClose == [][MarginCoversCloseStep]_vars

\* No open and no update brings the net open interest to a cap, further beyond it, or from
\* one cap to the other: only positions that close do.
OnlyClosesGoBeyondStep ==
   \/ Abs(long' - short') <= Most(Abs(Net), NotionalCap - 1)
      /\ ~(CappedLow(Net) /\ CappedHigh(long' - short'))
      /\ ~(CappedHigh(Net) /\ CappedLow(long' - short'))
   \/ \E p \in Ids : pos[p] # None /\ pos'[p] = None 
OnlyClosesGoBeyond == [][OnlyClosesGoBeyondStep]_vars
==============================================================================

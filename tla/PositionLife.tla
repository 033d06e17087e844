----------------------------- MODULE PositionLife -----------------------------
(***************************************************************************)
(* The life of positions in a collateral-is-quote market: open, updates,   *)
(* liquifunding, liquidation, take profit, stop loss and close.  A         *)
(* position bets its active collateral against counter collateral that is  *)
(* locked in the liquidity pool; a price move shifts collateral between    *)
(* the two.  It is closed when a trigger price is reached, or when what is *)
(* left does not cover the margin for the fees of the next period.         *)
(*                                                                         *)
(* What a fee amounts to is another component's matter (Funding,           *)
(* DeltaNeutrality, LiquidityPool): here it is any amount those allow.     *)
(* Prices are whole, and trigger prices are rounded to the first whole     *)
(* price that reaches them.                                                *)
(***************************************************************************)
EXTENDS Integers, FiniteSets, FiniteSetsExt

CONSTANTS
  Ids,              \* positions; an id is used once
  Prices,           \* prices of price points
  Sizes,            \* notional a position may have; shorts have negative ones
  StopPrices,       \* prices traders choose for stop loss and take profit
  Deposits,         \* collateral that comes with a message, or is asked back
  Fees, Dnfs,       \* amounts of fees and of delta neutrality fees; negative is received
  FeePart, DnfPart, \* margins, as parts of the notional: borrow, funding and crank; delta neutrality
  MaxLeverage, MinDeposit,  \* config
  Pool,             \* the liquidity that was provided
  MaxBank           \* bound: what the market may hold

ConstantsOK ==
  /\ Prices \subseteq Nat \ {0} /\ StopPrices \subseteq Nat \ {0}
  /\ Sizes \subseteq Int \ {0} /\ Deposits \subseteq Nat \ {0}
  /\ Fees \subseteq Int /\ Dnfs \subseteq Int /\ FeePart \in Nat \ {0} /\ DnfPart \in Nat \ {0}
  /\ MaxLeverage \in Nat \ {0} /\ MinDeposit \in Nat /\ Pool \in Nat /\ MaxBank \in Nat

VARIABLES
  price,            \* the price point that is worked on
  pos,              \* OPEN_POSITIONS
  spent,            \* ids that were used: LAST_POSITION_ID
  desc, asc,        \* PRICE_TRIGGER_DESC, PRICE_TRIGGER_ASC
  locked, unlocked, \* liquidity stats
  pot,              \* collected fees, the delta neutrality fund, funding in transit
  bank,             \* the market's balance (external)
  failed            \* the crank met an error (for a property)

vars == <<price, pos, spent, desc, asc, locked, unlocked, pot, bank, failed>>

None == [size |-> 0]
Open == {p \in Ids : pos[p] # None}
Abs(x) == IF x < 0 THEN -x ELSE x
Most(a, b) == IF a > b THEN a ELSE b
Least(a, b) == IF a < b THEN a ELSE b
CeilDiv(a, b) == (a + b - 1) \div b

------------------------------------------------------------------------------
(* Margins and triggers.                                                   *)

MarginOf(size) ==
  [fees |-> (price * Abs(size)) \div FeePart, dnf |-> (price * Abs(size)) \div DnfPart]
Total(margin) == margin.fees + margin.dnf

\* Mutant: the position lasts until nothing is left.
LiquidationPriceLate(q) ==
  IF q.size > 0 THEN price - CeilDiv(q.active, Abs(q.size))
  ELSE price + CeilDiv(q.active, Abs(q.size))

\* liquidation_price, at the first whole price that reaches it.
LiquidationPrice(q) ==
  IF q.size > 0 THEN price - CeilDiv(q.active - Total(q.margin), Abs(q.size))
  ELSE price + CeilDiv(q.active - Total(q.margin), Abs(q.size))

\* take_profit_price_total
TakeProfitTotal(q) ==
  IF q.size > 0 THEN price + CeilDiv(q.counter, Abs(q.size))
  ELSE price - CeilDiv(q.counter, Abs(q.size))

\* The triggers of a position: below and above its price. 0 stands for none.
Below(q) == (IF q.size > 0 THEN {q.liq, q.stop} ELSE {q.max, q.take}) \ {0}
Above(q) == (IF q.size > 0 THEN {q.max, q.take} ELSE {q.liq, q.stop}) \ {0}

\* Mutant: the prices of the position as it is now are taken out.
TriggersNow(p, old, new) ==
  /\ desc' = (desc \ {<<t, p>> : t \in IF new = None THEN {} ELSE Below(new)})
               \cup {<<t, p>> : t \in IF new = None THEN {} ELSE Below(new)}
  /\ asc' = (asc \ {<<t, p>> : t \in IF new = None THEN {} ELSE Above(new)})
              \cup {<<t, p>> : t \in IF new = None THEN {} ELSE Above(new)}

\* remove_liquidation_prices, store_liquidation_prices: old is taken out, new put in.
Triggers(p, old, new) ==
  /\ desc' = (desc \ {<<t, p>> : t \in IF old = None THEN {} ELSE Below(old)})
               \cup {<<t, p>> : t \in IF new = None THEN {} ELSE Below(new)}
  /\ asc' = (asc \ {<<t, p>> : t \in IF old = None THEN {} ELSE Above(old)})
              \cup {<<t, p>> : t \in IF new = None THEN {} ELSE Above(new)}

\* liquidatable_position
Triggered == {p \in Open : \/ \E t \in desc : t[2] = p /\ t[1] >= price
                           \/ \E t \in asc : t[2] = p /\ t[1] <= price}

\* position_save: what has to hold, and the position with its prices.
Saveable(q) ==
  /\ q.active >= Total(q.margin)
  /\ q.size < 0 => q.counter < price * Abs(q.size)

Priced(q) ==
  [q EXCEPT !.at = price, !.liq = Most(LiquidationPrice(q), 0), !.max = TakeProfitTotal(q)]

------------------------------------------------------------------------------
(* Settling: PositionLiquifund.  The fee is at most the margin for fees.   *)

Settled(p, fee) == [pos[p] EXCEPT !.active = @ - fee]
Exposure(p) == (price - pos[p].at) * pos[p].size

\* Mutant: everything may be lost.
MinExposureAll(p, fee) == -Settled(p, fee).active

\* settle_price_exposure: how much the position may lose, and gain.
MinExposure(p, fee) == pos[p].margin.dnf - Settled(p, fee).active
MaxExposure(p) == pos[p].counter

CappedExposure(p, fee) ==
  IF Exposure(p) <= MinExposure(p, fee) THEN MinExposure(p, fee)
  ELSE Least(Exposure(p), MaxExposure(p))

OutOfRange(p, fee) ==
  Exposure(p) <= MinExposure(p, fee) \/ Exposure(p) >= MaxExposure(p)

Moved(p, fee) ==
  [Settled(p, fee) EXCEPT !.active = @ + Exposure(p), !.counter = @ - Exposure(p), !.at = price]

\* What is left after settling does not last for another period.
TooLittle(p, fee) == Moved(p, fee).active <= Total(MarginOf(pos[p].size))

StaysOpen(p, fee) == ~OutOfRange(p, fee) /\ ~TooLittle(p, fee)

Renewed(p, fee) == [Moved(p, fee) EXCEPT !.margin = MarginOf(pos[p].size)]

FeeAllowed(p, fee) == fee <= pos[p].margin.fees /\ pot + fee >= 0

------------------------------------------------------------------------------
(* Closing: ClosePositionExec.  q is the position, capped the exposure that *)
(* liquifunding found but did not apply to q, extra the loss beyond it.     *)

\* All losses the collateral can pay, after the delta neutrality fee.
FinalExposure(q, capped, extra, dnf) == Most(capped - extra, -(q.active - dnf))

\* The checks that make the close, and with it the crank, fail.
CloseFails(q, capped, extra, dnf) ==
  LET final == FinalExposure(q, capped, extra, dnf)
  IN \/ -capped > q.active \/ capped > q.counter \/ dnf > q.active
     \/ q.active - dnf + final < 0 \/ q.counter - final < 0

\* Mutant: the exposure that liquifunding settled is not taken off.
CloseWithDouble(p, q, capped, extra, dnf, lockedNow, fee) ==
  LET final == FinalExposure(q, capped, extra, dnf)
      back == q.counter
  IN /\ locked' = lockedNow + (capped - final) - back
     /\ unlocked' = unlocked + back
     /\ pot' = pot + fee + dnf
     /\ bank' = bank - (q.active - dnf + final)
     /\ pos' = [pos EXCEPT ![p] = None]
     /\ Triggers(p, pos[p], None)

\* Mutant: the trader gets what was left before the last losses.
CloseWithoutLoss(p, q, capped, extra, dnf, lockedNow, fee) ==
  LET final == FinalExposure(q, capped, extra, dnf)
      back == q.counter - final
  IN /\ locked' = lockedNow + (capped - final) - back
     /\ unlocked' = unlocked + back
     /\ pot' = pot + fee + dnf
     /\ bank' = bank - (q.active - dnf + capped)
     /\ pos' = [pos EXCEPT ![p] = None]
     /\ Triggers(p, pos[p], None)

\* lockedNow is the locked liquidity after liquifunding. Its difference to what was
\* settled goes to the pool, the rest of the counter collateral is unlocked.
CloseWith(p, q, capped, extra, dnf, lockedNow, fee) ==
  LET final == FinalExposure(q, capped, extra, dnf)
      back == q.counter - final
  IN /\ locked' = lockedNow + (capped - final) - back
     /\ unlocked' = unlocked + back
     /\ pot' = pot + fee + dnf
     /\ bank' = bank - (q.active - dnf + final)
     /\ pos' = [pos EXCEPT ![p] = None]
     /\ Triggers(p, pos[p], None)

\* The delta neutrality fee is at most the margin the position comes with.
Close(p, q, capped, extra, lockedNow, fee) ==
  \E dnf \in Dnfs :
    /\ dnf <= q.margin.dnf /\ pot + fee + dnf >= 0
    /\ failed' = CloseFails(q, capped, extra, dnf)
    /\ IF failed' THEN UNCHANGED <<pos, desc, asc, locked, unlocked, pot, bank>>
       ELSE CloseWith(p, q, capped, extra, dnf, lockedNow, fee)
    /\ UNCHANGED <<price, spent>>

\* Liquifunding that ends the position: beyond its range, or too little is left.
SettleToClose(p, fee) ==
  \/ /\ OutOfRange(p, fee)
     /\ Close(p, Settled(p, fee), CappedExposure(p, fee),
              Most(MinExposure(p, fee) - Exposure(p), 0),
              locked - CappedExposure(p, fee), fee)
  \/ /\ ~OutOfRange(p, fee) /\ TooLittle(p, fee)
     /\ Close(p, Moved(p, fee), 0, 0, locked - Exposure(p), fee)

------------------------------------------------------------------------------
(* The crank.                                                              *)

\* position_liquifund_store, when it is due; the position is saved as it was settled.
Liquifund(p) ==
  /\ ~failed /\ p \in Open
  /\ \E fee \in Fees :
       /\ FeeAllowed(p, fee)
       /\ \/ SettleToClose(p, fee)
          \/ /\ StaysOpen(p, fee)
             /\ failed' = ~Saveable(Renewed(p, fee))
             /\ IF failed' THEN UNCHANGED <<pos, desc, asc, locked, pot>>
                ELSE /\ pos' = [pos EXCEPT ![p] = Priced(Renewed(p, fee))]
                     /\ Triggers(p, pos[p], pos'[p])
                     /\ locked' = locked - Exposure(p)
                     /\ pot' = pot + fee
             /\ UNCHANGED <<price, spent, unlocked, bank>>

\* A settlement that leaves the position open, and a close at once.
SettleAndClose(p, fee) ==
  StaysOpen(p, fee) /\ Close(p, Renewed(p, fee), 0, 0, locked - Exposure(p), fee)

\* Liquidation, max gains, take profit or stop loss: settle, and close in any case.
Liquidate(p) ==
  /\ ~failed /\ p \in Triggered
  /\ \E fee \in Fees : FeeAllowed(p, fee) /\ (SettleToClose(p, fee) \/ SettleAndClose(p, fee))

\* The crank is done with a price point before it takes the next one.
NewPrice(q) ==
  /\ ~failed /\ Triggered = {} /\ q # price
  /\ price' = q
  /\ UNCHANGED <<pos, spent, desc, asc, locked, unlocked, pot, bank, failed>>

------------------------------------------------------------------------------
(* Messages of traders, executed when no position is to be liquidated.     *)

\* position_validate_trader_leverage: within the maximum, or not more than it was.
LeverageAllowed(q, old) ==
  \/ price * Abs(q.size) <= MaxLeverage * q.active
  \/ old # None /\ Abs(q.size) * old.active <= Abs(old.size) * q.active

\* validate_minimum_deposit_collateral: nine tenths will do.
EnoughDeposit(amount) == 10 * amount >= 9 * MinDeposit

\* clamp_counter_collateral
Clamped(counter, size) ==
  Most((price * Abs(size)) \div MaxLeverage, Least(price * Abs(size), counter))

\* Mutant: liquidity that is not there is locked.
LockAnything(amount) ==
  /\ locked' = locked + amount
  /\ unlocked' = unlocked - amount

\* LiquidityLock
Lock(amount) ==
  /\ amount <= unlocked
  /\ locked' = locked + amount
  /\ unlocked' = unlocked - amount

OpenPosition(p, size, amount, counter, fee, dnf, stop, take) ==
  LET q == [size |-> size, active |-> amount - fee - dnf, counter |-> Clamped(counter, size),
            margin |-> MarginOf(size), at |-> price, liq |-> 0, max |-> 0,
            stop |-> stop, take |-> take]
  IN /\ ~failed /\ Triggered = {} /\ p \notin spent
     /\ bank + amount <= MaxBank
     /\ LeverageAllowed([q EXCEPT !.active = amount], None) /\ EnoughDeposit(amount)
     /\ q.active > 0 /\ q.counter > 0 /\ pot + fee + dnf >= 0
     /\ Saveable(q)
     /\ Lock(q.counter)
     /\ pos' = [pos EXCEPT ![p] = Priced(q)]
     /\ Triggers(p, None, Priced(q))
     /\ spent' = spent \cup {p}
     /\ pot' = pot + fee + dnf
     /\ bank' = bank + amount
     /\ UNCHANGED <<price, failed>>

\* All updates settle the position first. base is the settled position, q the updated one
\* before fees, inflow what the trader brings (or takes), dnf the delta neutrality fee.
Update(p, settled, q, inflow, fee, dnf) ==
  LET new == [q EXCEPT !.active = @ - fee - dnf, !.margin = MarginOf(q.size)]
      base == Renewed(p, settled)
  IN /\ LeverageAllowed(q, base)
     /\ dnf <= base.margin.dnf /\ pot + settled + fee + dnf >= 0
     /\ new.active > 0 /\ q.counter > 0
     /\ Saveable(new)
     /\ LET more == q.counter - base.counter
        IN /\ more <= unlocked
           /\ locked' = locked - Exposure(p) + more
           /\ unlocked' = unlocked - more
     /\ pos' = [pos EXCEPT ![p] = Priced(new)]
     /\ Triggers(p, pos[p], Priced(new))
     /\ pot' = pot + settled + fee + dnf
     /\ bank' = bank + inflow
     /\ UNCHANGED <<price, spent, failed>>

Updating(p, settled) ==
  ~failed /\ Triggered = {} /\ p \in Open /\ FeeAllowed(p, settled) /\ StaysOpen(p, settled)

\* UpdatePositionCollateralExec
UpdateCollateral(p, settled, delta) ==
  LET base == Renewed(p, settled)
  IN /\ Updating(p, settled)
     /\ base.active + delta > 0 /\ bank + delta <= MaxBank
     /\ delta < 0 => EnoughDeposit(base.active + delta)
     /\ Update(p, settled, [base EXCEPT !.active = @ + delta], delta, 0, 0)

\* UpdatePositionSizeExec: everything is scaled. Only where the size stays whole.
UpdateSize(p, settled, delta, fee, dnf) ==
  LET base == Renewed(p, settled)
      size == (base.size * (base.active + delta)) \div base.active
      counter == Clamped((base.counter * (base.active + delta)) \div base.active, size)
  IN /\ Updating(p, settled)
     /\ base.active + delta > 0 /\ bank + delta <= MaxBank
     /\ (base.size * (base.active + delta)) % base.active = 0 /\ size # 0
     /\ delta < 0 => EnoughDeposit(base.active + delta)
     /\ Update(p, settled, [base EXCEPT !.active = @ + delta, !.size = size, !.counter = counter],
               delta, fee, dnf)

\* UpdatePositionLeverageExec: the counter collateral keeps its ratio.
UpdateLeverage(p, settled, size, fee, dnf) ==
  LET base == Renewed(p, settled)
      counter == Clamped((Abs(size) * base.counter) \div Abs(base.size), size)
  IN /\ Updating(p, settled)
     /\ (size > 0) = (base.size > 0)
     /\ Update(p, settled, [base EXCEPT !.size = size, !.counter = counter], 0, fee, dnf)

\* UpdatePositionMaxGainsExec, UpdatePositionTakeProfitPriceExec; the latter sets the
\* trader's price too.
UpdateMaxGains(p, settled, counter, fee, take) ==
  LET base == Renewed(p, settled)
  IN /\ Updating(p, settled)
     /\ Update(p, settled, [base EXCEPT !.counter = Clamped(counter, base.size), !.take = take],
               0, fee, 0)

\* UpdatePositionStopLossPriceExec, TriggerOrderExec: no price is refused.
UpdateStopLoss(p, settled, stop) ==
  /\ Updating(p, settled)
  /\ Update(p, settled, [Renewed(p, settled) EXCEPT !.stop = stop], 0, 0, 0)

\* ClosePositionExec::new_via_msg; an error is reported to the trader.
CloseByMessage(p, settled) ==
  /\ ~failed /\ Triggered = {} /\ p \in Open /\ FeeAllowed(p, settled)
  /\ SettleToClose(p, settled) \/ SettleAndClose(p, settled)

Init ==
  /\ price \in Prices
  /\ pos = [p \in Ids |-> None] /\ spent = {}
  /\ desc = {} /\ asc = {}
  /\ locked = 0 /\ unlocked = Pool /\ pot = 0 /\ bank = Pool
  /\ failed = FALSE

Stops == {0} \cup StopPrices

Next ==
  \/ \E q \in Prices : NewPrice(q)
  \/ \E p \in Ids :
       \/ Liquifund(p) \/ Liquidate(p)
       \/ \E size \in Sizes, amount \in Deposits, counter \in Deposits,
             fee \in Fees, dnf \in Dnfs, stop \in Stops, take \in Stops :
            fee >= 0 /\ OpenPosition(p, size, amount, counter, fee, dnf, stop, take)
       \/ \E settled \in Fees :
            \/ CloseByMessage(p, settled)
            \/ \E stop \in Stops : UpdateStopLoss(p, settled, stop)
            \/ \E delta \in Deposits \cup {-d : d \in Deposits} :
                 \/ UpdateCollateral(p, settled, delta)
                 \/ \E fee \in Fees, dnf \in Dnfs :
                      fee >= 0 /\ UpdateSize(p, settled, delta, fee, dnf)
            \/ \E fee \in Fees :
                 /\ fee >= 0
                 /\ \/ \E size \in Sizes, dnf \in Dnfs : UpdateLeverage(p, settled, size, fee, dnf)
                    \/ \E counter \in Deposits, take \in Stops :
                         UpdateMaxGains(p, settled, counter, fee, take)

Spec == Init /\ [][Next]_vars

------------------------------------------------------------------------------
(* Properties.                                                             *)

SumOf(f(_)) == MapThenSumSet(f, Open)

\* No amount is negative, and what may be lost, lent or paid is there.
TypeOK ==
  /\ price \in Prices /\ spent \subseteq Ids /\ Open \subseteq spent
  /\ \A p \in Open : pos[p].active > 0 /\ pos[p].counter > 0
  /\ locked \in Nat /\ unlocked \in Nat /\ pot \in Nat /\ bank \in Nat
  /\ failed \in BOOLEAN

\* sanity.rs, locked_balances: liquidity is locked for open positions and nothing else,
\* through settlements whose result is applied in a second step.
LockedIsCounter == locked = SumOf(LAMBDA p : pos[p].counter)

\* sanity.rs, liquidity_balances: every token in the market belongs to somebody.
Backed == bank = SumOf(LAMBDA p : pos[p].active) + locked + unlocked + pot

\* None of the checks in a settlement or a close fails when the crank works: a position that
\* could not be closed would stop the market for everybody.
CrankNeverFails == ~failed

\* sanity.rs, liquidation_prices: the trigger tables hold the prices of open positions, and
\* no others, however often a position is saved.
TriggersExact ==
  /\ desc = UNION {{<<t, p>> : t \in Below(pos[p])} : p \in Open}
  /\ asc = UNION {{<<t, p>> : t \in Above(pos[p])} : p \in Open}

\* The trigger prices were computed when the position was saved. At a price that does not
\* reach one, after any fee the margin allows, the position neither loses more than it has
\* nor gains more than was locked for it.
UntriggeredInRange ==
  \A p \in Open \ Triggered, fee \in Fees :
    fee >= 0 /\ fee <= pos[p].margin.fees => ~OutOfRange(p, fee)
==============================================================================

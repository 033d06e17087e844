---------------------------- MODULE BorrowRates ----------------------------
(***************************************************************************)
(* The borrow fee (market state/funding.rs): its rate follows the pool's     *)
(* utilization from one price point to the next within the limits of the     *)
(* configuration, is split between LP and xLP, and is charged to a position  *)
(* out of the margin set aside when the position was last saved.  Pool and    *)
(* settings change between any two price points.  Rates have four decimals,   *)
(* times are in hours.                                                        *)
(***************************************************************************)
EXTENDS ConfigRules

CONSTANTS
  Pools,    \* states of the pool, [locked, unlocked, lp, xlp]
  Updates,  \* updates of the configuration
  InitialRates, \* initial_borrow_fee_rate
  Year,     \* hours of a year
  Counter,  \* counter collateral of a position
  Active,   \* its active collateral
  Steps,    \* hours between price points
  MaxTime   \* bound on the clock

ConstantsOK == {Year, Counter, Active} \subseteq Nat \ {0} /\ MaxTime \in Nat

VARIABLES
  cfg,
  pool,    \* LiquidityStats
  rate,    \* the last points of the two data series, [lp, xlp, at]
  acc,     \* the prefix sums of the series up to now, [lp, xlp]
  now,     \* the price point in work
  open,    \* the point is not completed yet
  pos,     \* the position
  paid     \* what the last settlement charged, [lp, xlp]

vars == <<cfg, pool, rate, acc, now, open, pos, paid>>

NoPosition == [exists |-> FALSE, active |-> 0, margin |-> 0, acc |-> [lp |-> 0, xlp |-> 0],
               next |-> 0, covered |-> FALSE]

Total(r) == r.lp + r.xlp

\* initialize_borrow_fee_rate: between the minimum and the maximum.
Init ==
  /\ cfg = Default /\ pool \in Pools
  /\ \E r \in InitialRates :
       /\ r \in cfg.borrow_fee_rate_min_annualized..cfg.borrow_fee_rate_max_annualized
       /\ rate = [lp |-> r, xlp |-> 0, at |-> 0]
  /\ acc = [lp |-> 0, xlp |-> 0]
  /\ now = 0 /\ open = FALSE /\ pos = NoPosition /\ paid = [lp |-> 0, xlp |-> 0]

\* A quotient of a negative number is cut off towards 0.
Quot(a, b) == IF a < 0 THEN - ((-a) \div b) ELSE a \div b

Clamp(x, c) ==
  IF x < c.borrow_fee_rate_min_annualized THEN c.borrow_fee_rate_min_annualized
  ELSE IF x > c.borrow_fee_rate_max_annualized THEN c.borrow_fee_rate_max_annualized ELSE x

\* How far the pool is from its target; without liquidity the rate sinks.
Bias(c, p) ==
  IF p.locked + p.unlocked = 0 THEN -Whole
  ELSE (p.locked * Whole) \div (p.locked + p.unlocked) - c.target_utilization

TotalRate(c, p, r, t) ==
  LET hours == IF r.at < t THEN t - r.at ELSE 0
  IN Clamp(Total(r) + Quot(Quot(c.borrow_fee_sensitivity * Bias(c, p), Whole) * hours, 24), c)

\* Mutant: the multiplier falls with the share of LP.
MultiplierSwapped(c, p) ==
  (c.max_xlp_rewards_multiplier * p.xlp + c.min_xlp_rewards_multiplier * p.lp) \div (p.lp + p.xlp)

\* calc_multiplier: between the two settings, the higher the less is staked.
Multiplier(c, p) ==
  (c.min_xlp_rewards_multiplier * p.xlp + c.max_xlp_rewards_multiplier * p.lp) \div (p.lp + p.xlp)

\* Mutant: the multiplier favours LP.
SplitRateSwapped(c, p, total) ==
  IF p.xlp = 0 THEN [lp |-> total, xlp |-> 0]
  ELSE IF p.lp = 0 THEN [lp |-> 0, xlp |-> total]
  ELSE LET lpShares == (p.lp * Multiplier(c, p)) \div Whole
           xlp == (total * p.xlp) \div (p.xlp + lpShares)
       IN [lp |-> total - xlp, xlp |-> xlp]

\* Split of a rate by the classes' shares, the rounding to xLP.
SplitRate(c, p, total) ==
  IF p.xlp = 0 THEN [lp |-> total, xlp |-> 0]
  ELSE IF p.lp = 0 THEN [lp |-> 0, xlp |-> total]
  ELSE LET xlpShares == (p.xlp * Multiplier(c, p)) \div Whole
           lp == (total * p.lp) \div (p.lp + xlpShares)
       IN [lp |-> lp, xlp |-> total - lp]

\* Mutant: the new rate is not held to the limits.
DeriveUnclamped(c, p, r, t) ==
  LET total == Total(r) + Quot(Quot(c.borrow_fee_sensitivity * Bias(c, p), Whole) * (t - r.at), 24)
      split == SplitRate(c, p, IF total < 0 THEN 0 ELSE total)
  IN [lp |-> split.lp, xlp |-> split.xlp, at |-> t]

\* derive_instant_borrow_fee_rate_annual
Derive(c, p, r, t) ==
  LET split == SplitRate(c, p, TotalRate(c, p, r, t))
  IN [lp |-> split.lp, xlp |-> split.xlp, at |-> t]

\* A price point: the series extend to it with the last rates.  Liquifundings
\* are dated at the time they are due, even when the crank is late, so that
\* no price point passes that time before them.
NewPoint(hours) ==
  /\ ~open /\ now + hours <= MaxTime
  /\ pos.exists => now + hours <= pos.next
  /\ now' = now + hours /\ open' = TRUE
  /\ acc' = [lp |-> acc.lp + rate.lp * hours, xlp |-> acc.xlp + rate.xlp * hours]
  /\ UNCHANGED <<cfg, pool, rate, pos, paid>>

\* accumulate_borrow_fee_rate, when the work of the price point is done.
Completed ==
  /\ open /\ (pos.exists => pos.next > now)
  /\ open' = FALSE /\ rate' = Derive(cfg, pool, rate, now)
  /\ UNCHANGED <<cfg, pool, acc, now, pos, paid>>

\* Deposits, withdrawals, stakings and other positions.
PoolChange(p) ==
  /\ pool' = p
  /\ UNCHANGED <<cfg, rate, acc, now, open, pos, paid>>

\* pos.covered remembers that the maximum was not raised since the margin
\* was set aside.
UpdateConfig(u) ==
  /\ Accepted(cfg, u) /\ cfg' = Updated(cfg, u)
  /\ pos' = [pos EXCEPT !.covered =
       @ /\ cfg'.borrow_fee_rate_max_annualized <= cfg.borrow_fee_rate_max_annualized]
  /\ UNCHANGED <<pool, rate, acc, now, open, paid>>

\* Mutant: the margin of the trader's collateral alone.
MarginOfActive(c, active) ==
  (((c.borrow_fee_rate_max_annualized * c.liquifunding_delay) \div Year) * active) \div Whole

\* The borrow part of liquidation_margin: a whole delay at the highest rate.
MarginOf(c, active) ==
  (((c.borrow_fee_rate_max_annualized * c.liquifunding_delay) \div Year) * (active + Counter)) \div Whole

Saved(active) ==
  [exists |-> TRUE, active |-> active, margin |-> MarginOf(cfg, active), acc |-> acc,
   next |-> now + cfg.liquifunding_delay,
   covered |-> Total(rate) <= cfg.borrow_fee_rate_max_annualized]

OpenPosition ==
  /\ open /\ ~pos.exists /\ pos' = Saved(Active)
  /\ UNCHANGED <<cfg, pool, rate, acc, now, open, paid>>

\* calculate_borrow_fee_payment
Owed ==
  LET fee(sum, start) == (((sum - start) * Counter) \div Year) \div Whole
  IN [lp |-> fee(acc.lp, pos.acc.lp), xlp |-> fee(acc.xlp, pos.acc.xlp)]

\* Mutant: each part is held to the margin.
CappedEach(owed, cap) ==
  LET held(x) == IF x <= cap THEN x ELSE cap IN [lp |-> held(owed.lp), xlp |-> held(owed.xlp)]

\* calc_capped_borrow_fee_payment: when the fee is above the margin, LP's
\* part is scaled down and xLP gets the rest of the margin.
Capped(owed, cap) ==
  IF Total(owed) <= cap THEN owed
  ELSE LET lp == (owed.lp * ((cap * Whole) \div Total(owed))) \div Whole
       IN [lp |-> lp, xlp |-> cap - lp]

\* A liquifunding or an update of the position, which pays the fee up to the
\* price point.  A position that cannot fill its margin again is liquidated.
Settle ==
  /\ open /\ pos.exists
  /\ LET charged == Capped(Owed, pos.margin)
         left == pos.active - Total(charged)
     IN /\ paid' = charged
        /\ pos' = IF left < MarginOf(cfg, left) THEN NoPosition ELSE Saved(left)
  /\ UNCHANGED <<cfg, pool, rate, acc, now, open>>

Next ==
  \/ \E h \in Steps : NewPoint(h)
  \/ Completed
  \/ \E p \in Pools : PoolChange(p)
  \/ \E u \in Updates : UpdateConfig(u)
  \/ OpenPosition \/ Settle

Spec == Init /\ [][Next]_vars

----------------------------------------------------------------------------
\* The rate of a completed price point is within the limits in force, in
\* whatever order the pool, the limits and the rate changed before.
RateWithinLimitsStep ==
  open /\ ~open' =>
    Total(rate') \in cfg.borrow_fee_rate_min_annualized..cfg.borrow_fee_rate_max_annualized
RateWithinLimits == [][RateWithinLimitsStep]_vars

\* A staked token earns at least the minimum and at most (but for the
\* rounding) the maximum multiple of what an LP token earns.
XlpRewardedStep ==
  open /\ ~open' /\ pool.lp > 0 /\ pool.xlp > 0 =>
    /\ rate'.xlp * pool.lp >= (rate'.lp * (cfg.min_xlp_rewards_multiplier \div Whole)) * pool.xlp
    /\ (rate'.xlp - pool.xlp - 1) * pool.lp
         <= ((rate'.lp + 1) * (cfg.max_xlp_rewards_multiplier \div Whole)) * pool.xlp
XlpRewarded == [][XlpRewardedStep]_vars

\* The more of the pool is staked, the smaller a staked token's advantage:
\* staking never raises the multiple of those who staked before.
StakingDilutes ==
  \A p, q \in Pools :
    /\ p.lp + p.xlp > 0 /\ q.lp + q.xlp > 0
    /\ q.xlp * (p.lp + p.xlp) >= p.xlp * (q.lp + q.xlp)
    => Multiplier(cfg, q) <= Multiplier(cfg, p)

\* A position that is liquifunded in time owes no more than its margin,
\* unless the maximum was raised since, or lowered below the running rate.
MarginSuffices ==
  pos.exists /\ pos.covered => Total(Owed) <= pos.margin

\* What is charged never exceeds the margin set aside.
ChargeWithinMarginStep ==
  Total(paid') <= pos.margin \/ paid' = paid
ChargeWithinMargin == [][ChargeWithinMarginStep]_vars

\* The rate rises while there is no liquidity.
RateRisesWhenEmpty ==
  [][open /\ ~open' /\ pool.locked + pool.unlocked = 0
       => Total(rate') >= Total(rate) \/ Total(rate) > cfg.borrow_fee_rate_max_annualized]_vars
=============================================================================

---------------------------- MODULE LiquidityPool ----------------------------
(***************************************************************************)
(* The liquidity pool of a market and the fees it distributes.             *)
(*                                                                         *)
(* Providers deposit collateral for LP tokens, stake LP into xLP, unstake  *)
(* it again over a period, and withdraw.  Fees are not paid out when they  *)
(* are collected: they are added to a prefix sum per token, and a          *)
(* provider's share is worked out whenever the provider is touched.  The   *)
(* total of what wallets may claim is only kept as one number,             *)
(* ALL_FEES.wallets.  When traders win the whole pool, all balances are    *)
(* void, and the crank walks over the providers to reset them.             *)
(*                                                                         *)
(* Amounts are atoms of the 18-digit decimals of the code: `One' is the    *)
(* decimal 1, and products and quotients round down as Decimal256 does.    *)
(* Every action is one call of the component in one transaction; a call    *)
(* that fails reverts, so that its failing paths are no steps.             *)
(***************************************************************************)
EXTENDS Integers, Sequences, FiniteSets, FiniteSetsExt

CONSTANTS
  NumProviders,     \* wallets, numbered in the order of their addresses
  One,              \* the decimal 1, in atoms (10^18 in the code)
  Dust,             \* approx_eq: a smaller amount counts as zero
  Deposits,         \* collateral amounts providers deposit or reinvest
  Shares,           \* token amounts providers name (they may say "all", too)
  FeeAmounts,       \* fees traders pay
  Gains,            \* collateral a position moves out of the pool
  ProtocolTax,      \* config.protocol_tax, in atoms
  ReferralRatio,    \* config.referral_reward_ratio, in atoms
  CrankReward,      \* config.crank_fee_reward
  MaxLiquidity,     \* config.max_liquidity
  UnstakePeriod,    \* config.unstake_period_seconds
  Cooldown,         \* config.liquidity_cooldown_seconds
  MaxTime,          \* bound: last block time
  MaxYields,        \* bound: entries of YIELD_PER_TIME_PER_TOKEN
  MaxFees,          \* bound: crank and wallet fees
  MaxBalance        \* bound: tokens held

Providers == 1..NumProviders

ASSUME ProvidersAssumption == NumProviders \in Nat
ASSUME DecimalAssumption == One \in Nat \ {0} /\ Dust \in Nat
ASSUME AmountsAssumption ==
  /\ Deposits \subseteq Nat \ {0}
  /\ Shares \subseteq Nat \ {0}
  /\ FeeAmounts \subseteq Nat
  /\ Gains \subseteq Nat
ASSUME ConfigAssumption ==
  /\ ProtocolTax \in 0..One
  /\ ReferralRatio \in 0..One
  /\ CrankReward \in Nat
  /\ MaxLiquidity \in Nat
  /\ UnstakePeriod \in Nat \ {0}
  /\ Cooldown \in Nat
ASSUME PoolBoundsAssumption ==
  /\ MaxTime \in Nat
  /\ MaxYields \in Nat
  /\ MaxFees \in Nat
  /\ MaxBalance \in Nat

VARIABLES
  now,              \* block time
  pool,             \* LIQUIDITY_STATS
  providers,        \* LIQUIDITY_STATS_BY_ADDR, a partial function
  yields,           \* YIELD_PER_TIME_PER_TOKEN: prefix sums per token
  rate,             \* who the last borrow rate point pays: a set of classes
  rated,            \* classes some rate point of the series pays
  reset,            \* RESET_LP_STATUS
  fees,             \* ALL_FEES
  balance,          \* tokens the contract holds for the pool and the fees
  stray             \* fees credited to a class of tokens that nobody held

vars == <<now, pool, providers, yields, rate, rated, reset, fees, balance, stray>>

------------------------------------------------------------------------------
(* Values and arithmetic.                                                  *)

Mul(a, b) == (a * b) \div One
Div(a, b) == (a * One) \div b

Classes == {"lp", "xlp"}

NoUnstaking == [xlp |-> 0, collected |-> 0, started |-> 0, last |-> 0]
Unstaking == [xlp : Nat, collected : Nat, started : Nat, last : Nat]

\* `due' is total_yield(): accrued yield, crank and referrer rewards.
Stats == [lp : Nat, xlp : Nat, key : Nat, due : Nat,
          unstaking : Unstaking, cooldownEnds : Nat]

\* RESET_LP_STATUS: unset, Begin, or LastSaw(provider).
NotResetting == -1
Begin == 0

EmptyPool == [locked |-> 0, unlocked |-> 0, lp |-> 0, xlp |-> 0]

TotalCollateral(p) == p.locked + p.unlocked
TotalTokens(p) == p.lp + p.xlp

\* lp_to_collateral, collateral_to_lp
LpToCollateral(p, l) == Div(Mul(TotalCollateral(p), l), TotalTokens(p))

\* Mutant: round the new shares up.
CollateralToLpUp(p, x) ==
  IF TotalCollateral(p) = 0 THEN x
  ELSE Div(Mul(TotalTokens(p), x), TotalCollateral(p)) + 1

CollateralToLp(p, x) ==
  IF TotalCollateral(p) = 0 THEN x
  ELSE Div(Mul(TotalTokens(p), x), TotalCollateral(p))

\* lp_to_collateral_non_zero: an error for an empty pool or a zero result.
HasValue(p, l) == TotalCollateral(p) >= Dust /\ LpToCollateral(p, l) > 0

------------------------------------------------------------------------------
(* Stored records.                                                         *)

NewStats == [lp |-> 0, xlp |-> 0, key |-> Len(yields), due |-> 0,
             unstaking |-> NoUnstaking, cooldownEnds |-> 0]

\* load_liquidity_stats_addr_default
Load(a) == IF a \in DOMAIN providers THEN providers[a] ELSE NewStats

IsEmpty(r) == r.lp = 0 /\ r.xlp = 0 /\ r.unstaking = NoUnstaking /\ r.due = 0

\* save_liquidity_stats_addr: an empty record is removed.
Save(f, a, r) ==
  LET others == DOMAIN f \ {a}
  IN IF IsEmpty(r) THEN [b \in others |-> f[b]]
     ELSE [b \in others \cup {a} |-> IF b = a THEN r ELSE f[b]]

\* save_liquidity_stats: tokens without collateral are void.
Drained(p) == TotalCollateral(p) = 0 /\ TotalTokens(p) # 0
Settled(p) == IF Drained(p) THEN EmptyPool ELSE p
SaveStats(p) ==
  /\ pool' = Settled(p)
  /\ reset' = IF Drained(p) THEN Begin ELSE reset

------------------------------------------------------------------------------
(* Book keeping: accrue yield, collect unstaked LP.                        *)

\* Unstaking tokens earn as LP.
EarningLp(r) == r.lp + (r.unstaking.xlp - r.unstaking.collected)

LastYield == yields[Len(yields)]

\* Mutant: the key is not moved on.
AccrueKeepsKey(r) ==
  [r EXCEPT !.due = @ + Mul(LastYield.lp - yields[r.key].lp, EarningLp(r))
                      + Mul(LastYield.xlp - yields[r.key].xlp, r.xlp)]

\* update_accrued_yield
Accrue(r) ==
  [r EXCEPT !.due = @ + Mul(LastYield.lp - yields[r.key].lp, EarningLp(r))
                      + Mul(LastYield.xlp - yields[r.key].xlp, r.xlp),
            !.key = Len(yields)]

\* Mutant: the elapsed time is counted from the start every time.
UnstakedFromStart(u) ==
  IF now - u.started >= UnstakePeriod THEN u.xlp - u.collected
  ELSE Mul(Div(now - u.started, UnstakePeriod), u.xlp)

\* calculate_unstaked_lp: linear since the last collection, all at the end.
Unstaked(u) ==
  IF now - u.started >= UnstakePeriod THEN u.xlp - u.collected
  ELSE Mul(Div(now - u.last, UnstakePeriod), u.xlp)

\* collect_unstaked_lp
Collectable(r) == IF r.unstaking = NoUnstaking THEN 0 ELSE Unstaked(r.unstaking)
Collect(r) ==
  LET l == Collectable(r)
      u == r.unstaking
  IN IF l = 0 THEN r
     ELSE [r EXCEPT !.lp = @ + l,
                    !.unstaking = IF u.collected + l = u.xlp THEN NoUnstaking
                                  ELSE [u EXCEPT !.collected = @ + l, !.last = now]]

\* Its error paths: more than was unstaked, or worth nothing.
CollectOk(r) ==
  Collectable(r) > 0 =>
    /\ r.unstaking.collected + Collectable(r) =< r.unstaking.xlp
    /\ HasValue(pool, Collectable(r))

\* perform_lp_book_keeping
BookKept(a) == Collect(Accrue(Load(a)))

\* A provider's call that keeps the books first: ensure_not_resetting_lps.
Provider(a) == reset = NotResetting /\ CollectOk(Load(a))
Known(a) == a \in DOMAIN providers

------------------------------------------------------------------------------
Init ==
  /\ now = 1
  /\ pool = EmptyPool
  /\ providers = [a \in {} |-> NoUnstaking]
  /\ yields = <<[lp |-> 0, xlp |-> 0]>>
  /\ rate = {"lp"}
  /\ rated = {"lp"}
  /\ reset = NotResetting
  /\ fees = [wallets |-> 0, protocol |-> 0, crank |-> 0, referral |-> 0]
  /\ balance = 0
  /\ stray = 0

\* A cooldown that has ended is as good as none (get_liquidity_cooldown), and
\* is forgotten here.  Bound: MaxTime.
Tick ==
  /\ now < MaxTime
  /\ now' = now + 1
  /\ providers' = [a \in DOMAIN providers |->
       IF providers[a].cooldownEnds =< now' THEN [providers[a] EXCEPT !.cooldownEnds = 0]
       ELSE providers[a]]
  /\ UNCHANGED <<pool, yields, rate, rated, reset, fees, balance, stray>>

feeVars == <<yields, rate, rated, stray>>

------------------------------------------------------------------------------
(* Messages of liquidity providers.                                        *)

\* liquidity_deposit_inner, and liquidity_stake_lp when asked for.  The
\* record is r; only a deposit that is not staked starts the cooldown.
DepositInner(a, r, x, stake, cooldown) ==
  LET n == CollateralToLp(pool, x)
  IN /\ TotalCollateral(pool) + x =< MaxLiquidity
     /\ n > 0
     /\ SaveStats([pool EXCEPT !.unlocked = @ + x,
                               !.lp = IF stake THEN @ ELSE @ + n,
                               !.xlp = IF stake THEN @ + n ELSE @])
     /\ providers' = Save(providers, a,
          [r EXCEPT !.lp = IF stake THEN @ ELSE @ + n,
                    !.xlp = IF stake THEN @ + n ELSE @,
                    !.cooldownEnds = IF cooldown /\ Cooldown > 0
                                     THEN now + Cooldown ELSE @])

\* Bound: MaxBalance.
DepositLiquidity(a, x, stake) ==
  /\ Provider(a)
  /\ balance + x =< MaxBalance
  /\ DepositInner(a, BookKept(a), x, stake, ~stake)
  /\ balance' = balance + x
  /\ UNCHANGED <<now, fees, feeVars>>

\* liquidity_claim_yield: all of it, out of the wallets' fees.
CanClaim(r) == r.due > 0 /\ r.due =< fees.wallets
Claimed(r) == [r EXCEPT !.due = 0]

ClaimYield(a) ==
  LET r == BookKept(a)
  IN /\ Provider(a) /\ Known(a)
     /\ CanClaim(r)
     /\ providers' = Save(providers, a, Claimed(r))
     /\ fees' = [fees EXCEPT !.wallets = @ - r.due]
     /\ balance' = balance - r.due
     /\ UNCHANGED <<now, pool, reset, feeVars>>

\* Claim everything, reinvest x of it, and send the remainder.
ReinvestYield(a, x, stake) ==
  LET r == BookKept(a)
  IN /\ Provider(a) /\ Known(a)
     /\ CanClaim(r)
     /\ x =< r.due
     /\ DepositInner(a, Claimed(r), x, stake, FALSE)
     /\ fees' = [fees EXCEPT !.wallets = @ - r.due]
     /\ balance' = balance - (r.due - x)
     /\ UNCHANGED <<now, feeVars>>

\* Mutant: the collateral paid out stays in the pool's books.
BurnKeepsCollateral(p, l, x) == [p EXCEPT !.lp = @ - l]

\* Burn l tokens for x collateral.
Burn(p, l, x) == [p EXCEPT !.lp = @ - l, !.unlocked = @ - x]

\* WithdrawLiquidity, with or without claiming first.  The last tokens take
\* the rounding dust of the pool with them.
WithdrawLiquidity(a, l, claim) ==
  LET r == BookKept(a)
      x == LpToCollateral(pool, l)
      p == Burn(pool, l, x)
  IN /\ Provider(a) /\ Known(a)
     /\ claim => CanClaim(r)
     /\ r.cooldownEnds =< now
     /\ l \in 1..r.lp
     /\ HasValue(pool, l)
     /\ x =< pool.unlocked
     /\ IF TotalTokens(p) = 0
        THEN TotalCollateral(p) < Dust /\ SaveStats(EmptyPool)
        ELSE SaveStats(p)
     /\ providers' = Save(providers, a, [r EXCEPT !.lp = @ - l,
                                                  !.due = IF claim THEN 0 ELSE @])
     /\ fees' = IF claim THEN [fees EXCEPT !.wallets = @ - r.due] ELSE fees
     /\ balance' = balance - x - (IF claim THEN r.due ELSE 0)
     /\ UNCHANGED <<now, feeVars>>

StakeLp(a, l) ==
  LET r == BookKept(a)
  IN /\ Provider(a) /\ Known(a)
     /\ l \in 1..r.lp
     /\ SaveStats([pool EXCEPT !.lp = @ - l, !.xlp = @ + l])
     /\ providers' = Save(providers, a, [r EXCEPT !.lp = @ - l, !.xlp = @ + l])
     /\ UNCHANGED <<now, fees, balance, feeVars>>

\* Mutant: what was collected already is restored as well.
StoppedRestoresAll(r) ==
  [r EXCEPT !.xlp = @ + r.unstaking.xlp, !.unstaking = NoUnstaking]

\* liquidity_stop_unstaking_xlp: what was not collected is xLP again.
Stopped(r) ==
  [r EXCEPT !.xlp = @ + (r.unstaking.xlp - r.unstaking.collected),
            !.unstaking = NoUnstaking]

\* Start over: an unstaking under way is stopped first.
UnstakeXlp(a, l) ==
  LET b == BookKept(a)
      back == b.unstaking.xlp - b.unstaking.collected
      r == Stopped(b)
  IN /\ Provider(a) /\ Known(a)
     /\ l \in 1..r.xlp
     /\ SaveStats([pool EXCEPT !.lp = @ - back + l, !.xlp = @ + back - l])
     /\ HasValue(pool, l)
     /\ providers' = Save(providers, a, [r EXCEPT !.xlp = @ - l,
          !.unstaking = [xlp |-> l, collected |-> 0, started |-> now, last |-> now]])
     /\ UNCHANGED <<now, fees, balance, feeVars>>

StopUnstakingXlp(a) ==
  LET b == BookKept(a)
      back == b.unstaking.xlp - b.unstaking.collected
  IN /\ Provider(a) /\ Known(a)
     /\ b.unstaking # NoUnstaking
     /\ SaveStats([pool EXCEPT !.lp = @ - back, !.xlp = @ + back])
     /\ providers' = Save(providers, a, Stopped(b))
     /\ UNCHANGED <<now, fees, balance, feeVars>>

CollectUnstakedLp(a) ==
  /\ Provider(a) /\ Known(a)
  /\ Collectable(providers[a]) > 0
  /\ providers' = Save(providers, a, BookKept(a))
  /\ UNCHANGED <<now, pool, reset, fees, balance, feeVars>>

\* Mutant: the receiver's books are not kept.
TransferTokenSenderOnly(a, b, class, l) ==
  LET r == BookKept(a)
      s == Load(b)
      moved == Save(providers, a, [r EXCEPT ![class] = @ - l])
  IN /\ Provider(a) /\ Provider(b)
     /\ a # b
     /\ class = "lp" => r.cooldownEnds =< now
     /\ l \in 1..r[class]
     /\ providers' = Save(moved, b, [s EXCEPT ![class] = @ + l])
     /\ UNCHANGED <<now, pool, reset, fees, balance, feeVars>>

\* LiquidityTokenProxy, transfer: book keeping on both sides.
TransferToken(a, b, class, l) ==
  LET r == BookKept(a)
      s == BookKept(b)
      moved == Save(providers, a, [r EXCEPT ![class] = @ - l])
  IN /\ Provider(a) /\ Provider(b)
     /\ a # b
     /\ class = "lp" => r.cooldownEnds =< now
     /\ l \in 1..r[class]
     /\ providers' = Save(moved, b, [s EXCEPT ![class] = @ + l])
     /\ UNCHANGED <<now, pool, reset, fees, balance, feeVars>>

------------------------------------------------------------------------------
(* What the market does: fees, locked liquidity, and the reset.            *)

\* liquidity_process_new_yield for the totals of p.  Bound: MaxYields.
AddYield(p, l, x) ==
  /\ Len(yields) < MaxYields
  /\ yields' = Append(yields,
       [lp  |-> LastYield.lp + (IF p.lp = 0 THEN 0 ELSE Div(l, p.lp)),
        xlp |-> LastYield.xlp + (IF p.xlp = 0 THEN 0 ELSE Div(x, p.xlp))])
  /\ stray' = stray + (IF p.lp = 0 THEN l ELSE 0) + (IF p.xlp = 0 THEN x ELSE 0)

\* How a fee is split: as the last rate point says, however stale it is.
Split(x) ==
  {<<l, x - l>> : l \in IF rate = {"lp"} THEN {x}
                        ELSE IF rate = {"xlp"} THEN {0} ELSE 0..x}

\* collect_trading_fee(_inner): the referrer's part is on top of wallets.
TradingFee(p, f, reward) ==
  LET x == f - reward
      tax == Mul(x, ProtocolTax)
  IN /\ \E s \in Split(x - tax) : AddYield(p, s[1], s[2])
     /\ fees' = [fees EXCEPT !.wallets = @ + (x - tax), !.protocol = @ + tax,
                             !.referral = @ + reward]

\* Some position is open, and the crank is not resetting.
InUse == pool.locked > 0 /\ reset = NotResetting

\* OpenPositionExec.apply: the trading fee f, then c more is locked.
OpenPosition(f, c, referrer) ==
  LET reward == IF referrer \in Providers THEN Mul(f, ReferralRatio) ELSE 0
  IN /\ reset = NotResetting
     /\ c \in 1..pool.unlocked
     /\ TradingFee(pool, f, reward)
     /\ SaveStats([pool EXCEPT !.locked = @ + c, !.unlocked = @ - c])
     /\ providers' = IF referrer \in Providers
                     THEN Save(providers, referrer,
                               [Load(referrer) EXCEPT !.due = @ + reward])
                     ELSE providers
     /\ balance' = balance + f
     /\ UNCHANGED <<now, rate, rated>>

\* PositionLiquifund.apply: borrow fees l and x for the two classes, then
\* the price exposure d moves into (out of) the locked collateral.
Liquifund(l, x, d) ==
  LET tl == Mul(l, ProtocolTax)
      tx == Mul(x, ProtocolTax)
  IN /\ InUse
     /\ l > 0 => "lp" \in rated
     /\ x > 0 => "xlp" \in rated
     /\ pool.locked + d >= 0
     /\ balance + l + x + d =< MaxBalance
     /\ AddYield(pool, l - tl, x - tx)
     /\ fees' = [fees EXCEPT !.wallets = @ + (l - tl) + (x - tx),
                             !.protocol = @ + tl + tx]
     /\ SaveStats([pool EXCEPT !.locked = @ + d])
     /\ balance' = balance + l + x + d
     /\ UNCHANGED <<now, providers, rate, rated>>

\* ClosePositionExec.apply: the trader's gain g leaves the pool first, then
\* the protocol's part f of the delta neutrality fee, then c is unlocked.
ClosePosition(g, f, c) ==
  LET p == [pool EXCEPT !.locked = @ - g]
  IN /\ InUse
     /\ c >= 0 /\ g + c \in 1..pool.locked
     /\ TradingFee(Settled(p), f, 0)
     /\ SaveStats([p EXCEPT !.locked = @ - c, !.unlocked = @ + c])
     /\ balance' = balance - g + f
     /\ UNCHANGED <<now, providers, rate, rated>>

\* accumulate_borrow_fee_rate, when the crank completes a price point.
AccumulateBorrowFeeRate ==
  LET to == IF pool.xlp = 0 THEN {"lp"}
            ELSE IF pool.lp = 0 THEN {"xlp"} ELSE Classes
  IN /\ reset = NotResetting
     /\ rate' = to
     /\ rated' = rated \cup to
     /\ UNCHANGED <<now, pool, providers, yields, reset, fees, balance, stray>>

\* Mutant: the walk starts at, not after, the last address seen.
ToResetInclusive == {a \in DOMAIN providers : a >= reset}
ToReset == {a \in DOMAIN providers : a > reset}

\* Mutant: a provider in the middle of unstaking keeps the unstaking.
WipedButUnstaking(r) ==
  [Accrue(r) EXCEPT !.lp = 0, !.xlp = 0, !.cooldownEnds = 0]
Wiped(r) ==
  [Accrue(r) EXCEPT !.lp = 0, !.xlp = 0, !.cooldownEnds = 0,
                    !.unstaking = NoUnstaking]

\* crank_reset_lp_balances: the next address, or done.
CrankResetLpBalances ==
  /\ reset # NotResetting
  /\ IF ToReset = {}
     THEN reset' = NotResetting /\ UNCHANGED providers
     ELSE LET a == Min(ToReset)
          IN /\ providers' = Save(providers, a, Wiped(providers[a]))
             /\ reset' = a
  /\ UNCHANGED <<now, pool, fees, balance, feeVars>>

\* ProvideCrankFunds, and crank fees of traders.  Bound: MaxFees.
ProvideCrankFunds(x) ==
  /\ x > 0
  /\ fees.crank + fees.wallets + x =< MaxFees
  /\ balance + x =< MaxBalance
  /\ fees' = [fees EXCEPT !.crank = @ + x]
  /\ balance' = balance + x
  /\ UNCHANGED <<now, pool, providers, reset, feeVars>>

\* Mutant: the reward is paid whether or not it was collected.
CrankPaymentUncapped(n) == n * CrankReward
CrankPayment(n) == Min({n * CrankReward, fees.crank})

\* allocate_crank_fees for n paying work items; possible during a reset.
AllocateCrankFees(a, n) ==
  /\ CrankPayment(n) > 0
  /\ fees' = [fees EXCEPT !.crank = @ - CrankPayment(n),
                          !.wallets = @ + CrankPayment(n)]
  /\ providers' = Save(providers, a, [Load(a) EXCEPT !.due = @ + CrankPayment(n)])
  /\ UNCHANGED <<now, pool, reset, balance, feeVars>>

TransferDaoFees ==
  /\ reset = NotResetting
  /\ fees.protocol > 0
  /\ fees' = [fees EXCEPT !.protocol = 0]
  /\ balance' = balance - fees.protocol
  /\ UNCHANGED <<now, pool, providers, reset, feeVars>>

------------------------------------------------------------------------------
\* Amounts a message may name: a fixed one, or all there is.
Amount(all) == (Shares \cup {all}) \ {0}

ProviderMsg(a) ==
  \/ \E x \in Deposits, stake \in BOOLEAN : DepositLiquidity(a, x, stake)
  \/ ClaimYield(a)
  \/ \E x \in Amount(BookKept(a).due), stake \in BOOLEAN : ReinvestYield(a, x, stake)
  \/ \E l \in Amount(BookKept(a).lp), claim \in BOOLEAN : WithdrawLiquidity(a, l, claim)
  \/ \E l \in Amount(BookKept(a).lp) : StakeLp(a, l)
  \/ \E l \in Amount(Stopped(BookKept(a)).xlp) : UnstakeXlp(a, l)
  \/ StopUnstakingXlp(a)
  \/ CollectUnstakedLp(a)
  \/ \E b \in Providers, class \in Classes :
       \E l \in Amount(BookKept(a)[class]) : TransferToken(a, b, class, l)

Market ==
  \/ \E f \in FeeAmounts, c \in Amount(pool.unlocked), w \in Providers \cup {0} :
       OpenPosition(f, c, w)
  \/ \E l, x \in FeeAmounts, g \in Gains, sign \in {-1, 1} : Liquifund(l, x, sign * g)
  \/ \E g \in Gains \cup {pool.locked}, f \in FeeAmounts :
       \E c \in {0, pool.locked - g} : ClosePosition(g, f, c)
  \/ AccumulateBorrowFeeRate
  \/ TransferDaoFees
  \/ \E x \in Deposits : ProvideCrankFunds(x)
  \/ \E a \in Providers, n \in {1, 2} : AllocateCrankFees(a, n)

Next ==
  \/ Tick
  \/ \E a \in Providers : ProviderMsg(a)
  \/ Market
  \/ CrankResetLpBalances

Spec == Init /\ [][Next]_vars

\* The market is cranked again and again (Fairness of MarketCrank), and
\* crank_work returns ResetLpBalances before any other work.
Fairness == WF_vars(CrankResetLpBalances)

FairSpec == Spec /\ Fairness

------------------------------------------------------------------------------
(* Properties.                                                             *)

\* The type of every storage item of the pool.
TypeOK ==
  /\ now \in Nat
  /\ pool \in [locked : Nat, unlocked : Nat, lp : Nat, xlp : Nat]
  /\ DOMAIN providers \subseteq Providers
  /\ \A a \in DOMAIN providers : providers[a] \in Stats
  /\ yields \in Seq([lp : Nat, xlp : Nat]) /\ yields # <<>>
  /\ rate \subseteq Classes /\ rated \subseteq Classes
  /\ reset \in {NotResetting} \cup (0..NumProviders)
  /\ fees \in [wallets : Nat, protocol : Nat, crank : Nat, referral : Nat]
  /\ balance \in Int
  /\ stray \in Nat

\* sanity.rs, liquidity_balances: the totals are the sum of the providers'
\* tokens, unstaking tokens counted as LP, no empty record is stored, and a
\* reset leaves nobody with tokens of the drained pool.
SharesAddUp ==
  /\ \A a \in DOMAIN providers : ~IsEmpty(providers[a])
  /\ reset = NotResetting =>
       /\ pool.lp = MapThenSumSet(LAMBDA a : EarningLp(providers[a]), DOMAIN providers)
       /\ pool.xlp = MapThenSumSet(LAMBDA a : providers[a].xlp, DOMAIN providers)
  /\ reset # NotResetting => pool = EmptyPool

\* What a wallet could claim now.
Claimable(a) == Accrue(providers[a]).due

\* "Fees available for individual wallets to withdraw": the one number
\* backs what all wallets together can claim, whatever was accrued when, so
\* that no claim fails for lack of funds (register_lp_claimed_yield).
ClaimsBacked ==
  fees.wallets >= MapThenSumSet(Claimable, DOMAIN providers)

\* As long as no referral rewards are paid: claims are backed even without
\* the fees that went to tokens nobody held, so nobody is paid from those.
YieldBacked ==
  fees.wallets >= stray + MapThenSumSet(Claimable, DOMAIN providers)

\* What all wallets could claim now, and the fees credited to a class of tokens
\* that nobody held, are covered by the wallets' and the referrers' fees.
ClaimsCovered ==
  fees.wallets + fees.referral >= stray + MapThenSumSet(Claimable, DOMAIN providers)

\* sanity.rs, token_balance: the tokens held cover the pool and the fees.
Solvent ==
  balance >= TotalCollateral(pool) + fees.wallets + fees.protocol
             + fees.crank + fees.referral

\* The totals of the pool are those of its providers, and the tokens held cover
\* the pool and all fees, claims among them (sanity.rs, liquidity_balances and
\* token_balance).
PoolBacked == SharesAddUp /\ Solvent /\ YieldBacked

\* Tokens unstake at most linearly over the period, across any number of
\* collections (assertions of calculate_unstaked_lp and is_empty).
UnstakesLinearly ==
  \A a \in DOMAIN providers :
    LET u == providers[a].unstaking
    IN u # NoUnstaking =>
         /\ u.collected < u.xlp
         /\ u.collected * UnstakePeriod =< u.xlp * (u.last - u.started)
         /\ u.collected + Unstaked(u) =< u.xlp

\* Rounding never favours the caller: unless a position's settlement changes
\* the locked collateral, no step lowers the value of a token, so nobody
\* gains at the expense of the providers who stay.
NoDilution ==
  [][pool.locked' = pool.locked =>
       TotalCollateral(pool)' * TotalTokens(pool)
         >= TotalCollateral(pool) * TotalTokens(pool)']_vars

\* A reset of the pool comes to an end, although crankers earn rewards (and
\* so become providers) while it runs.
ResetEnds == reset # NotResetting ~> reset = NotResetting

\* The debug assertions of liquidity_process_new_yield: no yield for a class
\* of tokens that nobody holds.
NoYieldWithoutHolders == stray = 0
==============================================================================

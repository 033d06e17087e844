-------------------------- MODULE CounterTradeTarget --------------------------
(***************************************************************************)
(* The strategy of the countertrade contract: from the open interest and   *)
(* the funding rate of its market it decides to open, grow, shrink or      *)
(* close its position, so that the popular side's funding rate comes close *)
(* to a target.  The size is found by bisection.  A decision is executed   *)
(* by the market later, when other traders may have moved.                 *)
(*                                                                         *)
(* Rates and ratios are in parts of One, notional and collateral in atoms  *)
(* at a price of one.  Whether the market's collateral is the base or the  *)
(* quote only swaps the sides.  Shares, the slot and refusals of the       *)
(* market are in CounterTrade.                                             *)
(***************************************************************************)
EXTENDS Integers, Sequences, FiniteSets, FiniteSetsExt, SequencesExt

CONSTANTS
  One,              \* the decimal 1
  Longs, Shorts,    \* notional other traders may hold on either side
  Balances,         \* collateral the contract may start with
  Leverage,         \* the smaller one of the contract's and the market's limit
  MinFunding, TargetFunding, MaxFunding,   \* config of the contract
  Epsilon,          \* how close the search gets to the target
  Iterations,       \* config.iterations
  Sensitivity, RateCap, HighCap,           \* funding rate config of the market
  MinDeposit,       \* minimum_deposit_usd
  CrankFee,         \* estimate_crank_fee
  MaxMoves          \* bound: moves of other traders

ConstantsOK ==
  /\ One \in Nat \ {0} /\ Longs \subseteq Nat /\ Shorts \subseteq Nat
  /\ Balances \subseteq Nat /\ Leverage \in Nat \ {0, 1}
  /\ MinFunding \in Nat /\ TargetFunding \in Nat /\ MaxFunding \in Nat
  /\ MinFunding < TargetFunding /\ TargetFunding < MaxFunding
  /\ Epsilon \in Nat /\ Iterations \in Nat \ {0}
  /\ Sensitivity \in Nat /\ RateCap \in Nat /\ HighCap \in Nat \ {0}
  /\ MinDeposit \in Nat /\ CrankFee \in Nat /\ MaxMoves \in Nat

VARIABLES
  longs, shorts,    \* notional of the other traders
  position,         \* the contract's position
  balance,          \* its free collateral
  pending,          \* the decision the market has not executed yet
  moves,            \* counter for the bound
  decisions         \* since the others last moved (for a property)

vars == <<longs, shorts, position, balance, pending, moves, decisions>>

NoPosition == [side |-> "none", collateral |-> 0]
Size(p) == p.collateral * Leverage
SizeOn(side, p) == IF p.side = side THEN Size(p) ELSE 0

Act(kind, side, amount) == [kind |-> kind, side |-> side, amount |-> amount]
Nothing == Act("none", "none", 0)
Failure(why) == Act(why, "none", 0)

Least(a, b) == IF a < b THEN a ELSE b
Most(a, b) == IF a > b THEN a ELSE b
Distance(a, b) == IF a < b THEN b - a ELSE a - b

------------------------------------------------------------------------------
(* Funding.                                                                *)

\* derive_popular_funding_rate_annual, and the market's own rate; it is only
\* zero when one side is empty or both are equal.
PopularRate(popular, unpopular) ==
  LET sum == popular + unpopular
      sensitivity == Most(Sensitivity, (RateCap * sum) \div HighCap)
      rate == (sensitivity * ((Distance(popular, unpopular) * One) \div sum)) \div One
  IN IF popular = 0 \/ unpopular = 0 \/ popular = unpopular THEN 0
     ELSE Most(1, Least(rate, RateCap))

AllLongs == longs + SizeOn("long", position)
AllShorts == shorts + SizeOn("short", position)
Funding == PopularRate(Most(AllLongs, AllShorts), Least(AllLongs, AllShorts))
Popular == IF AllLongs > AllShorts THEN "long" ELSE "short"
OneSided == (AllLongs = 0) # (AllShorts = 0)

------------------------------------------------------------------------------
(* The target size.                                                        *)

\* Mutant: takes everything below the target.
SearchStepBelow(acc, popular, unpopular) ==
  LET ratio == (acc.low + acc.high) \div 2
      desired == (ratio * popular) \div (One - ratio)
      rate == PopularRate(popular, desired)
  IN IF acc.found # "no" THEN acc
     ELSE IF desired = popular THEN [acc EXCEPT !.found = "panic"]
     ELSE IF desired < unpopular THEN [acc EXCEPT !.found = "yes", !.delta = 0]
     ELSE IF rate < TargetFunding + Epsilon
       THEN [acc EXCEPT !.found = "yes", !.delta = desired - unpopular]
     ELSE [acc EXCEPT !.low = ratio]

\* One iteration of smart_search.  The rate of a balanced market is not
\* positive, which the code asserts.
SearchStep(acc, popular, unpopular) ==
  LET ratio == (acc.low + acc.high) \div 2
      desired == (ratio * popular) \div (One - ratio)
      rate == PopularRate(popular, desired)
  IN IF acc.found # "no" THEN acc
     ELSE IF desired = popular THEN [acc EXCEPT !.found = "panic"]
     ELSE IF desired < unpopular THEN [acc EXCEPT !.found = "yes", !.delta = 0]
     ELSE IF Distance(rate, TargetFunding) < Epsilon
       THEN [acc EXCEPT !.found = "yes", !.delta = desired - unpopular]
     ELSE IF rate > TargetFunding THEN [acc EXCEPT !.low = ratio]
     ELSE [acc EXCEPT !.high = ratio]

\* smart_search: how much to add to the smaller side.  (Bound variables are
\* evaluated once: without them TLC takes exponential time.)
SmartSearch(popular, unpopular) ==
  IF popular = 0 /\ unpopular = 0
    THEN [low |-> 0, high |-> 0, found |-> "yes", delta |-> 0]
    ELSE FoldLeft(LAMBDA acc, i :
                    CHOOSE next \in {SearchStep(a, popular, unpopular) : a \in {acc}} : TRUE,
                  [low |-> (unpopular * One) \div (popular + unpopular),
                   high |-> One \div 2, found |-> "no", delta |-> 0],
                  [i \in 1..Iterations |-> i])

\* determine_target_notional: what to hold besides the other traders
Target == SmartSearch(Most(longs, shorts), Least(longs, shorts))
TargetSide == IF longs < shorts THEN "long" ELSE "short"

------------------------------------------------------------------------------
(* optimize_capital_efficiency and what compute_delta_notional does of it. *)

\* Mutant: the leverage is forgotten.
NewPositionUnlevered(size) ==
  LET deposit == Least(size, balance) IN
  IF size = 0 THEN Failure("panic")
  ELSE IF deposit < MinDeposit THEN Nothing
  ELSE Act("open", TargetSide, deposit)

NewPosition(size) ==
  LET deposit == Least(size \div Leverage, balance) IN
  IF size \div Leverage = 0 THEN Failure("panic")
  ELSE IF deposit < MinDeposit THEN Nothing
  ELSE Act("open", TargetSide, deposit)

Grow(wanted) ==
  LET add == Least(wanted - position.collateral, balance) IN
  IF 5 * CrankFee >= add THEN Nothing ELSE Act("add", position.side, add)

\* Mutant: neither the minimum deposit nor closing is thought of.
ShrinkAll(wanted) ==
  LET remove == position.collateral - wanted IN
  IF CrankFee > remove THEN Nothing ELSE Act("remove", position.side, remove)

Shrink(wanted) ==
  LET remove == position.collateral - wanted
      most == IF position.collateral - remove >= MinDeposit THEN remove
              ELSE Distance(position.collateral, MinDeposit)
  IN IF CrankFee > most THEN Nothing
     ELSE IF most >= position.collateral THEN Act("close", position.side, 0)
     ELSE Act("remove", position.side, most)

\* compute_delta_notional for the target
AdjustTo(target) ==
  LET wanted == target.delta \div Leverage IN
  CASE target.found = "panic" -> Failure("panic")
    [] target.found = "no" -> Failure("error")
    [] position = NoPosition -> NewPosition(target.delta)
    [] wanted > position.collateral -> Grow(wanted)
    [] wanted = position.collateral -> Nothing
    [] OTHER -> Shrink(wanted)

Adjust == CHOOSE act \in {AdjustTo(target) : target \in {Target}} : TRUE

------------------------------------------------------------------------------
(* get_work_for and desired_action.                                        *)

\* Is our side the popular one, or nobody pays?
OnPopularSide == position.side = Popular \/ Funding = 0

\* Closing would not make our side the unpopular one, or little is left.
LeavePopularSide ==
  LET diff == Distance(AllLongs, AllShorts) IN
  Size(position) < diff \/ position.collateral <= MinDeposit

BelowBand ==
  IF position = NoPosition THEN IF OneSided THEN Adjust ELSE Nothing
  ELSE IF Size(position) = Least(AllLongs, AllShorts) THEN Nothing
  ELSE Act("close", position.side, 0)

\* A position that is about as large as what is left is kept.
AboveBand ==
  IF position # NoPosition /\ 2 * Distance(position.collateral, balance) < balance
    THEN Nothing ELSE Adjust

DesiredAction ==
  CASE Funding = 0 /\ ~OneSided -> Nothing
    [] OTHER -> IF Funding < MinFunding THEN BelowBand
                ELSE IF Funding > MaxFunding THEN AboveBand
                ELSE Nothing

Work ==
  IF balance = 0 THEN Nothing
  ELSE IF position # NoPosition /\ OnPopularSide
    THEN IF LeavePopularSide THEN Act("close", position.side, 0) ELSE Adjust
  ELSE IF balance < MinDeposit THEN Nothing
  ELSE DesiredAction

------------------------------------------------------------------------------
Init ==
  /\ longs \in Longs /\ shorts \in Shorts
  /\ position = NoPosition /\ balance \in Balances
  /\ pending = Nothing /\ moves = 0 /\ decisions = 0

OthersTrade(l, s) ==
  /\ moves < MaxMoves
  /\ moves' = moves + 1 /\ decisions' = 0
  /\ longs' = l /\ shorts' = s
  /\ UNCHANGED <<position, balance, pending>>

Cost(a) == CASE a.kind \in {"open", "add"} -> a.amount
             [] a.kind = "remove" -> CrankFee
             [] OTHER -> 0

WorkKinds == {"open", "add", "remove", "close"}

DoWork ==
  /\ pending = Nothing
  /\ Work.kind \in WorkKinds
  /\ Cost(Work) <= balance
  /\ pending' = Work
  /\ balance' = balance - Cost(Work)
  /\ decisions' = decisions + 1
  /\ UNCHANGED <<longs, shorts, position, moves>>

\* What the market makes of it; it takes its crank fee from a deposit.
Executed(a) ==
  CASE a.kind = "open" -> [side |-> a.side, collateral |-> a.amount - CrankFee]
    [] a.kind = "add" -> [position EXCEPT !.collateral = @ + a.amount - CrankFee]
    [] a.kind = "remove" -> [position EXCEPT !.collateral = @ - a.amount]
    [] OTHER -> NoPosition

MarketExecutes ==
  /\ pending # Nothing
  /\ position' = Executed(pending)
  /\ balance' = balance + (CASE pending.kind = "remove" -> pending.amount
                             [] pending.kind = "close" -> position.collateral
                             [] OTHER -> 0)
  /\ pending' = Nothing
  /\ UNCHANGED <<longs, shorts, moves, decisions>>

Next ==
  \/ \E l \in Longs, s \in Shorts : OthersTrade(l, s)
  \/ DoWork
  \/ MarketExecutes

Spec == Init /\ [][Next]_vars

------------------------------------------------------------------------------
(* Properties.                                                             *)

\* The stored state has its type, and no position is left without collateral.
TypeOK ==
  /\ position \in [side : {"none", "long", "short"}, collateral : Nat]
  /\ position.side = "none" <=> position.collateral = 0
  /\ balance \in Nat /\ pending.amount \in Nat

\* A position is opened or grown up to what balances the market, and not
\* beyond: by its own decision the contract never ends on the popular side,
\* where it would pay the funding it is there to earn (README.md).
NoOvershootStep ==
   pending' # pending /\ pending'.kind \in {"open", "add"} =>
     LET mine == Size([position EXCEPT !.collateral = @ + pending'.amount]) IN
     IF pending'.side = "long" THEN longs + mine <= shorts
                               ELSE shorts + mine <= longs 
NoOvershoot == [][NoOvershootStep]_vars

\* While the others stand still the contract leaves a bad position and opens
\* the right one, or adjusts the one it has, and is done: it does not open and
\* close, or add and remove, until fees have eaten the deposits (work.rs:692).
FewDecisions == decisions <= 2

\* The assertions of the search hold (work.rs:577: "unpopular.is_negative()").
NoPanic == Work.kind # "panic"

\* Whoever searches wants more on the unpopular side, so there is a size to be
\* found (work.rs:460: "we know we want to increase the unpopular side
\* positions").
SearchConverges == Work.kind # "error"

==============================================================================

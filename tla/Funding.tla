------------------------------- MODULE Funding --------------------------------
(***************************************************************************)
(* Funding payments.  When the crank has worked off a price point it       *)
(* appends the funding rates of both sides, as they follow from the open   *)
(* interest, to a series with prefix sums.  A position pays or receives    *)
(* for the time since it was last settled, when it is liquifunded,         *)
(* updated or closed.                                                      *)
(*                                                                         *)
(* Sides do not settle together, and the open interest changes between the *)
(* rates: what is paid out may run ahead of what comes in.  Payments are   *)
(* therefore capped by the position's margin and by all margins together.  *)
(*                                                                         *)
(* The price is one and does not move; the other fees are left out.        *)
(***************************************************************************)
EXTENDS Integers, FiniteSets, FiniteSetsExt, FiniteSums

CONSTANTS
  Ids,              \* positions
  One,              \* rates are in parts of One
  Sizes,            \* notional a position may have; shorts have negative ones
  Deposits,         \* collateral it may have
  Sensitivity, RateCap,     \* funding rate config
  HighCap,          \* delta_neutrality_fee_sensitivity * delta_neutrality_fee_cap
  Delay,            \* liquifunding_delay_seconds
  Steps,            \* time between price points
  MaxTime           \* bound: time

ASSUME FundingConstants ==
  /\ IsFiniteSet(Ids)
  /\ One \in Nat \ {0} /\ Sizes \subseteq Int \ {0} /\ Deposits \subseteq Nat
  /\ Sensitivity \in Nat /\ RateCap \in Nat /\ HighCap \in Nat \ {0}
  /\ Delay \in Nat \ {0}
  /\ Steps \subseteq Nat \ {0} /\ MaxTime \in Nat

VARIABLES
  now,              \* timestamp of the price point that is worked on
  completed,        \* LAST_CRANK_COMPLETED
  series,           \* FUNDING_RATE_LONG, FUNDING_RATE_SHORT
  pos,              \* OPEN_POSITIONS
  totalPaid,        \* TOTAL_NET_FUNDING_PAID
  totalMargin,      \* TOTAL_FUNDING_MARGIN
  held,             \* collateral the market holds for traders (external)
  rates,            \* the rates that applied at every time (for properties)
  shortfall         \* a payer's own margin did not suffice (for a property)

vars == <<now, completed, series, pos, totalPaid, totalMargin, held, rates, shortfall>>

Sides == {"long", "short"}
None == [size |-> 0, active |-> 0, margin |-> 0, at |-> 0, next |-> 0]
Open == {p \in Ids : pos[p] # None}

Smaller(a, b) == IF a < b THEN a ELSE b
Larger(a, b) == IF a > b THEN a ELSE b
Abs(x) == IF x < 0 THEN -x ELSE x
Side(size) == IF size > 0 THEN "long" ELSE "short"

\* Division of Decimal256 and of Number: towards zero.
Quot(a, b) == IF a < 0 THEN -((-a) \div b) ELSE a \div b

------------------------------------------------------------------------------
(* DataSeries.                                                             *)

\* Mutant: the value that is appended counts for the time before it.
AppendNewValue(s, t, values) ==
  LET last == Max(DOMAIN s)
      sum == [d \in Sides |-> s[last].sum[d] + values[d] * (t - last)]
  IN [u \in DOMAIN s \cup {t} |->
        IF u # t THEN s[u]
        ELSE [sum |-> IF DOMAIN s = {} THEN [d \in Sides |-> 0] ELSE sum, value |-> values]]

\* append: a point at the same time is overwritten.
AppendPoint(s, t, values) ==
  LET last == Max(DOMAIN s)
      sum == [d \in Sides |-> s[last].sum[d] + s[last].value[d] * (t - last)]
  IN [u \in DOMAIN s \cup {t} |->
        IF u # t THEN s[u]
        ELSE [sum |-> IF DOMAIN s = {} THEN [d \in Sides |-> 0] ELSE sum, value |-> values]]

At(s, d, t) ==
  LET u == Max({v \in DOMAIN s : v <= t}) IN s[u].sum[d] + s[u].value[d] * (t - u)

\* sum: zero when there is no point to start from.
SumOf(s, d, start, end) ==
  IF \E u \in DOMAIN s : u <= start THEN At(s, d, end) - At(s, d, start) ELSE 0

------------------------------------------------------------------------------
(* Rates.                                                                  *)

Interest(side) ==
  MapThenSumSet(LAMBDA p : IF Side(pos[p].size) = side THEN Abs(pos[p].size) ELSE 0, Open)

\* The configured sensitivity, or the one at which the rate is at its cap when
\* the net interest is at the cap of the delta neutrality fee.
EffectiveSensitivity(total) == Larger(Sensitivity, (RateCap * total) \div HighCap)

\* derive_instant_funding_rate_annual
Rates ==
  LET long == Interest("long")
      short == Interest("short")
      effective == EffectiveSensitivity(long + short)
      popular == Smaller(
        (effective * ((Abs(long - short) * One) \div (long + short))) \div One, RateCap)
      unpopular == (popular * ((Larger(long, short) * One) \div Smaller(long, short))) \div One
  IN [d \in Sides |->
        IF long = 0 \/ short = 0 \/ long = short THEN 0
        ELSE IF (d = "long") = (long > short) THEN popular ELSE -unpopular]

------------------------------------------------------------------------------
(* Settlement.                                                             *)

\* liquidation_margin
MarginOf(size) == (RateCap * Delay * Abs(size)) \div One

\* calculate_funding_payment, calc_capped_funding_payment
Owed(p, end) ==
  Quot(SumOf(series, Side(pos[p].size), pos[p].at, end) * Abs(pos[p].size), One)
OwedCapped(p, end) == Smaller(Owed(p, end), pos[p].margin)

\* Mutant: the position's own margin is taken for available.
AggregateCapOwn(paid, margin, amount, own) ==
  Smaller(Larger(amount, -(margin + paid)), own)

\* aggregate_capping: without this position's margin the others' must suffice.
AggregateCap(paid, margin, amount, own) ==
  Smaller(Larger(amount, -(margin - own + paid)), own)

Payment(p, end) ==
  AggregateCap(totalPaid, totalMargin, OwedCapped(p, end), pos[p].margin)

\* PositionFeeSettlement
Settle(p, end) ==
  /\ totalPaid' = totalPaid + Payment(p, end)
  /\ shortfall' = (shortfall \/ Owed(p, end) > pos[p].margin)

SettledActive(p, end) == pos[p].active - Payment(p, end)

\* Mutant: the margin stays in the total.
SaveOver(p, new) ==
  /\ pos' = [pos EXCEPT ![p] = new]
  /\ totalMargin' = totalMargin + new.margin

\* position_save, or position_remove for None
Save(p, new) ==
  /\ pos' = [pos EXCEPT ![p] = new]
  /\ totalMargin' = totalMargin - pos[p].margin + new.margin

------------------------------------------------------------------------------
Init ==
  /\ now = 0 /\ completed = -1
  /\ series = [t \in {} |-> None]
  /\ pos = [p \in Ids |-> None]
  /\ totalPaid = 0 /\ totalMargin = 0 /\ held = 0
  /\ rates = [t \in {} |-> None] /\ shortfall = FALSE

\* The crank works off what is due before anything else.
NothingDue == \A p \in Open : pos[p].next >= now

\* A price point; the one before it has been worked off.
NewPrice(dt) ==
  /\ completed = now /\ now + dt <= MaxTime
  /\ now' = now + dt
  /\ rates' = [t \in 0 .. now + dt - 1 |->
                 IF t < now THEN rates[t] ELSE series[now].value]
  /\ UNCHANGED <<completed, series, pos, totalPaid, totalMargin, held, shortfall>>

Completed ==
  /\ completed # now /\ NothingDue
  /\ series' = AppendPoint(series, now, Rates)
  /\ completed' = now
  /\ UNCHANGED <<now, pos, totalPaid, totalMargin, held, rates, shortfall>>

OpenPosition(p, size, deposit) ==
  /\ completed # now /\ NothingDue
  /\ pos[p] = None
  /\ deposit > MarginOf(size)
  /\ Save(p, [size |-> size, active |-> deposit, margin |-> MarginOf(size),
              at |-> now, next |-> now + Delay])
  /\ held' = held + deposit
  /\ UNCHANGED <<now, completed, series, totalPaid, rates, shortfall>>

\* Mutant: pays out what the position had before the settlement.
CloseUnsettled(p, end) ==
  /\ Settle(p, end)
  /\ Save(p, None)
  /\ held' = held - pos[p].active

\* The rest of the collateral goes to the trader.
Close(p, end) ==
  /\ Settle(p, end)
  /\ Save(p, None)
  /\ held' = held - Larger(SettledActive(p, end), 0)

ClosePosition(p) ==
  /\ completed # now /\ NothingDue
  /\ p \in Open
  /\ Close(p, now)
  /\ UNCHANGED <<now, completed, series, rates>>

\* Mutant: the time of the settlement is the time of the price point.
LiquifundingNow(p) ==
  LET active == SettledActive(p, now) IN
  /\ p \in Open /\ pos[p].next <= now /\ completed # now
  /\ \/ active <= pos[p].margin /\ Close(p, now)
     \/ /\ active > pos[p].margin
        /\ Settle(p, now)
        /\ Save(p, [pos[p] EXCEPT !.active = active, !.at = now, !.next = now + Delay])
        /\ UNCHANGED held
  /\ UNCHANGED <<now, completed, series, rates>>

\* Mutant: the position stays open whatever is left.
LiquifundingAnyway(p) ==
  LET end == pos[p].next IN
  /\ p \in Open /\ end <= now /\ completed # now
  /\ Settle(p, end)
  /\ Save(p, [pos[p] EXCEPT !.active = SettledActive(p, end), !.at = end, !.next = end + Delay])
  /\ UNCHANGED <<now, completed, series, held, rates>>

\* Liquifunding up to the time it was due; without enough left for another
\* period the position is liquidated.
Liquifunding(p) ==
  LET end == pos[p].next
      active == SettledActive(p, end)
  IN
  /\ p \in Open /\ end <= now /\ completed # now
  /\ \/ active <= pos[p].margin /\ Close(p, end)
     \/ /\ active > pos[p].margin
        /\ Settle(p, end)
        /\ Save(p, [pos[p] EXCEPT !.active = active, !.at = end, !.next = end + Delay])
        /\ UNCHANGED held
  /\ UNCHANGED <<now, completed, series, rates>>

\* An update of the position: settle up to now, then a new size and margin.
UpdatePosition(p, size) ==
  LET active == SettledActive(p, now) IN
  /\ completed # now /\ NothingDue
  /\ p \in Open /\ Side(size) = Side(pos[p].size)
  /\ active > pos[p].margin /\ active > MarginOf(size)
  /\ Settle(p, now)
  /\ Save(p, [size |-> size, active |-> active, margin |-> MarginOf(size),
              at |-> now, next |-> now + Delay])
  /\ UNCHANGED <<now, completed, series, held, rates>>

Next ==
  \/ \E dt \in Steps : NewPrice(dt)
  \/ Completed
  \/ \E p \in Ids, size \in Sizes, deposit \in Deposits : OpenPosition(p, size, deposit)
  \/ \E p \in Ids : ClosePosition(p) \/ Liquifunding(p)
  \/ \E p \in Ids, size \in Sizes : UpdatePosition(p, size)

Spec == Init /\ [][Next]_vars

------------------------------------------------------------------------------
(* Properties.                                                             *)

\* What all positions have set aside, and what the rates of a side add up to.
MarginsOf(q) == MapThenSumSet(LAMBDA p : q[p].margin, Ids)
RateSum(r, d, times) == MapThenSumSet(LAMBDA t : r[t][d], times)

\* The stored state has its type, and a position can always pay its margin.
TypeOK ==
  /\ now \in 0..MaxTime /\ completed \in {-1} \cup 0..MaxTime
  /\ totalPaid \in Int /\ totalMargin \in Int
  /\ \A p \in Open : pos[p].active >= pos[p].margin

\* The payments the market made in advance are covered by the margins of the
\* positions that are open (funding.rs:37: "We need to enforce the invariant
\* that total_margin + total_paid >= 0").
AdvancesCovered == totalMargin + totalPaid >= 0

\* The total is what the open positions have set aside (sanity.rs:387).
MarginTracked == totalMargin = MarginsOf(pos)

\* However sides settle and positions close, the market never pays a trader
\* with collateral it does not hold for traders.
TradersPaidFromTraders == held >= 0

\* The prefix sums give what the rates add up to, second for second, between
\* any two times, also where a slice of a position starts or ends between two
\* points (data_series.rs:66).
SumIsIntegral ==
  \A d \in Sides, start, end \in 0..now :
    start <= end => SumOf(series, d, start, end) = RateSum(rates, d, start .. end - 1)

\* The margin covers the highest rate until the next liquifunding: no payment
\* is cut because a position settles too late (funding.rs:442).
MarginSuffices == ~shortfall

\* Funding that is owed is covered by the margins of those who owe it, whoever
\* settles first; margins and series are tracked exactly, traders are paid by
\* traders, and no payment exceeds its margin.
FundingBacked ==
  /\ TypeOK
  /\ AdvancesCovered
  /\ MarginTracked
  /\ TradersPaidFromTraders
  /\ SumIsIntegral
  /\ MarginSuffices

------------------------------------------------------------------------------
(* The inductive invariant.                                                *)

Records == [size : Int, active : Int, margin : Int, at : Int, next : Int]

\* An open position has more than its margin left, and its next liquifunding
\* is at most the delay after the last settlement, which is in the past.
PositionOK(r) ==
  /\ r.size \in Sizes /\ r.margin = MarginOf(r.size) /\ r.active > r.margin
  /\ r.at \in 0..now /\ r.next = r.at + Delay

PositionsInv ==
  /\ now \in 0..MaxTime /\ completed \in {-1} \cup 0..MaxTime
  /\ pos \in [Ids -> Records]
  /\ \A p \in Ids : pos[p] = None \/ PositionOK(pos[p])

\* The points of the series have the sums of the rates before them, and the
\* rates between two points are those of the earlier one.
SeriesInv ==
  /\ now \in Nat
  /\ DOMAIN series \subseteq 0..now
  /\ \A t \in DOMAIN series, d \in Sides :
       /\ series[t].value[d] \in Int /\ series[t].value[d] <= RateCap
       /\ series[t].sum[d] = RateSum(rates, d, 0 .. t - 1)
  /\ \/ completed = -1 /\ now = 0 /\ DOMAIN series = {}
     \/ /\ 0 \in DOMAIN series /\ completed \in DOMAIN series
        /\ \A t \in DOMAIN series : t <= completed
  /\ \A t \in 0 .. now - 1, d \in Sides : rates[t][d] \in Int /\ rates[t][d] <= RateCap
  /\ \A t \in DOMAIN series : \A u \in t .. now - 1 :
       (\A v \in DOMAIN series : v <= u => v <= t) => rates[u] = series[t].value

\* What the market holds for traders is what their positions have left and
\* what the market has been paid in advance.
BooksInv ==
  /\ totalPaid \in Int /\ totalMargin \in Int /\ held \in Int
  /\ MarginTracked /\ AdvancesCovered
  /\ held = Total([p \in Ids |-> pos[p].active], Ids) + totalPaid

FundingInv == PositionsInv /\ SeriesInv /\ BooksInv /\ MarginSuffices

------------------------------------------------------------------------------
(* Sums of rates and of margins.                                           *)

RatesIn(r, d, times) == [t \in times |-> r[t][d]]

LEMMA RateSumIsTotal ==
  ASSUME NEW r, NEW d, NEW S, IsFiniteSet(S)
  PROVE  RateSum(r, d, S) = Total(RatesIn(r, d, S), S)
<1> DEFINE ValueSums(h) ==
      h = [s \in SUBSET S |->
             IF s = {} THEN 0
             ELSE LET x == CHOOSE x \in s : TRUE IN r[x][d] + h[s \ {x}]]
<1>1. RateSum(r, d, S) = (CHOOSE h : ValueSums(h))[S]
  BY DEF RateSum, MapThenSumSet, MapThenFoldSet
<1>2. ASSUME NEW h PROVE ValueSums(h) <=> Sums(h, RatesIn(r, d, S), S)
  <2>1. \A s \in SUBSET S : s # {} => (CHOOSE x \in s : TRUE) \in S
    OBVIOUS
  <2>2. \A s \in SUBSET S : s # {} =>
          RatesIn(r, d, S)[CHOOSE x \in s : TRUE] = r[CHOOSE x \in s : TRUE][d]
    BY <2>1 DEF RatesIn
  <2> QED BY <2>2 DEF Sums
<1> HIDE DEF ValueSums
<1>3. PICK g : Sums(g, RatesIn(r, d, S), S) /\ Total(RatesIn(r, d, S), S) = g[S]
  BY SumsExist, TotalDef
<1>4. ValueSums(CHOOSE h : ValueSums(h))
  BY <1>2, <1>3
<1>5. Sums(CHOOSE h : ValueSums(h), RatesIn(r, d, S), S)
  BY <1>2, <1>4
<1>6. (CHOOSE h : ValueSums(h))[S] = g[S]
  BY <1>3, <1>5, SumsAgree
<1> QED BY <1>1, <1>3, <1>6

\* It depends on the rates in S only.
LEMMA RateSumSame ==
  ASSUME NEW r, NEW q, NEW d, NEW S, IsFiniteSet(S), \A t \in S : r[t][d] = q[t][d]
  PROVE  RateSum(r, d, S) = RateSum(q, d, S)
<1>1. RatesIn(r, d, S) = RatesIn(q, d, S)
  BY DEF RatesIn
<1> QED BY <1>1, RateSumIsTotal

\* The times from a on that are before b.
LEMMA TimesBetween ==
  ASSUME NEW a \in Int, NEW b \in Int, a <= b
  PROVE  IsFiniteSet(a .. b - 1) /\ Cardinality(a .. b - 1) = b - a
<1>1. b - 1 \in Int /\ (a > b - 1 <=> b - a = 0) /\ (b - 1) - a + 1 = b - a
  OBVIOUS
<1> QED BY <1>1, FS_Interval

\* The sum of the rates up to b and of those from b on.
LEMMA RateSumSplit ==
  ASSUME NEW r, NEW d, NEW a \in Int, NEW b \in Int, NEW c \in Int, a <= b, b <= c,
         \A t \in a .. c - 1 : r[t][d] \in Int
  PROVE  /\ RateSum(r, d, a .. b - 1) \in Int /\ RateSum(r, d, b .. c - 1) \in Int
         /\ RateSum(r, d, a .. c - 1)
              = RateSum(r, d, a .. b - 1) + RateSum(r, d, b .. c - 1)
<1> DEFINE S == a .. b - 1
           T == b .. c - 1
           f == RatesIn(r, d, a .. c - 1)
<1>0. a <= c
  OBVIOUS
<1>1. IsFiniteSet(S) /\ IsFiniteSet(T) /\ IsFiniteSet(a .. c - 1)
  BY <1>0, TimesBetween
<1>2. S \cap T = {} /\ S \cup T = a .. c - 1
  OBVIOUS
<1>3. \A t \in S \cup T : f[t] \in Int
  BY <1>2 DEF RatesIn
<1>4. RateSum(r, d, a .. c - 1) = Total(f, a .. c - 1)
  BY <1>1, RateSumIsTotal
<1>5. \A t \in S : f[t] = RatesIn(r, d, S)[t]
  BY <1>2 DEF RatesIn
<1>6. \A t \in T : f[t] = RatesIn(r, d, T)[t]
  BY <1>2 DEF RatesIn
<1>7. RateSum(r, d, S) = Total(f, S)
  <2> HIDE DEF f, S
  <2> QED BY <1>1, <1>5, RateSumIsTotal, TotalSame
<1>8. RateSum(r, d, T) = Total(f, T)
  <2> HIDE DEF f, T
  <2> QED BY <1>1, <1>6, RateSumIsTotal, TotalSame
<1>9. Total(f, S \cup T) = Total(f, S) + Total(f, T)
  <2> HIDE DEF f, S, T
  <2> QED BY <1>1, <1>2, <1>3, TotalUnion
<1>10. Total(f, S) \in Int
  <2> HIDE DEF f, S, T
  <2> QED BY <1>1, <1>3, TotalInt
<1>11. Total(f, T) \in Int
  <2> HIDE DEF f, S, T
  <2> QED BY <1>1, <1>3, TotalInt
<1> QED BY <1>2, <1>4, <1>7, <1>8, <1>9, <1>10, <1>11

\* Rates within a limit add up to at most the limit for every second.
LEMMA RateSumAtMost ==
  ASSUME NEW r, NEW d, NEW a \in Int, NEW b \in Int, a <= b, NEW v \in Int,
         \A t \in a .. b - 1 : r[t][d] \in Int /\ r[t][d] <= v
  PROVE  RateSum(r, d, a .. b - 1) <= v * (b - a)
<1> DEFINE S == a .. b - 1
           f == RatesIn(r, d, S)
<1>1. IsFiniteSet(S) /\ Cardinality(S) = b - a
  BY TimesBetween
<1>2. \A t \in S : f[t] \in Int /\ f[t] <= v
  BY DEF RatesIn
<1>3. RateSum(r, d, S) = Total(f, S)
  BY <1>1, RateSumIsTotal
<1>4. Total(f, S) <= v * Cardinality(S)
  <2> HIDE DEF S, f
  <2> QED BY <1>1, <1>2, TotalAtMost
<1> HIDE DEF f
<1> QED BY <1>1, <1>3, <1>4

\* The same rate for every second.
LEMMA RateSumConstant ==
  ASSUME NEW r, NEW d, NEW a \in Int, NEW b \in Int, a <= b, NEW v \in Int,
         \A t \in a .. b - 1 : r[t][d] \in Int /\ r[t][d] = v
  PROVE  RateSum(r, d, a .. b - 1) = v * (b - a)
<1> DEFINE S == a .. b - 1
           f == RatesIn(r, d, S)
<1>1. IsFiniteSet(S) /\ Cardinality(S) = b - a
  BY TimesBetween
<1>2. \A t \in S : f[t] \in Int /\ f[t] = v
  BY DEF RatesIn
<1>3. RateSum(r, d, S) = Total(f, S)
  BY <1>1, RateSumIsTotal
<1>4. Total(f, S) = v * Cardinality(S)
  <2> HIDE DEF S, f
  <2> QED BY <1>1, <1>2, TotalConstant
<1> HIDE DEF f
<1> QED BY <1>1, <1>3, <1>4

MarginAt(q) == [p \in Ids |-> q[p].margin]

LEMMA MarginsIsTotal ==
  ASSUME NEW q
  PROVE  MarginsOf(q) = Total(MarginAt(q), Ids)
<1> DEFINE MarginSums(h) ==
      h = [s \in SUBSET Ids |->
             IF s = {} THEN 0
             ELSE LET x == CHOOSE x \in s : TRUE IN q[x].margin + h[s \ {x}]]
<1>0. IsFiniteSet(Ids)
  BY FundingConstants
<1>1. MarginsOf(q) = (CHOOSE h : MarginSums(h))[Ids]
  BY DEF MarginsOf, MapThenSumSet, MapThenFoldSet
<1>2. ASSUME NEW h PROVE MarginSums(h) <=> Sums(h, MarginAt(q), Ids)
  <2>1. \A s \in SUBSET Ids : s # {} => (CHOOSE x \in s : TRUE) \in Ids
    OBVIOUS
  <2>2. \A s \in SUBSET Ids : s # {} =>
          MarginAt(q)[CHOOSE x \in s : TRUE] = q[CHOOSE x \in s : TRUE].margin
    BY <2>1 DEF MarginAt
  <2> QED BY <2>2 DEF Sums
<1> HIDE DEF MarginSums
<1>3. PICK g : Sums(g, MarginAt(q), Ids) /\ Total(MarginAt(q), Ids) = g[Ids]
  BY <1>0, SumsExist, TotalDef
<1>4. MarginSums(CHOOSE h : MarginSums(h))
  BY <1>2, <1>3
<1>5. Sums(CHOOSE h : MarginSums(h), MarginAt(q), Ids)
  BY <1>2, <1>4
<1>6. (CHOOSE h : MarginSums(h))[Ids] = g[Ids]
  BY <1>0, <1>3, <1>5, SumsAgree
<1> QED BY <1>1, <1>3, <1>6

ActiveAt(q) == [p \in Ids |-> q[p].active]

\* One position changes: so do the sums, by what it has more or less.
LEMMA SumsChange ==
  ASSUME NEW q \in [Ids -> Records], NEW p \in Ids, NEW new \in Records,
         NEW z \in [Ids -> Records], z[p] = new, \A i \in Ids : i # p => z[i] = q[i]
  PROVE  /\ MarginsOf(q) \in Int
         /\ MarginsOf(z) = MarginsOf(q) - q[p].margin + new.margin
         /\ Total(ActiveAt(q), Ids) \in Int
         /\ Total(ActiveAt(z), Ids) = Total(ActiveAt(q), Ids) - q[p].active + new.active
<1>1. \A i \in Ids : /\ q[i] \in Records /\ z[i] \in Records
                     /\ q[i].margin \in Int /\ z[i].margin \in Int
                     /\ q[i].active \in Int /\ z[i].active \in Int
  <2>1. \A i \in Ids : q[i] \in Records /\ z[i] \in Records
    OBVIOUS
  <2>2. \A i \in Records : i.margin \in Int /\ i.active \in Int
    BY DEF Records
  <2> QED BY <2>1, <2>2
<1>2. IsFiniteSet(Ids)
  BY FundingConstants
<1>3. /\ \A i \in Ids : MarginAt(q)[i] = q[i].margin /\ MarginAt(z)[i] = z[i].margin
      /\ \A i \in Ids : ActiveAt(q)[i] = q[i].active /\ ActiveAt(z)[i] = z[i].active
  BY DEF MarginAt, ActiveAt
<1>4. /\ Total(MarginAt(q), Ids) \in Int
      /\ Total(MarginAt(z), Ids) = Total(MarginAt(q), Ids) - MarginAt(q)[p] + MarginAt(z)[p]
  <2>1. \A i \in Ids : MarginAt(q)[i] \in Int /\ MarginAt(z)[i] \in Int
    BY <1>1, <1>3
  <2>2. \A i \in Ids : i # p => MarginAt(z)[i] = MarginAt(q)[i]
    BY <1>3
  <2> QED BY <1>2, <2>1, <2>2, TotalChange
<1>5. /\ Total(ActiveAt(q), Ids) \in Int
      /\ Total(ActiveAt(z), Ids) = Total(ActiveAt(q), Ids) - ActiveAt(q)[p] + ActiveAt(z)[p]
  <2>1. \A i \in Ids : ActiveAt(q)[i] \in Int /\ ActiveAt(z)[i] \in Int
    BY <1>1, <1>3
  <2>2. \A i \in Ids : i # p => ActiveAt(z)[i] = ActiveAt(q)[i]
    BY <1>3
  <2> QED BY <1>2, <2>1, <2>2, TotalChange
<1> QED BY <1>3, <1>4, <1>5, MarginsIsTotal, Zenon

------------------------------------------------------------------------------
(* Rates and margins are numbers, rates at most the cap.                   *)

LEMMA ConstantsAre ==
  /\ IsFiniteSet(Ids) /\ One \in Nat /\ One > 0 /\ RateCap \in Nat /\ Sensitivity \in Nat
  /\ HighCap \in Nat /\ HighCap > 0 /\ Delay \in Nat /\ Delay > 0 /\ MaxTime \in Nat
  /\ \A size \in Sizes : size \in Int /\ size # 0
  /\ \A deposit \in Deposits : deposit \in Nat
  /\ \A dt \in Steps : dt \in Nat /\ dt > 0
BY FundingConstants

\* Products and quotients of natural numbers.
LEMMA NatProduct ==
  ASSUME NEW a \in Nat, NEW b \in Nat
  PROVE  a * b \in Nat
OBVIOUS

LEMMA NatQuotient ==
  ASSUME NEW a \in Nat, NEW b \in Nat, b > 0
  PROVE  a \div b \in Nat
OBVIOUS

LEMMA QuotientMonotone ==
  ASSUME NEW a \in Int, NEW b \in Int, NEW c \in Nat, c > 0, a <= b
  PROVE  a \div c <= b \div c
OBVIOUS

LEMMA ProductMonotone ==
  ASSUME NEW a \in Int, NEW b \in Int, NEW c \in Nat, a <= b
  PROVE  a * c <= b * c
OBVIOUS

LEMMA MarginType ==
  ASSUME NEW size \in Int
  PROVE  /\ MarginOf(size) \in Nat /\ Abs(size) \in Nat
         /\ RateCap * Delay \in Nat /\ (RateCap * Delay) * Abs(size) \in Nat
<1>1. Abs(size) \in Nat
  BY DEF Abs
<1>2. RateCap * Delay \in Nat
  BY ConstantsAre, NatProduct
<1>3. (RateCap * Delay) * Abs(size) \in Nat
  BY <1>1, <1>2, NatProduct
<1> QED BY <1>1, <1>2, <1>3, ConstantsAre, NatQuotient DEF MarginOf

\* What is open on a side is an amount.
LEMMA InterestType ==
  ASSUME pos \in [Ids -> Records], NEW side
  PROVE  Interest(side) \in Nat
<1> DEFINE part(p) == IF Side(pos[p].size) = side THEN Abs(pos[p].size) ELSE 0
           f == [p \in Open |-> part(p)]
           PartSums(h) ==
             h = [s \in SUBSET Open |->
                    IF s = {} THEN 0
                    ELSE LET x == CHOOSE x \in s : TRUE IN part(x) + h[s \ {x}]]
<1>0. IsFiniteSet(Open)
  BY ConstantsAre, FS_Subset, Open \subseteq Ids DEF Open
<1>1. Interest(side) = (CHOOSE h : PartSums(h))[Open]
  BY DEF Interest, MapThenSumSet, MapThenFoldSet
<1>2. ASSUME NEW h PROVE PartSums(h) <=> Sums(h, f, Open)
  <2>1. \A s \in SUBSET Open : s # {} => (CHOOSE x \in s : TRUE) \in Open
    OBVIOUS
  <2>2. \A s \in SUBSET Open : s # {} =>
          f[CHOOSE x \in s : TRUE] = part(CHOOSE x \in s : TRUE)
    BY <2>1
  <2> HIDE DEF f
  <2> QED BY <2>2 DEF Sums
<1>3. \A p \in Open : f[p] \in Nat
  <2>1. ASSUME NEW p \in Open PROVE f[p] \in Nat
    <3>1. pos[p].size \in Int
      BY DEF Open, Records
    <3>2. Abs(pos[p].size) \in Nat
      BY <3>1, MarginType
    <3> QED BY <3>2
  <2> QED BY <2>1
<1> HIDE DEF PartSums, f
<1>4. PICK g : Sums(g, f, Open) /\ Total(f, Open) = g[Open]
  BY <1>0, SumsExist, TotalDef
<1>5. PartSums(CHOOSE h : PartSums(h))
  BY <1>2, <1>4
<1>6. Sums(CHOOSE h : PartSums(h), f, Open)
  BY <1>2, <1>5
<1>7. (CHOOSE h : PartSums(h))[Open] = g[Open]
  BY <1>0, <1>4, <1>6, SumsAgree
<1>8. Total(f, Open) \in Nat
  BY <1>0, <1>3, TotalType
<1> QED BY <1>1, <1>4, <1>7, <1>8

\* The popular side pays at most the cap, the other one receives.
LEMMA RatesWithin ==
  ASSUME pos \in [Ids -> Records], NEW d \in Sides
  PROVE  Rates[d] \in Int /\ Rates[d] <= RateCap
<1> DEFINE long == Interest("long")
           short == Interest("short")
           skew == (Abs(long - short) * One) \div (long + short)
           ratio == (Larger(long, short) * One) \div Smaller(long, short)
           effective == EffectiveSensitivity(long + short)
           popular == Smaller((effective * skew) \div One, RateCap)
           unpopular == (popular * ratio) \div One
<1>1. long \in Nat /\ short \in Nat
  BY InterestType
<1> HIDE DEF long, short
<1>2. CASE long = 0 \/ short = 0 \/ long = short
  <2>1. Rates[d] = 0
    BY <1>2 DEF Rates, long, short
  <2> QED BY <2>1, ConstantsAre
<1>3. CASE ~(long = 0 \/ short = 0 \/ long = short)
  <2>1. /\ Abs(long - short) \in Nat /\ long + short \in Nat /\ long + short > 0
        /\ Larger(long, short) \in Nat
        /\ Smaller(long, short) \in Nat /\ Smaller(long, short) > 0
    BY <1>1, <1>3 DEF Abs, Larger, Smaller
  <2>2. skew \in Nat
    <3>1. Abs(long - short) * One \in Nat
      BY <2>1, ConstantsAre, NatProduct
    <3> QED BY <2>1, <3>1, NatQuotient
  <2>3. ratio \in Nat
    <3>1. Larger(long, short) * One \in Nat
      BY <2>1, ConstantsAre, NatProduct
    <3> QED BY <2>1, <3>1, NatQuotient
  <2>4. effective \in Nat
    <3>1. RateCap * (long + short) \in Nat
      BY <2>1, ConstantsAre, NatProduct
    <3>2. (RateCap * (long + short)) \div HighCap \in Nat
      BY <3>1, ConstantsAre, NatQuotient
    <3> QED BY <3>2, ConstantsAre DEF EffectiveSensitivity, Larger
  <2> HIDE DEF skew, ratio, effective
  <2>5. popular \in Nat /\ popular <= RateCap
    <3>1. effective * skew \in Nat
      BY <2>2, <2>4, NatProduct
    <3>2. (effective * skew) \div One \in Nat
      BY <3>1, ConstantsAre, NatQuotient
    <3> QED BY <3>2, ConstantsAre DEF Smaller
  <2>6. Rates[d] = popular \/ Rates[d] = -unpopular
    BY <1>3 DEF Rates, long, short, skew, ratio, effective
  <2> HIDE DEF popular
  <2>7. unpopular \in Nat
    <3>1. popular * ratio \in Nat
      BY <2>3, <2>5, NatProduct
    <3> QED BY <3>1, ConstantsAre, NatQuotient
  <2> HIDE DEF unpopular
  <2> QED BY <2>5, <2>6, <2>7, ConstantsAre
<1> QED BY <1>2, <1>3

------------------------------------------------------------------------------
(* The series.                                                             *)

\* Max returns the greatest time.
LEMMA MaxOfTimes ==
  ASSUME NEW n \in Nat, NEW S, S \subseteq 0..n, S # {}
  PROVE  Max(S) \in S /\ \A t \in S : t <= Max(S)
<1> DEFINE D == {n - t : t \in S}
<1>1. D \subseteq Nat /\ D # {}
  <2>1. \A t \in S : t \in Int /\ n - t \in Nat
    OBVIOUS
  <2> QED BY <2>1
<1>2. PICK m \in D : \A k \in D : m =< k
  <2> HIDE DEF D
  <2> QED BY <1>1, LeastExists
<1>3. PICK u \in S : m = n - u
  OBVIOUS
<1>4. \A t \in S : t <= u
  <2>1. ASSUME NEW t \in S PROVE t <= u
    <3>1. n - t \in D
      OBVIOUS
    <3>2. n - u =< n - t
      BY <1>2, <1>3, <3>1
    <3>3. t \in Int /\ u \in Int
      BY <1>3
    <3> QED BY <3>2, <3>3
  <2> QED BY <2>1
<1>5. \E x \in S : \A y \in S : x >= y
  <2>1. \A y \in S : u >= y
    BY <1>3, <1>4
  <2> QED BY <1>3, <2>1
<1>6. Max(S) \in S /\ \A y \in S : Max(S) >= y
  BY <1>5 DEF Max
<1> QED BY <1>6

\* The value of the series at a time is the sum of the rates before it.
LEMMA AtIsSum ==
  ASSUME SeriesInv, completed # -1, NEW d \in Sides, NEW t \in 0..now
  PROVE  /\ At(series, d, t) = RateSum(rates, d, 0 .. t - 1)
         /\ At(series, d, t) \in Int
<1> DEFINE S == {v \in DOMAIN series : v <= t}
           u == Max(S)
<1>1. now \in Nat /\ DOMAIN series \subseteq 0..now /\ 0 \in DOMAIN series
  BY DEF SeriesInv
<1>2. u \in S /\ \A v \in S : v <= u
  <2>1. S \subseteq 0..now /\ 0 \in S
    BY <1>1
  <2> HIDE DEF S
  <2> QED BY <1>1, <2>1, MaxOfTimes
<1> HIDE DEF u
<1>3. u \in DOMAIN series /\ u \in 0..now /\ u \in Int /\ u <= t /\ t \in Int /\ 0 <= u
  BY <1>1, <1>2
<1>4. /\ series[u].value[d] \in Int
      /\ series[u].sum[d] = RateSum(rates, d, 0 .. u - 1)
  BY <1>3 DEF SeriesInv
<1>5. \A w \in 0 .. now - 1 : rates[w][d] \in Int
  BY DEF SeriesInv
<1>6. ASSUME NEW w \in u .. t - 1
      PROVE  rates[w][d] = series[u].value[d]
  <2>1. w \in u .. now - 1
    BY <1>1, <1>3
  <2>2. \A v \in DOMAIN series : v <= w => v <= u
    <3>1. ASSUME NEW v \in DOMAIN series, v <= w PROVE v <= u
      <4>1. v <= t
        BY <1>1, <1>3, <3>1
      <4> QED BY <1>2, <4>1
    <3> QED BY <3>1
  <2>3. rates[w] = series[u].value
    BY <1>3, <2>1, <2>2 DEF SeriesInv
  <2> QED BY <2>3
<1> DEFINE x == series[u].value[d]
<1>7. RateSum(rates, d, u .. t - 1) = x * (t - u)
  <2>1. \A w \in u .. t - 1 : rates[w][d] \in Int /\ rates[w][d] = x
    BY <1>4, <1>6
  <2>2. x \in Int
    BY <1>4
  <2> HIDE DEF x
  <2> QED BY <1>3, <2>1, <2>2, RateSumConstant
<1>8. /\ RateSum(rates, d, 0 .. u - 1) \in Int /\ RateSum(rates, d, u .. t - 1) \in Int
      /\ RateSum(rates, d, 0 .. t - 1)
           = RateSum(rates, d, 0 .. u - 1) + RateSum(rates, d, u .. t - 1)
  <2>1. \A w \in 0 .. t - 1 : rates[w][d] \in Int
    BY <1>1, <1>3, <1>5
  <2>2. 0 \in Int
    OBVIOUS
  <2> QED BY <1>3, <2>1, <2>2, RateSumSplit
<1>9. At(series, d, t) = series[u].sum[d] + x * (t - u)
  BY DEF At, u
<1>10. x * (t - u) \in Int
  BY <1>3, <1>4
<1> HIDE DEF x
<1> QED BY <1>4, <1>7, <1>8, <1>9, <1>10

\* So between two times the series has the sum of the rates of those times.
LEMMA SumOfIsSum ==
  ASSUME SeriesInv, NEW d \in Sides, NEW start \in 0..now, NEW end \in 0..now, start <= end
  PROVE  /\ SumOf(series, d, start, end) = RateSum(rates, d, start .. end - 1)
         /\ SumOf(series, d, start, end) \in Int
         /\ SumOf(series, d, start, end) <= RateCap * (end - start)
<1>0. now \in Nat /\ start \in Int /\ end \in Int /\ 0 <= start /\ 0 \in Int
  BY DEF SeriesInv
<1>1. \A t \in 0 .. now - 1 : rates[t][d] \in Int /\ rates[t][d] <= RateCap
  BY DEF SeriesInv
<1>2. \A w \in 0 .. end - 1 : rates[w][d] \in Int
  BY <1>0, <1>1
<1>3. /\ RateSum(rates, d, 0 .. start - 1) \in Int
      /\ RateSum(rates, d, start .. end - 1) \in Int
      /\ RateSum(rates, d, 0 .. end - 1)
           = RateSum(rates, d, 0 .. start - 1) + RateSum(rates, d, start .. end - 1)
  BY <1>0, <1>2, RateSumSplit
<1>4. SumOf(series, d, start, end) = RateSum(rates, d, start .. end - 1)
  <2>1. CASE completed = -1
    <3>1. now = 0 /\ DOMAIN series = {}
      BY <2>1 DEF SeriesInv
    <3>2. SumOf(series, d, start, end) = 0
      BY <3>1 DEF SumOf
    <3>3. start = 0 /\ end = 0
      BY <3>1
    <3>4. start .. end - 1 = {}
      BY <3>3
    <3>5. RateSum(rates, d, {}) = 0
      <4>1. RateSum(rates, d, {}) = Total(RatesIn(rates, d, {}), {})
        BY RateSumIsTotal, FS_EmptySet
      <4>2. Total(RatesIn(rates, d, {}), {}) = 0
        BY TotalChosen, FS_EmptySet
      <4> QED BY <4>1, <4>2
    <3> QED BY <3>2, <3>4, <3>5
  <2>2. CASE completed # -1
    <3>1. 0 \in DOMAIN series
      BY <2>2 DEF SeriesInv
    <3>2. SumOf(series, d, start, end) = At(series, d, end) - At(series, d, start)
      BY <1>0, <3>1 DEF SumOf
    <3>3. At(series, d, end) = RateSum(rates, d, 0 .. end - 1)
      BY <2>2, AtIsSum
    <3>4. At(series, d, start) = RateSum(rates, d, 0 .. start - 1)
      BY <2>2, AtIsSum
    <3> QED BY <1>3, <3>2, <3>3, <3>4
  <2> QED BY <2>1, <2>2
<1>5. RateSum(rates, d, start .. end - 1) <= RateCap * (end - start)
  <2>1. \A t \in start .. end - 1 : rates[t][d] \in Int /\ rates[t][d] <= RateCap
    BY <1>0, <1>1
  <2>2. RateCap \in Int
    BY ConstantsAre
  <2> QED BY <1>0, <2>1, <2>2, RateSumAtMost
<1> QED BY <1>3, <1>4, <1>5

------------------------------------------------------------------------------
(* Settlement.                                                             *)

\* An open position satisfies what holds of open positions.
LEMMA OpenFacts ==
  ASSUME PositionsInv, NEW p \in Open
  PROVE  /\ p \in Ids /\ pos[p] \in Records /\ PositionOK(pos[p])
         /\ pos[p].size \in Int /\ pos[p].active \in Int /\ pos[p].at \in Nat
         /\ pos[p].next \in Nat /\ pos[p].margin \in Nat
<1>1. p \in Ids /\ pos[p] # None /\ pos[p] \in Records
  BY DEF Open, PositionsInv
<1>2. PositionOK(pos[p])
  BY <1>1 DEF PositionsInv
<1>3. pos[p].size \in Int /\ pos[p].active \in Int /\ pos[p].next \in Int
  BY <1>1 DEF Records
<1>4. pos[p].margin \in Nat
  BY <1>2, <1>3, MarginType DEF PositionOK
<1>5. pos[p].at \in Nat /\ pos[p].next \in Nat
  BY <1>2, ConstantsAre DEF PositionOK, PositionsInv
<1> QED BY <1>1, <1>2, <1>3, <1>4, <1>5

\* Until its next liquifunding a position owes at most its margin
\* (funding.rs:442).
LEMMA OwedWithinMargin ==
  ASSUME PositionsInv, SeriesInv, NEW p \in Open, NEW end \in 0..now,
         pos[p].at <= end, end <= pos[p].next
  PROVE  Owed(p, end) \in Int /\ Owed(p, end) <= pos[p].margin
<1> DEFINE r == pos[p]
           sum == SumOf(series, Side(r.size), r.at, end)
           amount == Abs(r.size)
           most == RateCap * Delay
<1>1. /\ r.size \in Int /\ r.at \in 0..now /\ r.at \in Int /\ r.next = r.at + Delay
      /\ r.margin = MarginOf(r.size) /\ r.margin \in Nat /\ end \in Int
  BY OpenFacts DEF PositionOK, PositionsInv
<1>2. Side(r.size) \in Sides
  BY DEF Side, Sides
<1>3. /\ amount \in Nat /\ most \in Nat /\ most * amount \in Nat
      /\ r.margin = (most * amount) \div One
  BY <1>1, MarginType DEF MarginOf
<1>4. sum \in Int /\ sum <= RateCap * (end - r.at)
  BY <1>1, <1>2, SumOfIsSum
<1>5. RateCap * (end - r.at) <= most
  <2>1. (end - r.at) \in Int /\ end - r.at <= Delay
    BY <1>1, ConstantsAre
  <2>2. (end - r.at) * RateCap <= Delay * RateCap
    BY <2>1, ConstantsAre, ProductMonotone
  <2>3. RateCap * (end - r.at) = (end - r.at) * RateCap /\ RateCap * Delay = Delay * RateCap
    BY <2>1, ConstantsAre, Distribute
  <2> QED BY <2>2, <2>3
<1>6. sum <= most
  <2>1. RateCap * (end - r.at) \in Int
    BY <1>1, ConstantsAre
  <2> HIDE DEF sum, most
  <2> QED BY <1>3, <1>4, <1>5, <2>1
<1>7. Owed(p, end) = Quot(sum * amount, One)
  BY DEF Owed
<1> HIDE DEF sum, amount, most, r
<1>8. sum * amount \in Int /\ sum * amount <= most * amount
  BY <1>3, <1>4, <1>6, ProductMonotone
<1> DEFINE x == sum * amount
           y == most * amount
<1>9. x \in Int /\ y \in Nat /\ x <= y
  BY <1>3, <1>8
<1> HIDE DEF x, y
<1>10. y \div One \in Nat
  BY <1>9, ConstantsAre, NatQuotient
<1>11. CASE x < 0
  <2>1. (-x) \div One \in Nat
    BY <1>9, <1>11, ConstantsAre, NatQuotient
  <2>2. Quot(x, One) = -((-x) \div One)
    BY <1>11 DEF Quot
  <2>3. Quot(x, One) \in Int /\ Quot(x, One) <= y \div One
    BY <1>10, <2>1, <2>2
  <2> QED BY <1>1, <1>3, <1>7, <2>3 DEF x, y, r
<1>12. CASE ~(x < 0)
  <2>1. Quot(x, One) = x \div One
    BY <1>12 DEF Quot
  <2>2. x \div One \in Nat
    BY <1>9, <1>12, ConstantsAre, NatQuotient
  <2>3. x \div One <= y \div One
    BY <1>9, ConstantsAre, QuotientMonotone
  <2>4. Quot(x, One) \in Int /\ Quot(x, One) <= y \div One
    BY <2>1, <2>2, <2>3
  <2> QED BY <1>1, <1>3, <1>7, <2>4 DEF x, y, r
<1> QED BY <1>11, <1>12

\* A payment takes at most the position's own margin, and pays out at most
\* what the margins of the others cover.
LEMMA PaymentWithin ==
  ASSUME PositionsInv, SeriesInv, BooksInv, NEW p \in Open, NEW end \in 0..now,
         pos[p].at <= end, end <= pos[p].next
  PROVE  /\ Payment(p, end) \in Int /\ Payment(p, end) <= pos[p].margin
         /\ totalMargin - pos[p].margin + (totalPaid + Payment(p, end)) >= 0
<1>1. Owed(p, end) \in Int /\ pos[p].margin \in Nat
  BY OwedWithinMargin, OpenFacts
<1>2. OwedCapped(p, end) \in Int
  BY <1>1 DEF OwedCapped, Smaller
<1>3. totalMargin \in Int /\ totalPaid \in Int /\ totalMargin + totalPaid >= 0
  BY DEF BooksInv, AdvancesCovered
<1> DEFINE amount == OwedCapped(p, end)
           own == pos[p].margin
<1>4. Payment(p, end)
        = Smaller(Larger(amount, -(totalMargin - own + totalPaid)), own)
  BY DEF Payment, AggregateCap
<1> HIDE DEF amount, own
<1>5. amount \in Int /\ own \in Nat
  BY <1>1, <1>2 DEF amount, own
<1>6. /\ Payment(p, end) \in Int /\ Payment(p, end) <= own
      /\ totalMargin - own + (totalPaid + Payment(p, end)) >= 0
  BY <1>3, <1>4, <1>5 DEF Smaller, Larger
<1> QED BY <1>6 DEF own

\* A settlement whose rest is paid out or stays keeps the books.
LEMMA SettledBooks ==
  ASSUME FundingInv, NEW p \in Open, NEW end \in 0..now,
         pos[p].at <= end, end <= pos[p].next, Settle(p, end),
         NEW new \in Records, new.margin >= 0, Save(p, new),
         held' = held - (SettledActive(p, end) - new.active)
  PROVE  BooksInv' /\ MarginSuffices'
<1>1. PositionsInv /\ SeriesInv /\ BooksInv /\ MarginSuffices
  BY DEF FundingInv
<1> DEFINE pay == Payment(p, end)
           r == pos[p]
<1>2. /\ pay \in Int /\ pay <= r.margin
      /\ totalMargin - r.margin + (totalPaid + pay) >= 0
  BY <1>1, PaymentWithin
<1>3. p \in Ids /\ r.active \in Int /\ r.margin \in Nat
  BY <1>1, OpenFacts
<1>4. /\ totalPaid \in Int /\ totalMargin \in Int /\ held \in Int
      /\ totalMargin = MarginsOf(pos)
      /\ held = Total(ActiveAt(pos), Ids) + totalPaid
  BY <1>1 DEF BooksInv, MarginTracked, ActiveAt
<1>5. /\ pos' = [pos EXCEPT ![p] = new]
      /\ totalMargin' = totalMargin - r.margin + new.margin
  BY DEF Save
<1>6. totalPaid' = totalPaid + pay
  BY DEF Settle
<1>7. new.margin \in Int /\ new.active \in Int
  BY DEF Records
<1>8. /\ MarginsOf(pos') = MarginsOf(pos) - r.margin + new.margin
      /\ Total(ActiveAt(pos), Ids) \in Int
      /\ Total(ActiveAt(pos'), Ids) = Total(ActiveAt(pos), Ids) - r.active + new.active
  <2>1. pos \in [Ids -> Records]
    BY <1>1 DEF PositionsInv
  <2>2. pos' \in [Ids -> Records] /\ pos'[p] = new
    BY <1>3, <1>5, <2>1
  <2>3. \A i \in Ids : i # p => pos'[i] = pos[i]
    BY <1>5, <2>1
  <2>4. \A q \in [Ids -> Records] :
          (q[p] = new /\ \A i \in Ids : i # p => q[i] = pos[i]) =>
            /\ MarginsOf(q) = MarginsOf(pos) - pos[p].margin + new.margin
            /\ Total(ActiveAt(pos), Ids) \in Int
            /\ Total(ActiveAt(q), Ids)
                 = Total(ActiveAt(pos), Ids) - pos[p].active + new.active
    BY <1>3, <2>1, SumsChange
  <2> QED BY <2>2, <2>3, <2>4
<1>9. held' = held - (r.active - pay - new.active)
  BY DEF SettledActive
<1> HIDE DEF pay, r
<1>10. /\ totalPaid' \in Int /\ totalMargin' \in Int /\ held' \in Int
       /\ totalMargin' = MarginsOf(pos')
       /\ totalMargin' + totalPaid' >= 0
       /\ held' = Total(ActiveAt(pos'), Ids) + totalPaid'
  BY <1>2, <1>3, <1>4, <1>5, <1>6, <1>7, <1>8, <1>9
<1>11. BooksInv'
  BY <1>10 DEF BooksInv, MarginTracked, AdvancesCovered, ActiveAt
<1>12. MarginSuffices'
  <2>1. Owed(p, end) \in Int /\ Owed(p, end) <= pos[p].margin
    BY <1>1, OwedWithinMargin
  <2>2. ~(Owed(p, end) > pos[p].margin)
    BY <2>1, <1>3 DEF r
  <2>3. shortfall' = (shortfall \/ Owed(p, end) > pos[p].margin)
    BY DEF Settle
  <2>4. ~shortfall
    BY <1>1 DEF MarginSuffices
  <2> QED BY <2>2, <2>3, <2>4 DEF MarginSuffices
<1> QED BY <1>11, <1>12

\* A position that is stored as it should be leaves the others as they are.
LEMMA SavedPositions ==
  ASSUME PositionsInv, NEW p \in Ids, NEW new \in Records, new = None \/ PositionOK(new),
         Save(p, new), UNCHANGED <<now, completed>>
  PROVE  PositionsInv'
<1>1. pos' \in [Ids -> Records]
  BY DEF PositionsInv, Save
<1>2. ASSUME NEW i \in Ids PROVE pos'[i] = None \/ PositionOK(pos'[i])
  <2>1. CASE i = p
    <3>1. pos'[i] = new
      BY <2>1 DEF PositionsInv, Save
    <3> QED BY <3>1
  <2>2. CASE i # p
    <3>1. pos'[i] = pos[i]
      BY <2>2 DEF PositionsInv, Save
    <3> QED BY <3>1 DEF PositionsInv
  <2> QED BY <2>1, <2>2
<1>3. \A i \in Ids : pos'[i] = None \/ PositionOK(pos[i])'
  BY <1>2 DEF PositionOK
<1> QED BY <1>1, <1>3 DEF PositionsInv

------------------------------------------------------------------------------
(* The steps.                                                              *)

LEMMA FundingInit ==
  ASSUME Init
  PROVE  FundingInv
<1>1. /\ now = 0 /\ completed = -1 /\ series = [t \in {} |-> None]
      /\ pos = [p \in Ids |-> None] /\ totalPaid = 0 /\ totalMargin = 0 /\ held = 0
      /\ shortfall = FALSE
  BY DEF Init
<1>2. None \in Records /\ None.margin = 0 /\ None.active = 0
  BY DEF None, Records
<1>3. PositionsInv
  <2>1. 0 \in 0..MaxTime
    BY ConstantsAre
  <2> QED BY <1>1, <1>2, <2>1 DEF PositionsInv
<1>4. SeriesInv
  <2>1. DOMAIN series = {}
    BY <1>1
  <2>2. 0 .. now - 1 = {}
    BY <1>1
  <2> QED BY <1>1, <2>1, <2>2 DEF SeriesInv
<1>5. BooksInv
  <2>1. \A p \in Ids : MarginAt(pos)[p] = 0 /\ ActiveAt(pos)[p] = 0
    BY <1>1, <1>2 DEF MarginAt, ActiveAt
  <2>2. IsFiniteSet(Ids)
    BY ConstantsAre
  <2>3. Total(MarginAt(pos), Ids) = 0
    BY <2>1, <2>2, TotalZero
  <2>4. Total(ActiveAt(pos), Ids) = 0
    BY <2>1, <2>2, TotalZero
  <2>5. MarginsOf(pos) = 0
    BY <2>3, MarginsIsTotal
  <2> QED BY <1>1, <2>4, <2>5 DEF BooksInv, MarginTracked, AdvancesCovered, ActiveAt
<1> QED BY <1>1, <1>3, <1>4, <1>5 DEF FundingInv, MarginSuffices

\* A position that is closed, at the price point or at its liquifunding.
LEMMA CloseStep ==
  ASSUME FundingInv, NEW p \in Open, NEW end \in 0..now,
         pos[p].at <= end, end <= pos[p].next, Close(p, end),
         UNCHANGED <<now, completed, series, rates>>
  PROVE  FundingInv'
<1>1. PositionsInv /\ SeriesInv /\ BooksInv
  BY DEF FundingInv
<1>2. None \in Records /\ None.margin = 0 /\ None.active = 0
  BY DEF None, Records
<1>3. /\ Settle(p, end) /\ Save(p, None)
      /\ held' = held - Larger(SettledActive(p, end), 0)
  BY DEF Close
<1>4. held' = held - (SettledActive(p, end) - None.active)
  <2>1. /\ Payment(p, end) \in Int /\ Payment(p, end) <= pos[p].margin
        /\ pos[p].active \in Int /\ pos[p].margin \in Nat /\ pos[p].active > pos[p].margin
    BY <1>1, PaymentWithin, OpenFacts DEF PositionOK
  <2>2. SettledActive(p, end) \in Int /\ SettledActive(p, end) > 0
    BY <2>1 DEF SettledActive
  <2>3. Larger(SettledActive(p, end), 0) = SettledActive(p, end)
    BY <2>2 DEF Larger
  <2>4. SettledActive(p, end) - 0 = SettledActive(p, end)
    BY <2>2
  <2> QED BY <1>2, <1>3, <2>3, <2>4
<1>5. BooksInv' /\ MarginSuffices'
  <2>1. None.margin >= 0
    BY <1>2
  <2> QED BY <1>2, <1>3, <1>4, <2>1, SettledBooks
<1>6. PositionsInv'
  BY <1>1, <1>2, <1>3, SavedPositions, OpenFacts
<1>7. SeriesInv'
  BY <1>1 DEF SeriesInv
<1> QED BY <1>5, <1>6, <1>7 DEF FundingInv

\* What the liquifunding changes of a position.
Moved(r, active, end) == [r EXCEPT !.active = active, !.at = end, !.next = end + Delay]

LEMMA MovedRecord ==
  ASSUME NEW r \in Records, NEW active \in Int, NEW end \in Int
  PROVE  /\ Moved(r, active, end) \in Records
         /\ Moved(r, active, end).active = active /\ Moved(r, active, end).at = end
         /\ Moved(r, active, end).next = end + Delay
         /\ Moved(r, active, end).size = r.size /\ Moved(r, active, end).margin = r.margin
<1>1. end + Delay \in Int
  BY ConstantsAre
<1> QED BY <1>1 DEF Moved, Records

\* A position that is settled and stays open.
LEMMA KeepStep ==
  ASSUME FundingInv, NEW p \in Open, NEW end \in 0..now,
         pos[p].at <= end, end <= pos[p].next, Settle(p, end),
         NEW new \in Records, PositionOK(new), new.active = SettledActive(p, end),
         Save(p, new), UNCHANGED <<now, completed, series, rates, held>>
  PROVE  FundingInv'
<1>1. PositionsInv /\ SeriesInv /\ BooksInv
  BY DEF FundingInv
<1>2. new.margin >= 0
  <2>1. new.size \in Int
    BY DEF Records
  <2>2. MarginOf(new.size) \in Nat
    BY <2>1, MarginType
  <2> QED BY <2>2 DEF PositionOK
<1>3. held' = held - (SettledActive(p, end) - new.active)
  <2>1. new.active \in Int /\ held \in Int
    BY <1>1 DEF Records, BooksInv
  <2> QED BY <2>1
<1>4. BooksInv' /\ MarginSuffices'
  BY <1>2, <1>3, SettledBooks
<1>5. PositionsInv'
  BY <1>1, SavedPositions, OpenFacts
<1>6. SeriesInv'
  BY <1>1 DEF SeriesInv
<1> QED BY <1>4, <1>5, <1>6 DEF FundingInv

LEMMA OpenStep ==
  ASSUME FundingInv, NEW p \in Ids, NEW size \in Sizes, NEW deposit \in Deposits,
         OpenPosition(p, size, deposit)
  PROVE  FundingInv'
<1> DEFINE new == [size |-> size, active |-> deposit, margin |-> MarginOf(size),
                   at |-> now, next |-> now + Delay]
<1>1. PositionsInv /\ SeriesInv /\ BooksInv /\ MarginSuffices
  BY DEF FundingInv
<1>2. now \in Nat /\ now \in 0..MaxTime
  BY <1>1, ConstantsAre DEF PositionsInv
<1>3. /\ pos[p] = None /\ deposit > MarginOf(size) /\ Save(p, new)
      /\ held' = held + deposit
      /\ UNCHANGED <<now, completed, series, totalPaid, rates, shortfall>>
  BY DEF OpenPosition
<1>4. /\ size \in Int /\ deposit \in Nat /\ MarginOf(size) \in Nat /\ now + Delay \in Int
  BY <1>2, ConstantsAre, MarginType
<1>5. /\ new \in Records /\ new.margin = MarginOf(size) /\ new.active = deposit
  BY <1>2, <1>4 DEF Records
<1>6. PositionOK(new)
  BY <1>2, <1>3, <1>4 DEF PositionOK
<1> HIDE DEF new
<1>7. PositionsInv'
  BY <1>1, <1>3, <1>5, <1>6, SavedPositions
<1>8. SeriesInv'
  BY <1>1, <1>3 DEF SeriesInv
<1>9. BooksInv'
  <2>1. pos \in [Ids -> Records]
    BY <1>1 DEF PositionsInv
  <2>2. /\ pos' = [pos EXCEPT ![p] = new]
        /\ totalMargin' = totalMargin - pos[p].margin + new.margin
    BY <1>3 DEF Save
  <2>3. pos' \in [Ids -> Records] /\ pos'[p] = new
    BY <1>5, <2>1, <2>2
  <2>4. \A i \in Ids : i # p => pos'[i] = pos[i]
    BY <2>1, <2>2
  <2>5. \A q \in [Ids -> Records] :
          (q[p] = new /\ \A i \in Ids : i # p => q[i] = pos[i]) =>
            /\ MarginsOf(pos) \in Int
            /\ MarginsOf(q) = MarginsOf(pos) - pos[p].margin + new.margin
            /\ Total(ActiveAt(pos), Ids) \in Int
            /\ Total(ActiveAt(q), Ids)
                 = Total(ActiveAt(pos), Ids) - pos[p].active + new.active
    BY <1>5, <2>1, SumsChange
  <2>6. pos[p].margin = 0 /\ pos[p].active = 0
    BY <1>3 DEF None
  <2>7. /\ totalPaid \in Int /\ totalMargin \in Int /\ held \in Int
        /\ totalMargin = MarginsOf(pos) /\ totalMargin + totalPaid >= 0
        /\ held = Total(ActiveAt(pos), Ids) + totalPaid
    BY <1>1 DEF BooksInv, MarginTracked, AdvancesCovered, ActiveAt
  <2>8. /\ MarginsOf(pos') = MarginsOf(pos) - pos[p].margin + new.margin
        /\ Total(ActiveAt(pos), Ids) \in Int
        /\ Total(ActiveAt(pos'), Ids)
             = Total(ActiveAt(pos), Ids) - pos[p].active + new.active
    BY <2>3, <2>4, <2>5
  <2>9. /\ totalPaid' \in Int /\ totalMargin' \in Int /\ held' \in Int
        /\ totalMargin' = MarginsOf(pos') /\ totalMargin' + totalPaid' >= 0
        /\ held' = Total(ActiveAt(pos'), Ids) + totalPaid'
    BY <1>3, <1>4, <1>5, <2>2, <2>6, <2>7, <2>8
  <2> QED BY <2>9 DEF BooksInv, MarginTracked, AdvancesCovered, ActiveAt
<1>10. MarginSuffices'
  BY <1>1, <1>3 DEF MarginSuffices
<1> QED BY <1>7, <1>8, <1>9, <1>10 DEF FundingInv

\* A later price point: the rates of the time between are those of the last
\* point of the series.
LEMMA NewPriceStep ==
  ASSUME FundingInv, NEW dt \in Steps, NewPrice(dt)
  PROVE  FundingInv'
<1>1. PositionsInv /\ SeriesInv /\ BooksInv /\ MarginSuffices
  BY DEF FundingInv
<1>2. dt \in Nat /\ dt > 0 /\ MaxTime \in Nat /\ RateCap \in Nat
  BY ConstantsAre
<1>3. /\ completed = now /\ now + dt <= MaxTime /\ now' = now + dt
      /\ rates' = [t \in 0 .. now + dt - 1 |->
                     IF t < now THEN rates[t] ELSE series[now].value]
      /\ UNCHANGED <<completed, series, pos, totalPaid, totalMargin, held, shortfall>>
  BY DEF NewPrice
<1>4. now \in Nat /\ now' \in Nat /\ now' \in 0..MaxTime /\ 0..now \subseteq 0..now'
  BY <1>1, <1>2, <1>3 DEF PositionsInv
<1>5. PositionsInv'
  <2>1. pos' \in [Ids -> Records] /\ completed' \in {-1} \cup 0..MaxTime
    BY <1>1, <1>3 DEF PositionsInv
  <2>2. ASSUME NEW p \in Ids PROVE pos'[p] = None \/ PositionOK(pos[p])'
    <3>1. CASE pos[p] = None
      BY <1>3, <3>1
    <3>2. CASE PositionOK(pos[p])
      BY <1>3, <1>4, <3>2 DEF PositionOK
    <3> QED BY <1>1, <3>1, <3>2 DEF PositionsInv
  <2> QED BY <1>4, <2>1, <2>2 DEF PositionsInv
<1>6. SeriesInv'
  <2> DEFINE later == now + dt
             new == [t \in 0 .. now + dt - 1 |->
                       IF t < now THEN rates[t] ELSE series[now].value]
  <2>0. now \in Nat /\ later \in Nat /\ now < later
    BY <1>2, <1>4
  <2>1. now \in DOMAIN series /\ \A t \in DOMAIN series : t <= now
    BY <1>1, <1>3, <1>4 DEF SeriesInv
  <2>2. DOMAIN series \subseteq 0..now
    BY <1>1 DEF SeriesInv
  <2>3. \A t \in 0 .. now - 1 : new[t] = rates[t]
    BY <1>2, <2>0
  <2>4. \A t \in now .. later - 1 : new[t] = series[now].value
    BY <1>2, <2>0
  <2> HIDE DEF new
  <2>5. ASSUME NEW t \in DOMAIN series, NEW d \in Sides
        PROVE  /\ series[t].value[d] \in Int /\ series[t].value[d] <= RateCap
               /\ series[t].sum[d] = RateSum(new, d, 0 .. t - 1)
    <3>1. /\ series[t].value[d] \in Int /\ series[t].value[d] <= RateCap
          /\ series[t].sum[d] = RateSum(rates, d, 0 .. t - 1)
      BY <1>1 DEF SeriesInv
    <3>2. t \in 0..now /\ 0 \in Int /\ t \in Int /\ 0 <= t
      BY <2>2
    <3> DEFINE times == 0 .. t - 1
    <3>3. IsFiniteSet(times)
      BY <3>2, TimesBetween
    <3>4. \A u \in times : rates[u][d] = new[u][d]
      <4>1. \A u \in 0 .. t - 1 : u \in 0 .. now - 1
        BY <1>4, <3>2
      <4> QED BY <2>3, <4>1
    <3>5. RateSum(rates, d, times) = RateSum(new, d, times)
      <4> HIDE DEF times
      <4> QED BY <3>3, <3>4, RateSumSame
    <3> QED BY <3>1, <3>5
  <2>6. ASSUME NEW t \in 0 .. later - 1, NEW d \in Sides
        PROVE  new[t][d] \in Int /\ new[t][d] <= RateCap
    <3>1. CASE t < now
      <4>1. t \in 0 .. now - 1
        BY <2>0, <3>1
      <4>2. rates[t][d] \in Int /\ rates[t][d] <= RateCap
        BY <1>1, <4>1 DEF SeriesInv
      <4> QED BY <2>3, <4>1, <4>2
    <3>2. CASE ~(t < now)
      <4>1. t \in now .. later - 1
        BY <2>0, <3>2
      <4>2. series[now].value[d] \in Int /\ series[now].value[d] <= RateCap
        BY <1>1, <2>1 DEF SeriesInv
      <4> QED BY <2>4, <4>1, <4>2
    <3> QED BY <3>1, <3>2
  <2>7. ASSUME NEW t \in DOMAIN series, NEW u \in t .. later - 1,
               \A v \in DOMAIN series : v <= u => v <= t
        PROVE  new[u] = series[t].value
    <3>1. t \in 0..now /\ t \in Int /\ u \in Int /\ t <= now
      BY <1>4, <2>2
    <3>2. CASE u < now
      <4>1. u \in t .. now - 1 /\ u \in 0 .. now - 1
        BY <1>4, <3>1, <3>2
      <4>2. rates[u] = series[t].value
        BY <1>1, <2>7, <4>1 DEF SeriesInv
      <4> QED BY <2>3, <4>1, <4>2
    <3>3. CASE ~(u < now)
      <4>1. now <= u
        BY <2>0, <3>1, <3>3
      <4>2. now <= t
        BY <2>1, <2>7, <4>1
      <4>3. t = now
        BY <1>4, <3>1, <4>2
      <4>4. u \in now .. later - 1
        BY <2>0, <3>1, <4>1
      <4> QED BY <2>4, <4>3, <4>4
    <3> QED BY <3>2, <3>3
  <2>8. /\ 0 \in DOMAIN series /\ completed \in DOMAIN series
        /\ \A t \in DOMAIN series : t <= completed
    BY <1>1, <1>3, <1>4 DEF SeriesInv
  <2>9. DOMAIN series \subseteq 0..later
    BY <2>0, <2>2
  <2>10. rates' = new /\ now' = later /\ series' = series /\ completed' = completed
    BY <1>3 DEF new
  <2> HIDE DEF later
  <2> QED BY <2>0, <2>10, <2>5, <2>6, <2>7, <2>8, <2>9 DEF SeriesInv
<1>7. BooksInv' /\ MarginSuffices'
  BY <1>1, <1>3 DEF BooksInv, MarginTracked, AdvancesCovered, MarginSuffices
<1> QED BY <1>5, <1>6, <1>7 DEF FundingInv

\* What is appended at a later time than the last point is the sum of the
\* rates up to then.
LEMMA AppendedPoint ==
  ASSUME SeriesInv, completed # now
  PROVE  /\ now \notin DOMAIN series
         /\ DOMAIN AppendPoint(series, now, Rates) = DOMAIN series \cup {now}
         /\ \A t \in DOMAIN series : AppendPoint(series, now, Rates)[t] = series[t]
         /\ AppendPoint(series, now, Rates)[now].value = Rates
         /\ \A d \in Sides : AppendPoint(series, now, Rates)[now].sum[d]
                               = RateSum(rates, d, 0 .. now - 1)
<1> DEFINE last == Max(DOMAIN series)
           sum == [d \in Sides |-> series[last].sum[d] + series[last].value[d] * (now - last)]
           point == [sum |-> IF DOMAIN series = {} THEN [d \in Sides |-> 0] ELSE sum,
                     value |-> Rates]
           new == [u \in DOMAIN series \cup {now} |-> IF u # now THEN series[u] ELSE point]
<1>1. AppendPoint(series, now, Rates) = new
  BY DEF AppendPoint
<1>2. now \in Nat /\ DOMAIN series \subseteq 0..now
  BY DEF SeriesInv
<1>3. now \notin DOMAIN series
  <2>1. SUFFICES ASSUME now \in DOMAIN series PROVE FALSE
    OBVIOUS
  <2>2. completed \in DOMAIN series /\ now <= completed
    BY <2>1 DEF SeriesInv
  <2>3. completed \in 0..now
    BY <1>2, <2>2
  <2> QED BY <1>2, <2>2, <2>3
<1> HIDE DEF point
<1>4. /\ DOMAIN new = DOMAIN series \cup {now} /\ new[now] = point
      /\ \A t \in DOMAIN series : new[t] = series[t]
  BY <1>3
<1>5. point.value = Rates
  BY DEF point
<1>6. ASSUME NEW d \in Sides
      PROVE  point.sum[d] = RateSum(rates, d, 0 .. now - 1)
  <2>1. CASE DOMAIN series = {}
    <3>1. now = 0
      BY <2>1 DEF SeriesInv
    <3>2. point.sum[d] = 0
      BY <2>1 DEF point
    <3>3. 0 .. now - 1 = {}
      BY <3>1
    <3>4. RateSum(rates, d, {}) = Total(RatesIn(rates, d, {}), {})
      BY RateSumIsTotal, FS_EmptySet
    <3>5. Total(RatesIn(rates, d, {}), {}) = 0
      BY TotalChosen, FS_EmptySet
    <3> QED BY <3>2, <3>3, <3>4, <3>5
  <2>2. CASE DOMAIN series # {}
    <3>1. completed # -1
      BY <2>2 DEF SeriesInv
    <3>2. {v \in DOMAIN series : v <= now} = DOMAIN series
      BY <1>2
    <3>3. At(series, d, now) = series[last].sum[d] + series[last].value[d] * (now - last)
      BY <3>2 DEF At
    <3>4. point.sum[d] = series[last].sum[d] + series[last].value[d] * (now - last)
      BY <2>2 DEF point
    <3>5. now \in 0..now
      BY <1>2
    <3>6. At(series, d, now) = RateSum(rates, d, 0 .. now - 1)
      BY <3>1, <3>5, AtIsSum
    <3> QED BY <3>3, <3>4, <3>6
  <2> QED BY <2>1, <2>2
<1> HIDE DEF new
<1> QED BY <1>1, <1>3, <1>4, <1>5, <1>6

LEMMA CompletedStep ==
  ASSUME FundingInv, Completed
  PROVE  FundingInv'
<1>1. PositionsInv /\ SeriesInv /\ BooksInv /\ MarginSuffices
  BY DEF FundingInv
<1>2. /\ completed # now /\ completed' = now
      /\ series' = AppendPoint(series, now, Rates)
      /\ UNCHANGED <<now, pos, totalPaid, totalMargin, held, rates, shortfall>>
  BY DEF Completed
<1>3. now \in Nat /\ now \in 0..MaxTime
  BY <1>1, ConstantsAre DEF PositionsInv
<1>4. PositionsInv'
  <2>1. \A p \in Ids : pos'[p] = None \/ PositionOK(pos[p])'
    BY <1>1, <1>2 DEF PositionsInv, PositionOK
  <2> QED BY <1>1, <1>2, <1>3, <2>1 DEF PositionsInv
<1>5. SeriesInv'
  <2>1. /\ now \notin DOMAIN series
        /\ DOMAIN series' = DOMAIN series \cup {now}
        /\ \A t \in DOMAIN series : series'[t] = series[t]
        /\ series'[now].value = Rates
        /\ \A d \in Sides : series'[now].sum[d] = RateSum(rates, d, 0 .. now - 1)
    BY <1>1, <1>2, AppendedPoint
  <2>2. pos \in [Ids -> Records]
    BY <1>1 DEF PositionsInv
  <2>3. DOMAIN series \subseteq 0..now
    BY <1>1 DEF SeriesInv
  <2>4. ASSUME NEW t \in DOMAIN series', NEW d \in Sides
        PROVE  /\ series'[t].value[d] \in Int /\ series'[t].value[d] <= RateCap
               /\ series'[t].sum[d] = RateSum(rates, d, 0 .. t - 1)
    <3>1. CASE t = now
      <4>1. Rates[d] \in Int /\ Rates[d] <= RateCap
        BY <2>2, RatesWithin
      <4> QED BY <2>1, <3>1, <4>1
    <3>2. CASE t # now
      <4>1. t \in DOMAIN series /\ series'[t] = series[t]
        BY <2>1, <3>2
      <4> QED BY <1>1, <4>1 DEF SeriesInv
    <3> QED BY <3>1, <3>2
  <2>5. 0 \in DOMAIN series' /\ completed' \in DOMAIN series'
    BY <1>1, <1>2, <2>1 DEF SeriesInv
  <2>6. \A t \in DOMAIN series' : t <= completed'
    BY <1>2, <1>3, <2>1, <2>3
  <2>7. ASSUME NEW t \in DOMAIN series', NEW u \in t .. now - 1,
               \A v \in DOMAIN series' : v <= u => v <= t
        PROVE  rates[u] = series'[t].value
    <3>1. t # now
      BY <1>3
    <3>2. t \in DOMAIN series /\ series'[t] = series[t]
      BY <2>1, <3>1
    <3>3. \A v \in DOMAIN series : v <= u => v <= t
      BY <2>1, <2>7
    <3> QED BY <1>1, <3>2, <3>3 DEF SeriesInv
  <2>8. DOMAIN series' \subseteq 0..now
    BY <1>3, <2>1, <2>3
  <2>9. \A t \in 0 .. now - 1, d \in Sides : rates[t][d] \in Int /\ rates[t][d] <= RateCap
    BY <1>1 DEF SeriesInv
  <2> QED BY <1>2, <1>3, <2>4, <2>5, <2>6, <2>7, <2>8, <2>9 DEF SeriesInv
<1>6. BooksInv' /\ MarginSuffices'
  BY <1>1, <1>2 DEF BooksInv, MarginTracked, AdvancesCovered, MarginSuffices
<1> QED BY <1>4, <1>5, <1>6 DEF FundingInv

\* With nothing due, the time has not passed any position's liquifunding.
LEMMA SettledNow ==
  ASSUME PositionsInv, NothingDue, NEW p \in Open
  PROVE  now \in 0..now /\ pos[p].at <= now /\ now <= pos[p].next
<1>1. now \in Nat
  BY ConstantsAre DEF PositionsInv
<1>2. /\ pos[p].at \in 0..now /\ pos[p].next \in Nat /\ pos[p].next >= now
  BY OpenFacts DEF NothingDue, PositionOK
<1> QED BY <1>1, <1>2

LEMMA CloseNowStep ==
  ASSUME FundingInv, NEW p \in Ids, ClosePosition(p)
  PROVE  FundingInv'
<1>1. PositionsInv
  BY DEF FundingInv
<1>2. /\ NothingDue /\ p \in Open /\ Close(p, now)
      /\ UNCHANGED <<now, completed, series, rates>>
  BY DEF ClosePosition
<1>3. now \in 0..now /\ pos[p].at <= now /\ now <= pos[p].next
  BY <1>1, <1>2, SettledNow
<1> QED BY <1>2, <1>3, CloseStep

LEMMA LiquifundingStep ==
  ASSUME FundingInv, NEW p \in Ids, Liquifunding(p)
  PROVE  FundingInv'
<1> DEFINE end == pos[p].next
           active == SettledActive(p, end)
           new == Moved(pos[p], active, end)
<1>1. PositionsInv /\ SeriesInv /\ BooksInv
  BY DEF FundingInv
<1>2. p \in Open /\ end <= now /\ UNCHANGED <<now, completed, series, rates>>
  BY DEF Liquifunding
<1>3. /\ pos[p] \in Records /\ PositionOK(pos[p]) /\ end \in Nat /\ pos[p].active \in Int
      /\ pos[p].at \in Nat /\ now \in Nat
  BY <1>1, <1>2, OpenFacts, ConstantsAre DEF PositionsInv
<1>4. end \in 0..now /\ pos[p].at <= end /\ end <= pos[p].next
  BY <1>2, <1>3, ConstantsAre DEF PositionOK
<1>5. CASE active <= pos[p].margin /\ Close(p, end)
  BY <1>2, <1>4, <1>5, CloseStep
<1>6. CASE active > pos[p].margin /\ Settle(p, end) /\ Save(p, new) /\ UNCHANGED held
  <2>1. Payment(p, end) \in Int
    BY <1>1, <1>2, <1>4, PaymentWithin
  <2>2. active \in Int /\ end + Delay \in Int
    BY <1>3, <2>1, ConstantsAre DEF SettledActive
  <2> HIDE DEF active, end
  <2>3. /\ new \in Records /\ new.active = active /\ new.at = end
        /\ new.next = end + Delay /\ new.size = pos[p].size /\ new.margin = pos[p].margin
    <3>1. end \in Int
      BY <1>3
    <3> QED BY <1>3, <2>2, <3>1, MovedRecord
  <2>4. PositionOK(new)
    BY <1>3, <1>4, <1>6, <2>3 DEF PositionOK
  <2> HIDE DEF new
  <2>5. UNCHANGED <<now, completed, series, rates, held>>
    BY <1>2, <1>6
  <2>6. new.active = SettledActive(p, end)
    BY <2>3 DEF active
  <2> QED BY <1>2, <1>4, <1>6, <2>3, <2>4, <2>5, <2>6, KeepStep
<1> QED BY <1>5, <1>6 DEF Liquifunding, Moved

LEMMA UpdateStep ==
  ASSUME FundingInv, NEW p \in Ids, NEW size \in Sizes, UpdatePosition(p, size)
  PROVE  FundingInv'
<1> DEFINE active == SettledActive(p, now)
           new == [size |-> size, active |-> active, margin |-> MarginOf(size),
                   at |-> now, next |-> now + Delay]
<1>1. PositionsInv /\ SeriesInv /\ BooksInv
  BY DEF FundingInv
<1>2. /\ NothingDue /\ p \in Open /\ active > MarginOf(size)
      /\ Settle(p, now) /\ Save(p, new)
      /\ UNCHANGED <<now, completed, series, rates, held>>
  BY DEF UpdatePosition
<1>3. now \in 0..now /\ pos[p].at <= now /\ now <= pos[p].next
  BY <1>1, <1>2, SettledNow
<1>4. now \in Nat /\ size \in Int /\ MarginOf(size) \in Nat /\ now + Delay \in Int
  BY <1>1, ConstantsAre, MarginType DEF PositionsInv
<1>5. active \in Int
  <2>1. Payment(p, now) \in Int /\ pos[p].active \in Int
    BY <1>1, <1>2, <1>3, PaymentWithin, OpenFacts
  <2> QED BY <2>1 DEF SettledActive
<1> HIDE DEF active
<1>6. /\ new \in Records /\ new.active = active
  BY <1>4, <1>5 DEF Records
<1>7. PositionOK(new)
  BY <1>2, <1>3, <1>4 DEF PositionOK
<1> HIDE DEF new
<1>8. new.active = SettledActive(p, now)
  BY <1>6 DEF active
<1> QED BY <1>2, <1>3, <1>6, <1>7, <1>8, KeepStep

LEMMA FundingStep ==
  FundingInv /\ [Next]_vars => FundingInv'
<1> SUFFICES ASSUME FundingInv, [Next]_vars PROVE FundingInv'
  OBVIOUS
<1>1. CASE \E dt \in Steps : NewPrice(dt)
  BY <1>1, NewPriceStep
<1>2. CASE Completed
  BY <1>2, CompletedStep
<1>3. CASE \E p \in Ids, size \in Sizes, deposit \in Deposits : OpenPosition(p, size, deposit)
  BY <1>3, OpenStep
<1>4. CASE \E p \in Ids : ClosePosition(p) \/ Liquifunding(p)
  BY <1>4, CloseNowStep, LiquifundingStep
<1>5. CASE \E p \in Ids, size \in Sizes : UpdatePosition(p, size)
  BY <1>5, UpdateStep
<1>6. CASE UNCHANGED vars
  <2>1. UNCHANGED <<now, completed, series, pos, totalPaid, totalMargin, held, rates, shortfall>>
    BY <1>6 DEF vars
  <2>2. \A p \in Ids : PositionOK(pos[p])' <=> PositionOK(pos[p])
    BY <2>1 DEF PositionOK
  <2>3. PositionsInv'
    BY <2>1, <2>2 DEF FundingInv, PositionsInv
  <2>4. SeriesInv'
    BY <2>1 DEF FundingInv, SeriesInv
  <2>5. BooksInv' /\ MarginSuffices'
    BY <2>1 DEF FundingInv, BooksInv, MarginTracked, AdvancesCovered, MarginSuffices
  <2> QED BY <2>3, <2>4, <2>5 DEF FundingInv
<1> QED BY <1>1, <1>2, <1>3, <1>4, <1>5, <1>6 DEF Next

\* Nobody is paid with what is not held for traders: what is held are the
\* rests of the positions and the advances, and the margins cover those.
LEMMA HeldCovers ==
  ASSUME PositionsInv, BooksInv
  PROVE  held >= 0
<1>1. ASSUME NEW p \in Ids
      PROVE  /\ MarginAt(pos)[p] \in Nat /\ ActiveAt(pos)[p] \in Nat
             /\ MarginAt(pos)[p] * 1 =< ActiveAt(pos)[p]
  <2>1. MarginAt(pos)[p] = pos[p].margin /\ ActiveAt(pos)[p] = pos[p].active
    BY DEF MarginAt, ActiveAt
  <2>2. CASE pos[p] = None
    BY <2>1, <2>2 DEF None
  <2>3. CASE pos[p] # None
    <3>1. /\ pos[p].margin \in Nat /\ pos[p].active \in Int
          /\ pos[p].active > pos[p].margin
      BY <2>3, OpenFacts DEF Open, PositionOK
    <3> QED BY <2>1, <3>1
  <2> QED BY <2>2, <2>3
<1>2. IsFiniteSet(Ids) /\ 1 \in Nat
  BY ConstantsAre
<1>3. Total(MarginAt(pos), Ids) * 1 =< Total(ActiveAt(pos), Ids)
  BY <1>1, <1>2, TotalLess
<1>4. Total(MarginAt(pos), Ids) \in Nat /\ Total(ActiveAt(pos), Ids) \in Nat
  BY <1>1, <1>2, TotalType
<1>5. /\ totalPaid \in Int /\ totalMargin \in Int /\ held \in Int
      /\ totalMargin = Total(MarginAt(pos), Ids) /\ totalMargin + totalPaid >= 0
      /\ held = Total(ActiveAt(pos), Ids) + totalPaid
  BY MarginsIsTotal DEF BooksInv, MarginTracked, AdvancesCovered, ActiveAt
<1> QED BY <1>3, <1>4, <1>5

LEMMA FundingImplied ==
  FundingInv => FundingBacked
<1> SUFFICES ASSUME FundingInv PROVE FundingBacked
  OBVIOUS
<1>1. PositionsInv /\ SeriesInv /\ BooksInv /\ MarginSuffices
  BY DEF FundingInv
<1>2. TypeOK
  <2>1. \A p \in Open : pos[p].active >= pos[p].margin
    <3>1. ASSUME NEW p \in Open PROVE pos[p].active >= pos[p].margin
      <4>1. /\ pos[p].active \in Int /\ pos[p].margin \in Nat
            /\ pos[p].active > pos[p].margin
        BY <1>1, OpenFacts DEF PositionOK
      <4> QED BY <4>1
    <3> QED BY <3>1
  <2> QED BY <1>1, <2>1 DEF TypeOK, PositionsInv, BooksInv
<1>3. AdvancesCovered /\ MarginTracked
  BY <1>1 DEF BooksInv
<1>4. TradersPaidFromTraders
  BY <1>1, HeldCovers DEF TradersPaidFromTraders
<1>5. SumIsIntegral
  BY <1>1, SumOfIsSum DEF SumIsIntegral
<1> QED BY <1>1, <1>2, <1>3, <1>4, <1>5 DEF FundingBacked

\* Funding is backed whatever the sizes, deposits and rates: advances are
\* covered by margins, margins and series are exact, traders are paid by
\* traders, and no position owes more than its margin.
THEOREM FundingIsBacked ==
  Spec => []FundingBacked
<1>1. Init => FundingInv
  BY FundingInit
<1> QED BY <1>1, FundingStep, FundingImplied, PTL DEF Spec

==============================================================================

----------------------------- MODULE SpotPrice -----------------------------
(***************************************************************************)
(* The spot prices of a market.  A market has a manual price, set by an    *)
(* admin, or composes its price of the feeds of several oracles, each with *)
(* its own clock.  A crank stores the price under its publish time, which  *)
(* is the oldest one of the volatile feeds; everything the market computes *)
(* for a time uses the last price stored for that time or before.          *)
(***************************************************************************)
EXTENDS Integers, FiniteSets, Sequences, FiniteSetsExt, SequencesExt

CONSTANTS
  Feeds, FeedsUsd,  \* the feeds of the price and of the collateral in USD: a
                    \* kind, a source, whether inverted, an age tolerance and
                    \* "yes", "no" or "unset" for volatile
  Manual,           \* is the price set by an admin?
  CollateralIsBase, \* the market type
  VolatileDiff,     \* volatile_diff_seconds
  InstantiationTime,
  Values,           \* prices a source or the admin gives
  Ahead,            \* how far the clock of a source runs ahead of the chain's
  Readers,          \* orders in which a reader pages through the history
  Limit,            \* the page size
  MaxTime           \* bound: the clock

BoundsNat ==
  {VolatileDiff, InstantiationTime, Ahead, Limit, MaxTime} \subseteq Nat
TimesPositive == InstantiationTime <= MaxTime /\ Limit > 0
ModeBoolean == Manual \in BOOLEAN /\ CollateralIsBase \in BOOLEAN
ConstantsOK == BoundsNat /\ TimesPositive /\ ModeBoolean

VARIABLES
  now,      \* block time
  oracle,   \* what each source would answer
  prices,   \* PRICES: publish time, price, price in USD; and, as history, the
            \* oldest time of the feeds that the configuration calls volatile
  manual,   \* MANUAL_SPOT_PRICE and the block it was set in
  reader    \* a client that pages through SpotPriceHistory

vars == <<now, oracle, prices, manual, reader>>

AllFeeds == Feeds \o FeedsUsd
Sources == {f.src : f \in Range(AllFeeds)}
KindOf(src) == (CHOOSE f \in Range(AllFeeds) : f.src = src).kind
Keys == {p.time : p \in prices}
Unset == [base |-> 0, usd |-> 0, set |-> 0]
NotReading == [order |-> "none", after |-> 0, seen |-> {}, known |-> {}]

Init ==
  /\ now = InstantiationTime
  /\ oracle \in [Sources -> [price : {Min(Values)}, time : {InstantiationTime - 1, InstantiationTime},
                             timed : {TRUE}, volatile : {FALSE}]]
  /\ IF Manual
     THEN \E b \in Values :
            /\ manual = [base |-> b, usd |-> 1, set |-> now]
            /\ prices = {[time |-> now, base |-> <<b, 1>>, usd |-> <<1, 1>>, oldest |-> now]}
     ELSE manual = Unset /\ prices = {}
  /\ reader = NotReading

(***************************************************************************)
(* Reading the oracles.                                                    *)
(***************************************************************************)

\* A source is asked once, for the first feed that names it.
FirstFeed(src) == AllFeeds[Min({i \in DOMAIN AllFeeds : AllFeeds[i].src = src})]
Asked == {FirstFeed(src) : src \in Sources}

\* Pyth and Rujira feeds are volatile unless the feed says otherwise, Stride
\* feeds only if it does; a simple contract says so itself.
Volatile(f) ==
  CASE f.kind \in {"pyth", "rujira"} -> f.volatile # "no"
    [] f.kind = "stride" -> f.volatile = "yes"
    [] f.kind = "simple" -> oracle[f.src].volatile
    [] f.kind = "constant" -> FALSE

\* validate_age: a Pyth price may be as far ahead as behind, a Stride rate as
\* far ahead as it likes, a simple price not ahead at all.
WithinTolerance(f) ==
  LET t == oracle[f.src].time
  IN CASE f.kind = "pyth" -> now - t <= f.tolerance /\ t - now <= f.tolerance
       [] f.kind = "stride" -> now - t <= f.tolerance
       [] f.kind = "simple" -> t <= now /\ now - t <= f.tolerance
       [] f.kind \in {"rujira", "constant"} -> TRUE

OraclePriceAvailable == \A f \in Asked : WithinTolerance(f)

\* The publish times that count.
PublishTime(f) == IF f.kind = "rujira" THEN now ELSE oracle[f.src].time
VolatileTimes ==
  {PublishTime(f) : f \in {g \in Asked : Volatile(g) /\ (g.kind = "simple" => oracle[g.src].timed)}}

PublishTimeNewest == Max(VolatileTimes)

CalculatePublishTime == Min(VolatileTimes)

PublishTimeFound ==
  /\ VolatileTimes # {}
  /\ Max(VolatileTimes) - Min(VolatileTimes) <= VolatileDiff

\* The product of the feeds as a fraction; an inverted feed divides.
ComposePriceFeeds(feeds) ==
  FoldLeft(LAMBDA q, f :
             LET p == oracle[f.src].price
             IN IF f.inverted THEN <<q[1], q[2] * p>> ELSE <<q[1] * p, q[2]>>,
           <<1, 1>>, feeds)

\* The time of every feed that the configuration calls volatile.
ConfiguredVolatile ==
  {f \in Range(AllFeeds) :
     IF f.volatile = "unset" THEN f.kind \in {"pyth", "rujira"} ELSE f.volatile = "yes"}

ComposePrice ==
  [time |-> CalculatePublishTime, base |-> ComposePriceFeeds(Feeds),
   usd |-> ComposePriceFeeds(FeedsUsd),
   oldest |-> Min({PublishTime(f) : f \in ConfiguredVolatile} \union {MaxTime + Ahead})]

ManualPrice(m) ==
  [time |-> now, base |-> <<m.base, 1>>, usd |-> <<m.usd, 1>>, oldest |-> now]

(***************************************************************************)
(* Storing prices.                                                         *)
(***************************************************************************)
SpotPriceAppendNotOlder(p) ==
  IF Keys = {}
  THEN /\ p.time >= InstantiationTime
       /\ prices' = {p}
  ELSE prices' = IF Max(Keys) > p.time THEN prices
                 ELSE {q \in prices : q.time # p.time} \union {p}

SpotPriceAppendEarly(p) ==
  prices' = IF Keys # {} /\ Max(Keys) >= p.time THEN prices ELSE prices \union {p}

\* spot_price_append: the first price may not be older than the market, the
\* next ones must be newer; an older one is passed over without an error.
SpotPriceAppend(p) ==
  IF Keys = {}
  THEN /\ p.time >= InstantiationTime
       /\ prices' = {p}
  ELSE prices' = IF Max(Keys) >= p.time THEN prices ELSE prices \union {p}

SetManualPriceOnly(b) ==
  /\ Manual
  /\ manual' = [base |-> b, usd |-> 1, set |-> now]
  /\ UNCHANGED <<now, oracle, prices, reader>>

SetManualPrice(b) ==
  /\ Manual
  /\ manual' = [base |-> b, usd |-> 1, set |-> now]
  /\ SpotPriceAppend(ManualPrice([base |-> b, usd |-> 1, set |-> now]))
  /\ UNCHANGED <<now, oracle, reader>>

\* Every crank stores a price first.
Crank ==
  /\ IF Manual THEN SpotPriceAppend(ManualPrice(manual))
     ELSE OraclePriceAvailable /\ PublishTimeFound /\ SpotPriceAppend(ComposePrice)
  /\ UNCHANGED <<now, oracle, manual, reader>>

(***************************************************************************)
(* The sources, and the clock.                                             *)
(***************************************************************************)
Publish(src, value, t, timed, volatile) ==
  /\ ~Manual /\ KindOf(src) # "constant"
  /\ t > oracle[src].time /\ t <= now + Ahead
  /\ KindOf(src) # "simple" => timed /\ ~volatile
  /\ oracle' = [oracle EXCEPT ![src] =
       [price |-> value, time |-> IF timed THEN t ELSE now, timed |-> timed, volatile |-> volatile]]
  /\ UNCHANGED <<now, prices, manual, reader>>

Tick ==
  /\ now < MaxTime
  /\ now' = now + 1
  /\ UNCHANGED <<oracle, prices, manual, reader>>

(***************************************************************************)
(* Queries.                                                                *)
(***************************************************************************)
Notional(p) == IF CollateralIsBase THEN <<p.base[2], p.base[1]>> ELSE p.base

PricePoint(p) ==
  [time |-> p.time, base |-> p.base, usd |-> p.usd, notional |-> Notional(p)]

\* spot_price: the price in force at time t.
SpotPriceAt(t) ==
  {PricePoint(p) :
     p \in {q \in prices : q.time <= t /\ \A k \in Keys : k <= t => k <= q.time}}

CurrentSpotPrice == SpotPriceAt(now)

\* historical_spot_prices: the next keys after or before the last one seen.
BeyondAscending(order, after) == {k \in Keys : after = 0 \/ k > after}

Beyond(order, after) ==
  {k \in Keys : \/ after = 0
                \/ IF order = "ascending" THEN k > after ELSE k < after}

Page(order, after) ==
  {k \in Beyond(order, after) :
     Cardinality({j \in Beyond(order, after) :
                    IF order = "ascending" THEN j < k ELSE j > k}) < Limit}

StartReading(order) ==
  /\ reader = NotReading
  /\ Keys # {}
  /\ reader' = [order |-> order, after |-> 0, seen |-> {}, known |-> Keys]
  /\ UNCHANGED <<now, oracle, prices, manual>>

ReadPage ==
  /\ reader # NotReading
  /\ LET page == Page(reader.order, reader.after)
     IN /\ page # {}
        /\ reader' = [reader EXCEPT
             !.seen = @ \union page,
             !.after = IF reader.order = "ascending" THEN Max(page) ELSE Min(page)]
  /\ UNCHANGED <<now, oracle, prices, manual>>

Next ==
  \/ \E b \in Values : SetManualPrice(b)
  \/ Crank
  \/ \E src \in Sources, value \in Values, t \in 1..MaxTime + Ahead,
        timed, volatile \in BOOLEAN : Publish(src, value, t, timed, volatile)
  \/ Tick
  \/ \E order \in Readers : StartReading(order)
  \/ ReadPage

Spec == Init /\ [][Next]_vars

(***************************************************************************)
(* Properties.                                                             *)
(***************************************************************************)

\* The types of the stored prices.
TypeOK ==
  /\ now \in InstantiationTime..MaxTime
  /\ \A p \in prices : p.time \in InstantiationTime..MaxTime + Ahead
  /\ \A p, q \in prices : p.time = q.time => p = q
  /\ manual.set \in 0..now

\* What the market knows of the past does not change: from the moment a price
\* with a later publish time is stored, the price in force at a time is fixed,
\* so that positions and orders settle the same whenever the crank gets to them.
PastFixedStep ==
  \A t \in 0..MaxTime + Ahead :
    Keys # {} /\ t <= Max(Keys) => SpotPriceAt(t)' = SpotPriceAt(t)
PastFixed == [][PastFixedStep]_vars

\* A price that is stored is composed of answers each within the tolerance of
\* its feed, no two volatile ones further apart than allowed, under the oldest
\* of their times.
ComposedFreshStep ==
  \A p \in prices' \ prices :
    ~Manual => /\ \A f \in Range(AllFeeds) :
                    f.kind \in {"rujira", "constant"}
                      \/ now - oracle[f.src].time <= f.tolerance
               /\ \A t \in VolatileTimes : p.time <= t /\ t - p.time <= VolatileDiff
ComposedFresh == [][ComposedFreshStep]_vars

\* A price of the admin waits for the crank only when another one was stored in
\* the same block.
ManualStored ==
  Manual => \/ CurrentSpotPrice = {PricePoint([ManualPrice(manual) EXCEPT !.time = k]) : k \in {Max(Keys)}}
            \/ manual.set = Max(Keys)

\* A client that read until a page came back empty has seen every price that
\* was there when it began, whatever was stored while it read.
PagesComplete ==
  reader # NotReading /\ Page(reader.order, reader.after) = {} =>
    reader.known \subseteq reader.seen

\* "[None] means give the most recent price."
MostRecentGiven ==
  Keys # {} => CurrentSpotPrice = SpotPriceAt(Max(Keys))

\* The publish time of a stored price is not later than that of any feed that
\* the configuration calls volatile.
VolatileFeedsCount == \A p \in prices : p.time <= p.oldest
=============================================================================

-------------------------- MODULE MarketCrankProofs --------------------------
(***************************************************************************)
(* Proofs about the transaction engine, for every number of traders,       *)
(* items, prices and every value of the fees and bounds, in three parts:   *)
(* the types and the order of the crank's work; the queue of deferred      *)
(* executions, that is the order in which items are settled, the index of  *)
(* pending items, the owners they act for and the prices they are settled  *)
(* at; and the tokens the market holds, every one of which belongs to      *)
(* exactly one waiting item, order, fee, reward or the market itself, so   *)
(* that the engine implements the abstract queue of DeferredQueue.         *)
(***************************************************************************)
EXTENDS MarketCrank, FiniteSums, SequenceTheorems

------------------------------------------------------------------------------
(* PART ONE.  Types, and the order of the crank's work.                    *)
------------------------------------------------------------------------------
(* What Max returns, and that a set of indices has an element that comes   *)
(* first in the order of a key, with ties broken by the index.  The        *)
(* contract's storage maps are iterated in such orders.                    *)

\* Max returns the greatest element of a bounded set.
LEMMA MaxOfBounded ==
  ASSUME NEW S, S \subseteq Nat, S # {}, NEW n \in Nat, \A x \in S : x =< n
  PROVE  Max(S) \in S /\ \A y \in S : y =< Max(S)
<1> DEFINE D == {n - x : x \in S}
<1>1. D \subseteq Nat /\ D # {}
  <2>1. \A x \in S : n - x \in Nat
    OBVIOUS
  <2> QED BY <2>1
<1>2. PICK d \in D : \A e \in D : d =< e
  BY <1>1, LeastExists
<1>3. PICK x \in S : d = n - x
  OBVIOUS
<1>4. ASSUME NEW y \in S PROVE y =< x
  <2>1. n - y \in D
    OBVIOUS
  <2>2. n - x =< n - y
    BY <1>2, <1>3, <2>1
  <2> QED BY <2>2
<1> QED BY <1>4 DEF Max

\* A key on 1..n is bounded.
LEMMA KeysBounded ==
  ASSUME NEW n \in Nat, NEW f, \A i \in 1..n : f[i] \in Nat
  PROVE  \E b \in Nat : \A i \in 1..n : f[i] =< b
<1> DEFINE B == {k \in 0..n : \E b \in Nat : \A i \in (k + 1)..n : f[i] =< b}
<1>1. n \in B
  <2>1. \A i \in (n + 1)..n : f[i] =< 0
    OBVIOUS
  <2> QED BY <2>1
<1>2. PICK k \in B : \A j \in B : k =< j
  BY <1>1, LeastExists, B \subseteq Nat
<1>3. PICK b \in Nat : \A i \in (k + 1)..n : f[i] =< b
  OBVIOUS
<1>4. k = 0
  <2> SUFFICES ASSUME k # 0 PROVE FALSE
    OBVIOUS
  <2>1. k - 1 \in 0..n /\ f[k] \in Nat
    OBVIOUS
  <2>2. \A i \in ((k - 1) + 1)..n : f[i] =< b + f[k]
    BY <1>3, <2>1
  <2>3. k - 1 \in B
    BY <2>1, <2>2, b + f[k] \in Nat
  <2>4. k =< k - 1
    BY <1>2, <2>3
  <2> QED BY <2>1, <2>4
<1> QED BY <1>3, <1>4

\* The element with the lowest key, the lowest of them.
LEMMA FirstByKey ==
  ASSUME NEW S, S \subseteq Nat, S # {}, NEW f, \A p \in S : f[p] \in Nat
  PROVE  \E p \in S : \A q \in S : f[p] < f[q] \/ (f[p] = f[q] /\ p =< q)
<1> DEFINE F == {f[p] : p \in S}
<1>1. PICK k \in F : \A j \in F : k =< j
  BY LeastExists, F \subseteq Nat, F # {}
<1> DEFINE T == {p \in S : f[p] = k}
<1>2. PICK p \in T : \A q \in T : p =< q
  BY LeastExists, T \subseteq Nat, T # {}
<1>3. p \in S /\ f[p] = k
  OBVIOUS
<1>4. \A q \in S : f[p] < f[q] \/ (f[p] = f[q] /\ p =< q)
  BY <1>1, <1>2, <1>3
<1> QED BY <1>3, <1>4

\* The element with the highest key, the highest of them.
LEMMA LastByKey ==
  ASSUME NEW n \in Nat, NEW S, S \subseteq 1..n, S # {},
         NEW f, \A p \in 1..n : f[p] \in Nat
  PROVE  \E p \in S : \A q \in S : f[p] > f[q] \/ (f[p] = f[q] /\ p >= q)
<1>1. PICK b \in Nat : \A i \in 1..n : f[i] =< b
  BY KeysBounded
<1> DEFINE F == {b - f[p] : p \in S}
<1>2. PICK k \in F : \A j \in F : k =< j
  BY <1>1, LeastExists, F \subseteq Nat, F # {}
<1> DEFINE T == {n - p : p \in {q \in S : b - f[q] = k}}
<1>3. PICK d \in T : \A e \in T : d =< e
  BY LeastExists, T \subseteq Nat, T # {}
<1>4. PICK p \in S : d = n - p /\ b - f[p] = k
  OBVIOUS
<1>5. ASSUME NEW q \in S
      PROVE  f[p] > f[q] \/ (f[p] = f[q] /\ p >= q)
  <2>0. p \in 1..n /\ q \in 1..n
    OBVIOUS
  <2>1. /\ p \in Nat /\ q \in Nat
        /\ f[p] \in Nat /\ f[q] \in Nat /\ f[p] =< b /\ f[q] =< b
    BY <1>1, <2>0
  <2>2. b - f[p] =< b - f[q]
    BY <1>2, <1>4
  <2>3. f[p] = f[q] => p >= q
    <3> SUFFICES ASSUME f[p] = f[q] PROVE p >= q
      OBVIOUS
    <3>1. n - q \in T
      BY <1>4
    <3>2. n - p =< n - q
      BY <1>3, <1>4, <3>1
    <3> QED BY <2>1, <3>2
  <2> QED BY <2>1, <2>2, <2>3
<1> QED BY <1>5

------------------------------------------------------------------------------
(* What the operators of the engine return.                                *)

\* The crank fee is an amount.
LEMMA FeeType ==
  ASSUME TypeOK
  PROVE  Fee \in Nat
<1>1. QueueSize \in Nat
  BY LenProperties DEF TypeOK, QueueSize
<1>2. QueueSize \div QueueStep \in Nat
  BY <1>1, FeeAssumption, Z3
<1>3. \A x, y \in Nat : x * y \in Nat
  BY Z3
<1> QED BY <1>2, <1>3, FeeAssumption DEF Fee

\* The price point the crank works on is the first one not completed.
LEMMA NextPriceType ==
  ASSUME TypeOK, Uncranked # {}
  PROVE  /\ NextPrice \in Published
         /\ NextPrice \in Nat \ {0}
         /\ NextPrice > lastCompleted
         /\ \A u \in Published : u > lastCompleted => NextPrice =< u
<1>1. Uncranked \subseteq Nat
  BY DEF TypeOK, Uncranked
<1>2. NextPrice \in Uncranked /\ \A u \in Uncranked : NextPrice =< u
  BY <1>1, MinOfNats DEF NextPrice
<1> QED BY <1>2 DEF Uncranked, TypeOK

\* The records of the book, field by field.
LEMMA BookFields ==
  ASSUME TypeOK
  PROVE  /\ Len(positions) \in Nat /\ Len(orders) \in Nat /\ Len(execs) \in Nat
         /\ \A p \in 1..Len(positions) : positions[p] \in Position
         /\ \A o \in 1..Len(orders) : orders[o] \in LimitOrder
         /\ \A i \in 1..Len(execs) : execs[i] \in Exec
         /\ Open \subseteq 1..Len(positions)
         /\ OpenOrders \subseteq 1..Len(orders)
BY LenProperties, ElementOfSeq DEF TypeOK, Open, OpenOrders

\* The crank picks a position that is due, a triggered one, or a triggered
\* order, whenever there is one.
LEMMA FirstDueIn ==
  ASSUME TypeOK, NEW t, Due(t) # {}
  PROVE  FirstDue(t) \in Due(t)
<1> DEFINE f == [p \in 1..Len(positions) |-> positions[p].next]
<1>1. Due(t) \subseteq 1..Len(positions) /\ Due(t) \subseteq Nat
  BY BookFields DEF Due
<1>2. \A p \in 1..Len(positions) : f[p] = positions[p].next /\ f[p] \in Nat
  BY BookFields DEF Position
<1> HIDE DEF f
<1>3. \E p \in Due(t) : \A q \in Due(t) : f[p] < f[q] \/ (f[p] = f[q] /\ p =< q)
  BY <1>1, <1>2, FirstByKey
<1>4. \E p \in Due(t) : \A q \in Due(t) :
         \/ positions[p].next < positions[q].next
         \/ positions[p].next = positions[q].next /\ p =< q
  BY <1>1, <1>2, <1>3
<1> QED BY <1>4 DEF FirstDue

LEMMA LiquidatableIn ==
  ASSUME TypeOK, NEW v, TriggeredDesc(v) \cup TriggeredAsc(v) # {}
  PROVE  Liquidatable(v) \in Open
<1> DEFINE D == TriggeredDesc(v)
           A == TriggeredAsc(v)
           n == Len(positions)
           lo == [p \in 1..n |-> positions[p].lo]
           hi == [p \in 1..n |-> positions[p].hi]
<1>1. /\ D \subseteq Open /\ A \subseteq Open /\ D \cup A # {}
      /\ D \subseteq 1..n /\ A \subseteq 1..n /\ A \subseteq Nat /\ n \in Nat
  BY BookFields DEF TriggeredDesc, TriggeredAsc
<1>2. \A p \in 1..n : /\ lo[p] = positions[p].lo /\ lo[p] \in Nat
                      /\ hi[p] = positions[p].hi /\ hi[p] \in Nat
  BY BookFields DEF Position
<1>3. Liquidatable(v) =
        IF D # {}
        THEN CHOOSE p \in D : \A q \in D :
               \/ positions[p].lo > positions[q].lo
               \/ positions[p].lo = positions[q].lo /\ p >= q
        ELSE CHOOSE p \in A : \A q \in A :
               \/ positions[p].hi < positions[q].hi
               \/ positions[p].hi = positions[q].hi /\ p =< q
  BY DEF Liquidatable
<1> HIDE DEF lo, hi, D, A, n
<1>4. CASE D # {}
  <2>1. \E p \in D : \A q \in D : lo[p] > lo[q] \/ (lo[p] = lo[q] /\ p >= q)
    BY <1>1, <1>2, <1>4, LastByKey
  <2>2. \E p \in D : \A q \in D :
          \/ positions[p].lo > positions[q].lo
          \/ positions[p].lo = positions[q].lo /\ p >= q
    BY <1>1, <1>2, <2>1
  <2> QED BY <1>1, <1>3, <1>4, <2>2
<1>5. CASE D = {}
  <2>1. \E p \in A : \A q \in A : hi[p] < hi[q] \/ (hi[p] = hi[q] /\ p =< q)
    BY <1>1, <1>2, <1>5, FirstByKey
  <2>2. \E p \in A : \A q \in A :
          \/ positions[p].hi < positions[q].hi
          \/ positions[p].hi = positions[q].hi /\ p =< q
    BY <1>1, <1>2, <2>1
  <2> QED BY <1>1, <1>3, <1>5, <2>2
<1> QED BY <1>4, <1>5

LEMMA TriggeredOrderIn ==
  ASSUME TypeOK, NEW v, LongHit(v) \cup ShortHit(v) # {}
  PROVE  TriggeredOrder(v) \in OpenOrders
<1> DEFINE D == LongHit(v)
           A == ShortHit(v)
           n == Len(orders)
           f == [o \in 1..n |-> orders[o].trigger]
<1>1. /\ D \subseteq OpenOrders /\ A \subseteq OpenOrders /\ D \cup A # {}
      /\ D \subseteq 1..n /\ A \subseteq 1..n /\ A \subseteq Nat /\ n \in Nat
  BY BookFields DEF LongHit, ShortHit
<1>2. \A o \in 1..n : f[o] = orders[o].trigger /\ f[o] \in Nat
  BY BookFields DEF LimitOrder
<1>3. TriggeredOrder(v) =
        IF D # {}
        THEN CHOOSE o \in D : \A q \in D :
               \/ orders[o].trigger > orders[q].trigger
               \/ orders[o].trigger = orders[q].trigger /\ o >= q
        ELSE CHOOSE o \in A : \A q \in A :
               \/ orders[o].trigger < orders[q].trigger
               \/ orders[o].trigger = orders[q].trigger /\ o =< q
  BY DEF TriggeredOrder
<1> HIDE DEF f, D, A, n
<1>4. CASE D # {}
  <2>1. \E o \in D : \A q \in D : f[o] > f[q] \/ (f[o] = f[q] /\ o >= q)
    BY <1>1, <1>2, <1>4, LastByKey
  <2>2. \E o \in D : \A q \in D :
          \/ orders[o].trigger > orders[q].trigger
          \/ orders[o].trigger = orders[q].trigger /\ o >= q
    BY <1>1, <1>2, <2>1
  <2> QED BY <1>1, <1>3, <1>4, <2>2
<1>5. CASE D = {}
  <2>1. \E o \in A : \A q \in A : f[o] < f[q] \/ (f[o] = f[q] /\ o =< q)
    BY <1>1, <1>2, <1>5, FirstByKey
  <2>2. \E o \in A : \A q \in A :
          \/ orders[o].trigger < orders[q].trigger
          \/ orders[o].trigger = orders[q].trigger /\ o =< q
    BY <1>1, <1>2, <2>1
  <2> QED BY <1>1, <1>3, <1>5, <2>2
<1> QED BY <1>4, <1>5

\* Updating one record of a sequence: the others keep their place.
LEMMA UpdateSeq ==
  ASSUME NEW S, NEW s \in Seq(S), NEW t, NEW p \in 1..Len(s), NEW r \in S,
         t = [s EXCEPT ![p] = r]
  PROVE  /\ t \in Seq(S)
         /\ Len(t) = Len(s)
         /\ t[p] = r
         /\ \A q \in 1..Len(s) : q # p => t[q] = s[q]
BY ExceptSeq

\* A liquifunded position stays open, with its owner, and is next due
\* after the time it was liquifunded to.
LEMMA LiquifundedUpdate ==
  ASSUME TypeOK, NEW p \in Open, NEW e \in Nat, NEW d \in Delays,
         NEW tp \in TriggerPairs, positions' = Liquifunded(p, e, d, tp)
  PROVE  /\ positions' \in Seq(Position)
         /\ Len(positions') = Len(positions)
         /\ \A q \in 1..Len(positions) : q # p => positions'[q] = positions[q]
         /\ positions'[p].owner = positions[p].owner
         /\ positions'[p].open = TRUE
         /\ positions'[p].next = e + d
<1>1. p \in 1..Len(positions) /\ positions[p] \in Position /\ positions[p].open
  BY BookFields DEF Open
<1>2. d \in Nat /\ tp[1] \in Nat /\ tp[2] \in Nat
  BY DelaysAssumption, TriggerPairsAssumption
<1> DEFINE r == NewPosition(positions[p].owner, e, d, tp)
<1>3. /\ r \in Position
      /\ r.owner = positions[p].owner
      /\ r.open = TRUE
      /\ r.next = e + d
  BY <1>1, <1>2 DEF Position, NewPosition
<1>4. positions' = [positions EXCEPT ![p] = r]
  BY <1>1 DEF Liquifunded, TypeOK
<1>5. positions \in Seq(Position)
  BY DEF TypeOK
<1> HIDE DEF r
<1> QED BY <1>1, <1>3, <1>4, <1>5, UpdateSeq

\* A closed position keeps its owner.
LEMMA ClosedUpdate ==
  ASSUME TypeOK, NEW p \in Open, NEW l \in Nat, NEW u \in Nat,
         positions' = Closed(p, l, u)
  PROVE  /\ positions' \in Seq(Position)
         /\ Len(positions') = Len(positions)
         /\ \A q \in 1..Len(positions) : q # p => positions'[q] = positions[q]
         /\ positions'[p].owner = positions[p].owner
         /\ positions'[p].open = FALSE
<1>1. p \in 1..Len(positions) /\ positions[p] \in Position
  BY BookFields
<1> DEFINE r == [owner |-> positions[p].owner, open |-> FALSE,
                 liquifundedAt |-> l, next |-> 0, lo |-> 0, hi |-> 0,
                 settled |-> u]
<1>3. r \in Position /\ r.owner = positions[p].owner /\ r.open = FALSE
  BY <1>1 DEF Position
<1>4. positions' = [positions EXCEPT ![p] = r]
  BY <1>1 DEF Closed, TypeOK
<1>5. positions \in Seq(Position)
  BY DEF TypeOK
<1> HIDE DEF r
<1> QED BY <1>1, <1>3, <1>4, <1>5, UpdateSeq

\* A new position is the last one.
LEMMA NewPositionUpdate ==
  ASSUME TypeOK, NEW t \in Traders, NEW at \in Nat, NEW d \in Delays,
         NEW tp \in TriggerPairs,
         positions' = Append(positions, NewPosition(t, at, d, tp))
  PROVE  /\ positions' \in Seq(Position)
         /\ Len(positions') = Len(positions) + 1
         /\ \A q \in 1..Len(positions) : positions'[q] = positions[q]
         /\ positions'[Len(positions) + 1].next = at + d
<1>2. d \in Nat /\ tp[1] \in Nat /\ tp[2] \in Nat
  BY DelaysAssumption, TriggerPairsAssumption
<1>3. /\ NewPosition(t, at, d, tp) \in Position
      /\ NewPosition(t, at, d, tp).next = at + d
  BY <1>2 DEF Position, NewPosition
<1>5. positions \in Seq(Position)
  BY DEF TypeOK
<1> QED BY <1>3, <1>5, AppendProperties

\* Executing or cancelling an order only takes it off the book.
LEMMA OrderUpdate ==
  ASSUME TypeOK, NEW o \in OpenOrders,
         orders' = OffBook(o)
  PROVE  /\ orders' \in Seq(LimitOrder)
         /\ Len(orders') = Len(orders)
         /\ \A q \in 1..Len(orders) : orders'[q].owner = orders[q].owner
<1>1. o \in 1..Len(orders) /\ orders[o] \in LimitOrder
  BY BookFields
<1> DEFINE r == [orders[o] EXCEPT !.open = FALSE]
<1>3. r \in LimitOrder /\ r.owner = orders[o].owner
  BY <1>1 DEF LimitOrder
<1>4. orders' = [orders EXCEPT ![o] = r]
  BY <1>1 DEF TypeOK, OffBook
<1>5. orders \in Seq(LimitOrder)
  BY DEF TypeOK
<1> HIDE DEF r
<1>6. /\ orders' \in Seq(LimitOrder) /\ Len(orders') = Len(orders)
      /\ orders'[o] = r
      /\ \A q \in 1..Len(orders) : q # o => orders'[q] = orders[q]
  BY <1>1, <1>3, <1>4, <1>5, UpdateSeq
<1> QED BY <1>3, <1>6

\* The item in flight gets its final status; nothing else of the queue
\* changes.
LEMMA StatusUpdate ==
  ASSUME TypeOK, processed # 0, Uncranked # {},
         NEW st \in {"success", "failure"},
         execs' = SettledAs(st)
  PROVE  /\ execs' \in Seq(Exec)
         /\ Len(execs') = Len(execs)
         /\ \A i \in 1..Len(execs) :
              /\ i # processed => execs'[i] = execs[i]
              /\ execs'[i].target = execs[i].target
              /\ execs'[i].owner = execs[i].owner
              /\ execs'[i].created = execs[i].created
         /\ execs'[processed].status = st
         /\ execs'[processed].at = NextPrice
<1>1. processed \in 1..Len(execs) /\ execs[processed] \in Exec
  BY BookFields DEF TypeOK
<1>2. NextPrice \in Nat
  BY NextPriceType
<1> DEFINE r == [execs[processed] EXCEPT !.status = st, !.at = NextPrice]
<1>3. /\ r \in Exec /\ r.status = st /\ r.at = NextPrice
      /\ r.target = execs[processed].target
      /\ r.owner = execs[processed].owner
      /\ r.created = execs[processed].created
  BY <1>1, <1>2 DEF Exec
<1>4. execs' = [execs EXCEPT ![processed] = r]
  BY <1>1 DEF TypeOK, SettledAs
<1>5. execs \in Seq(Exec)
  BY DEF TypeOK
<1> HIDE DEF r
<1>6. /\ execs' \in Seq(Exec) /\ Len(execs') = Len(execs)
      /\ execs'[processed] = r
      /\ \A q \in 1..Len(execs) : q # processed => execs'[q] = execs[q]
  BY <1>1, <1>3, <1>4, <1>5, UpdateSeq
<1> QED BY <1>1, <1>3, <1>6

------------------------------------------------------------------------------
(* Type correctness.                                                       *)

\* While an item is in flight, it and its price point exist.
InFlightOK ==
  phase \in {"perform", "reply"} => processed # 0 /\ Uncranked # {}

TypeInv == TypeOK /\ InFlightOK

\* One iteration of the batch: the budget it leaves, and the price point
\* and the candidates it works on.
LEMMA DoWorkFacts ==
  ASSUME TypeOK, NEW work, DoWork(work)
  PROVE  /\ progress' \in [requested : Nat, left : Nat, paying : Nat, done : Nat]
         /\ progress'.requested = progress.requested
         /\ progress'.left = progress.left - Weight(work)
         /\ progress'.done = progress.done + Weight(work)
         /\ progress'.paying = progress.paying + (IF Paying(work) THEN 1 ELSE 0)
         /\ phase = "crank"
         /\ Uncranked # {}
         /\ work = "reset" => reset > 0
         /\ work # "reset" => ~(reset > 0)
         /\ work = "liquifunding" => Due(NextPrice) # {}
         /\ work \notin {"reset", "liquifunding"} => Due(NextPrice) = {}
         /\ work = "closeAll" => Open # {}
         /\ work = "liquidation" =>
              TriggeredDesc(prices[NextPrice]) \cup TriggeredAsc(prices[NextPrice]) # {}
         /\ work \in {"deferred", "limitOrder", "completed"} =>
              TriggeredDesc(prices[NextPrice]) \cup TriggeredAsc(prices[NextPrice]) = {}
         /\ work = "deferred" => DeferredReady(NextPrice)
         /\ work = "limitOrder" =>
              LongHit(prices[NextPrice]) \cup ShortHit(prices[NextPrice]) # {}
         /\ work = "completed" => ~DeferredReady(NextPrice)
<1>1. Weight(work) \in Nat
  BY DEF Weight, RegularWeight, CompletedWeight
<1>2. progress \in [requested : Nat, left : Nat, paying : Nat, done : Nat]
  BY DEF TypeOK
<1>3. /\ progress.left >= Weight(work)
      /\ phase = "crank"
      /\ Uncranked # {}
      /\ progress' = [requested |-> progress.requested,
                      left |-> progress.left - Weight(work),
                      paying |-> progress.paying + (IF Paying(work) THEN 1 ELSE 0),
                      done |-> progress.done + Weight(work)]
  BY DEF DoWork
<1>4. /\ progress' \in [requested : Nat, left : Nat, paying : Nat, done : Nat]
      /\ progress'.requested = progress.requested
      /\ progress'.left = progress.left - Weight(work)
      /\ progress'.done = progress.done + Weight(work)
      /\ progress'.paying = progress.paying + (IF Paying(work) THEN 1 ELSE 0)
  BY <1>1, <1>2, <1>3
<1>5. CrankWork(NextPrice) = work
  BY DEF DoWork
<1> QED BY <1>3, <1>4, <1>5 DEF CrankWork

\* Payments leave amounts.
LEMMA PayFromPotFacts ==
  ASSUME TypeOK, NEW x \in Payouts, NEW fee \in Nat, PayFromPot(x, fee)
  PROVE  pot' \in Nat /\ crankFees' \in Nat /\ rewards' \in Nat /\ balance' \in Int
BY PayoutsAssumption DEF PayFromPot, TypeOK

LEMMA MayResetFacts ==
  ASSUME TypeOK, NEW S, MayReset(S)
  PROVE  reset' \in 0..(LpCount + 1)
BY BoundsAssumption DEF MayReset, TypeOK

\* A queued item has its type, and the index entry too.
LEMMA EnqueueFacts ==
  ASSUME TypeOK, NEW t \in Traders, NEW kind \in Kinds, NEW target \in Target,
         NEW a \in Nat, Enqueue(t, kind, target, a)
  PROVE  /\ execs' \in Seq(Exec)
         /\ Len(execs') = Len(execs) + 1
         /\ \A i \in 1..Len(execs) : execs'[i] = execs[i]
         /\ execs'[Len(execs) + 1] = Item(t, kind, target, a)
         /\ pendingFor' \subseteq Target \X (Nat \ {0})
<1>1. Item(t, kind, target, a) \in Exec
  BY DEF Item, Exec, TypeOK
<1>2. execs \in Seq(Exec) /\ Len(execs) \in Nat
  BY LenProperties DEF TypeOK
<1>3. execs' = Append(execs, Item(t, kind, target, a))
  BY DEF Enqueue
<1>4. pendingFor' \subseteq Target \X (Nat \ {0})
  BY <1>2 DEF Enqueue, TypeOK
<1> QED BY <1>1, <1>2, <1>3, <1>4, AppendProperties

\* The series of prices keeps its type.
LEMMA SpotPriceAppendFacts ==
  ASSUME TypeOK, NEW u \in Nat \ {0}, NEW v \in Prices, SpotPriceAppend(u, v)
  PROVE  /\ DOMAIN prices' = Published \cup {u}
         /\ DOMAIN prices' \subseteq Nat \ {0}
         /\ prices' \in [DOMAIN prices' -> Prices]
         /\ \A w \in Published : w < u
BY DEF SpotPriceAppend, TypeOK, Published

\* The messages of traders keep the types.
LEMMA TypeTraderMsg ==
  ASSUME TypeInv, TraderMsg
  PROVE  TypeInv'
<1> USE DEF queueVars, bookVars, txVars, timeVars, moneyVars
<1>0. TypeOK /\ InFlightOK
  BY DEF TypeInv
<1>1. PICK t \in Traders :
        \/ \E k \in NewKinds, a \in Amounts : DeferNew(t, k, a)
        \/ \E p \in Open :
             \/ \E a \in Amounts : DeferAdd(t, p, a)
             \/ \E k \in UpdateKinds, a \in Amounts : DeferUpdate(t, p, k, a)
             \/ DeferClose(t, p)
             \/ NftTransfer(p, t)
        \/ \E o \in OpenOrders : DeferCancel(t, o)
  BY DEF TraderMsg
<1>2. Fee \in Nat /\ Amounts \subseteq Nat
  BY <1>0, FeeType, AmountsAssumption
<1>3. /\ \A p \in Open : <<"position", p>> \in Target /\ p \in Nat \ {0}
      /\ \A o \in OpenOrders : <<"order", o>> \in Target /\ o \in Nat \ {0}
      /\ NoTarget \in Target
  BY <1>0, BookFields DEF Target, NoTarget
<1>4. /\ Len(execs) \in Nat
      /\ NewKinds \subseteq Kinds /\ UpdateKinds \subseteq Kinds
      /\ "add" \in Kinds /\ "close" \in Kinds /\ "cancel" \in Kinds
  BY <1>0, BookFields DEF Kinds, NewKinds, PosKinds, UpdateKinds
<1>5. ASSUME NEW k \in NewKinds, NEW a \in Amounts, DeferNew(t, k, a)
      PROVE  TypeInv'
  <2>1. /\ a - Fee \in Nat
        /\ Enqueue(t, k, NoTarget, a - Fee)
    BY <1>2, <1>5 DEF DeferNew
  <2>2. /\ execs' \in Seq(Exec) /\ Len(execs') = Len(execs) + 1
        /\ pendingFor' \subseteq Target \X (Nat \ {0})
    BY <1>0, <1>3, <1>4, <2>1, EnqueueFacts
  <2>3. /\ balance' \in Int /\ crankFees' \in Nat
        /\ UNCHANGED <<processed, closing, canceling, rewards, pot>>
        /\ UNCHANGED <<bookVars, txVars, timeVars>>
        /\ phase = "idle"
    BY <1>0, <1>2, <1>5 DEF DeferNew, CanDefer, TypeOK
  <2>4. processed' \in 0..Len(execs')
    BY <1>0, <1>4, <2>2, <2>3 DEF TypeOK
  <2>5. InFlightOK'
    BY <2>3 DEF InFlightOK
  <2> QED BY <1>0, <2>2, <2>3, <2>4, <2>5 DEF TypeInv, TypeOK, Published
<1>6. ASSUME NEW p \in Open, NEW a \in Amounts, DeferAdd(t, p, a)
      PROVE  TypeInv'
  <2>1. /\ a - Fee \in Nat
        /\ Enqueue(t, "add", <<"position", p>>, a - Fee)
    BY <1>2, <1>6 DEF DeferAdd
  <2>2. /\ execs' \in Seq(Exec) /\ Len(execs') = Len(execs) + 1
        /\ pendingFor' \subseteq Target \X (Nat \ {0})
    BY <1>0, <1>3, <1>4, <2>1, EnqueueFacts
  <2>3. /\ balance' \in Int /\ crankFees' \in Nat
        /\ UNCHANGED <<processed, closing, canceling, rewards, pot>>
        /\ UNCHANGED <<bookVars, txVars, timeVars>>
        /\ phase = "idle"
    BY <1>0, <1>2, <1>6 DEF DeferAdd, CanDefer, TypeOK
  <2>4. processed' \in 0..Len(execs')
    BY <1>0, <1>4, <2>2, <2>3 DEF TypeOK
  <2>5. InFlightOK'
    BY <2>3 DEF InFlightOK
  <2> QED BY <1>0, <2>2, <2>3, <2>4, <2>5 DEF TypeInv, TypeOK, Published
<1>7. ASSUME NEW p \in Open, NEW k \in UpdateKinds, NEW a \in Amounts,
             DeferUpdate(t, p, k, a)
      PROVE  TypeInv'
  <2>1. Enqueue(t, k, <<"position", p>>, 0)
    BY <1>7 DEF DeferUpdate
  <2>2. /\ execs' \in Seq(Exec) /\ Len(execs') = Len(execs) + 1
        /\ pendingFor' \subseteq Target \X (Nat \ {0})
    BY <1>0, <1>3, <1>4, <2>1, EnqueueFacts
  <2>3. /\ balance' \in Int /\ crankFees' \in Nat /\ rewards' \in Nat
        /\ UNCHANGED <<processed, closing, canceling, pot>>
        /\ UNCHANGED <<bookVars, txVars, timeVars>>
        /\ phase = "idle"
    BY <1>0, <1>2, <1>7 DEF DeferUpdate, CanDefer, TypeOK
  <2>4. processed' \in 0..Len(execs')
    BY <1>0, <1>4, <2>2, <2>3 DEF TypeOK
  <2>5. InFlightOK'
    BY <2>3 DEF InFlightOK
  <2> QED BY <1>0, <2>2, <2>3, <2>4, <2>5 DEF TypeInv, TypeOK, Published
<1>8. ASSUME NEW p \in Open, DeferClose(t, p)
      PROVE  TypeInv'
  <2>1. Enqueue(t, "close", <<"position", p>>, 0)
    BY <1>8 DEF DeferClose
  <2>2. /\ execs' \in Seq(Exec) /\ Len(execs') = Len(execs) + 1
        /\ pendingFor' \subseteq Target \X (Nat \ {0})
    BY <1>0, <1>3, <1>4, <2>1, EnqueueFacts
  <2>3. /\ closing' \subseteq Nat \ {0}
        /\ UNCHANGED <<processed, canceling>>
        /\ UNCHANGED <<bookVars, txVars, timeVars, moneyVars>>
        /\ phase = "idle"
    BY <1>0, <1>3, <1>8 DEF DeferClose, CanDefer, TypeOK
  <2>4. processed' \in 0..Len(execs')
    BY <1>0, <1>4, <2>2, <2>3 DEF TypeOK
  <2>5. InFlightOK'
    BY <2>3 DEF InFlightOK
  <2> QED BY <1>0, <2>2, <2>3, <2>4, <2>5 DEF TypeInv, TypeOK, Published
<1>9. ASSUME NEW p \in Open, NftTransfer(p, t)
      PROVE  TypeInv'
  <2>1. p \in 1..Len(positions) /\ positions[p] \in Position
    BY <1>0, BookFields
  <2>2. [positions[p] EXCEPT !.owner = t] \in Position
    BY <2>1 DEF Position
  <2>3. positions' = [positions EXCEPT ![p] = [positions[p] EXCEPT !.owner = t]]
    BY <1>0, <1>9, <2>1 DEF NftTransfer, TypeOK
  <2>4. positions' \in Seq(Position)
    BY <1>0, <2>1, <2>2, <2>3, UpdateSeq DEF TypeOK
  <2>5. UNCHANGED <<queueVars, orders, closeAll, reset, txVars, timeVars, moneyVars>>
    BY <1>9 DEF NftTransfer
  <2> QED BY <1>0, <2>4, <2>5 DEF TypeInv, TypeOK, InFlightOK, Uncranked, Published
<1>10. ASSUME NEW o \in OpenOrders, DeferCancel(t, o)
       PROVE  TypeInv'
  <2>1. Enqueue(t, "cancel", <<"order", o>>, 0)
    BY <1>10 DEF DeferCancel
  <2>2. /\ execs' \in Seq(Exec) /\ Len(execs') = Len(execs) + 1
        /\ pendingFor' \subseteq Target \X (Nat \ {0})
    BY <1>0, <1>3, <1>4, <2>1, EnqueueFacts
  <2>3. /\ canceling' \subseteq Nat \ {0}
        /\ UNCHANGED <<processed, closing>>
        /\ UNCHANGED <<bookVars, txVars, timeVars, moneyVars>>
        /\ phase = "idle"
    BY <1>0, <1>3, <1>10 DEF DeferCancel, CanDefer, TypeOK
  <2>4. processed' \in 0..Len(execs')
    BY <1>0, <1>4, <2>2, <2>3 DEF TypeOK
  <2>5. InFlightOK'
    BY <2>3 DEF InFlightOK
  <2> QED BY <1>0, <2>2, <2>3, <2>4, <2>5 DEF TypeInv, TypeOK, Published
<1> QED BY <1>1, <1>5, <1>6, <1>7, <1>8, <1>9, <1>10

\* So do blocks, prices, the shutdown switch and the start of a batch.
LEMMA TypeOutside ==
  ASSUME TypeInv,
         \/ CloseAllPositions
         \/ Tick
         \/ \E v \in Prices : SetManualPrice(v)
         \/ \E n \in CrankExecs : Crank(n)
  PROVE  TypeInv'
<1> USE DEF queueVars, bookVars, txVars, timeVars, moneyVars
<1>0. TypeOK /\ InFlightOK
  BY DEF TypeInv
<1>1. CASE CloseAllPositions
  <2>1. /\ closeAll' \in BOOLEAN /\ phase' = "idle"
        /\ UNCHANGED <<positions, orders, reset, queueVars, txVars, timeVars, moneyVars>>
    BY <1>1 DEF CloseAllPositions
  <2> QED BY <1>0, <2>1 DEF TypeInv, TypeOK, InFlightOK, Published
<1>2. CASE Tick
  <2>1. /\ now' \in Nat \ {0} /\ phase' = "idle"
        /\ UNCHANGED <<prices, lastCompleted, queueVars, bookVars, txVars, moneyVars>>
    BY <1>0, <1>2 DEF Tick, TypeOK
  <2> QED BY <1>0, <2>1 DEF TypeInv, TypeOK, InFlightOK, Published
<1>3. ASSUME NEW v \in Prices, SetManualPrice(v)
      PROVE  TypeInv'
  <2>1. /\ SpotPriceAppend(now, v) /\ now \in Nat \ {0} /\ phase = "idle"
        /\ UNCHANGED <<now, lastCompleted, queueVars, bookVars, txVars, moneyVars>>
    BY <1>0, <1>3 DEF SetManualPrice, TypeOK
  <2>2. /\ DOMAIN prices' \subseteq Nat \ {0}
        /\ prices' \in [DOMAIN prices' -> Prices]
    BY <1>0, <2>1, SpotPriceAppendFacts
  <2> QED BY <1>0, <2>1, <2>2 DEF TypeInv, TypeOK, InFlightOK, Published
<1>4. ASSUME NEW n \in CrankExecs, Crank(n)
      PROVE  TypeInv'
  <2>1. /\ phase' = "crank"
        /\ progress' = [requested |-> n, left |-> n * RegularWeight,
                        paying |-> 0, done |-> 0]
        /\ UNCHANGED <<now, lastCompleted, replyOk, queueVars, bookVars, moneyVars>>
        /\ \/ UNCHANGED prices
           \/ \E u \in 1..now, v \in Prices : SpotPriceAppend(u, v)
    BY <1>4 DEF Crank
  <2>2. progress' \in [requested : Nat, left : Nat, paying : Nat, done : Nat]
    BY <2>1, BoundsAssumption DEF RegularWeight
  <2>3. DOMAIN prices' \subseteq Nat \ {0} /\ prices' \in [DOMAIN prices' -> Prices]
    <3>1. CASE UNCHANGED prices
      BY <1>0, <3>1 DEF TypeOK, Published
    <3>2. ASSUME NEW u \in 1..now, NEW v \in Prices, SpotPriceAppend(u, v)
          PROVE  DOMAIN prices' \subseteq Nat \ {0} /\ prices' \in [DOMAIN prices' -> Prices]
      <4>1. u \in Nat \ {0}
        BY <1>0 DEF TypeOK
      <4> QED BY <1>0, <3>2, <4>1, SpotPriceAppendFacts
    <3> QED BY <2>1, <3>1, <3>2
  <2> QED BY <1>0, <2>1, <2>2, <2>3 DEF TypeInv, TypeOK, InFlightOK, Published, Phases
<1> QED BY <1>1, <1>2, <1>3, <1>4

\* A price was published before an open position is liquifunded next.
PricedOK ==
  \A p \in Open : \E u \in Published : u =< positions[p].next

LEMMA SpotPriceTimeType ==
  ASSUME TypeOK, NEW t \in Nat, \E u \in Published : u =< t
  PROVE  SpotPriceTime(t) \in Nat
<1> DEFINE S == {u \in Published : u =< t}
<1>1. S \subseteq Nat /\ S # {} /\ \A u \in S : u =< t
  BY DEF TypeOK
<1>2. Max(S) \in S
  BY <1>1, MaxOfBounded
<1> QED BY <1>1, <1>2 DEF SpotPriceTime

\* And every kind of work of the crank.
LEMMA TypeCrankWork ==
  ASSUME TypeInv, PricedOK,
         \/ CrankReset \/ CrankLiquifund \/ CrankCloseAll \/ CrankLiquidate
         \/ CrankDeferred \/ CrankLimitOrder \/ CrankCompleted \/ CrankFinish
  PROVE  TypeInv'
<1> USE DEF queueVars, bookVars, txVars, timeVars, moneyVars
<1>0. TypeOK /\ InFlightOK
  BY DEF TypeInv
<1>1. CASE CrankReset
  <2>1. /\ DoWork("reset") /\ reset' = reset - 1
        /\ UNCHANGED <<positions, orders, closeAll, phase, replyOk,
                       queueVars, timeVars, moneyVars>>
    BY <1>1 DEF CrankReset
  <2>2. /\ progress' \in [requested : Nat, left : Nat, paying : Nat, done : Nat]
        /\ phase = "crank" /\ reset > 0
    BY <1>0, <2>1, DoWorkFacts
  <2>3. reset' \in 0..(LpCount + 1)
    BY <1>0, <2>1, <2>2, BoundsAssumption DEF TypeOK
  <2> QED BY <1>0, <2>1, <2>2, <2>3 DEF TypeInv, TypeOK, InFlightOK, Published
<1>2. CASE CrankLiquifund
  <2> DEFINE p == FirstDue(NextPrice)
             fee == Min({CrankFee, pot})
  <2>1. /\ DoWork("liquifunding")
        /\ UNCHANGED <<orders, closeAll, phase, replyOk, queueVars, timeVars>>
    BY <1>2 DEF CrankLiquifund
  <2>2. /\ progress' \in [requested : Nat, left : Nat, paying : Nat, done : Nat]
        /\ phase = "crank" /\ Due(NextPrice) # {}
    BY <1>0, <2>1, DoWorkFacts
  <2>3. p \in Open /\ p \in 1..Len(positions) /\ positions[p] \in Position
    BY <1>0, <2>2, FirstDueIn, BookFields DEF Due
  <2>4. fee \in Nat /\ fee =< pot
    BY <1>0, FeeAssumption, MinOfTwo DEF TypeOK
  <2>5. CASE /\ \E d \in Delays, tp \in TriggerPairs :
                  positions' = Liquifunded(p, positions[p].next, d, tp)
             /\ pot' = pot - fee
             /\ crankFees' = crankFees + fee
             /\ UNCHANGED <<reset, balance, rewards>>
    <3>1. positions' \in Seq(Position)
      BY <1>0, <2>3, <2>5, LiquifundedUpdate DEF Position
    <3>2. pot' \in Nat /\ crankFees' \in Nat
      BY <1>0, <2>4, <2>5 DEF TypeOK
    <3> QED BY <1>0, <2>1, <2>2, <2>5, <3>1, <3>2 DEF TypeInv, TypeOK, InFlightOK, Published
  <2>6. CASE /\ positions' = Closed(p, positions[p].liquifundedAt,
                                    SpotPriceTime(positions[p].next))
             /\ \E x \in Payouts : PayFromPot(x, fee)
             /\ MayReset(Open \ {p})
    <3>1. positions' \in Seq(Position)
      <4>1. positions[p].next \in Nat /\ positions[p].liquifundedAt \in Nat
        BY <2>3 DEF Position
      <4>2. SpotPriceTime(positions[p].next) \in Nat
        BY <1>0, <2>3, <4>1, SpotPriceTimeType DEF PricedOK
      <4> QED BY <1>0, <2>3, <2>6, <4>1, <4>2, ClosedUpdate
    <3>2. pot' \in Nat /\ crankFees' \in Nat /\ rewards' \in Nat /\ balance' \in Int
      BY <1>0, <2>4, <2>6, PayFromPotFacts
    <3>3. reset' \in 0..(LpCount + 1)
      BY <1>0, <2>6, MayResetFacts
    <3> QED BY <1>0, <2>1, <2>2, <3>1, <3>2, <3>3 DEF TypeInv, TypeOK, InFlightOK, Published
  <2> QED BY <1>2, <2>5, <2>6 DEF CrankLiquifund
<1>3. CASE CrankCloseAll
  <2> DEFINE p == Min(Open)
  <2>1. /\ DoWork("closeAll")
        /\ UNCHANGED <<orders, closeAll, phase, replyOk, queueVars, timeVars>>
        /\ \E l \in {positions[p].liquifundedAt, NextPrice} :
             positions' = Closed(p, l, NextPrice)
        /\ MayReset(Open \ {p})
        /\ \E x \in Payouts : PayFromPot(x, 0)
    BY <1>3 DEF CrankCloseAll
  <2>2. /\ progress' \in [requested : Nat, left : Nat, paying : Nat, done : Nat]
        /\ phase = "crank" /\ NextPrice \in Nat
    BY <1>0, <2>1, DoWorkFacts, NextPriceType
  <2>3. p \in Open
    <3>1. Open # {} /\ Open \subseteq Nat
      BY <1>0, <2>1, DoWorkFacts, BookFields
    <3> QED BY <3>1, MinOfNats
  <2>4. positions[p].liquifundedAt \in Nat
    BY <1>0, <2>3, BookFields DEF Position
  <2>5. positions' \in Seq(Position)
    BY <1>0, <2>1, <2>2, <2>3, <2>4, ClosedUpdate
  <2>6. 0 \in Nat
    BY <1>0, FeeAssumption, MinOfTwo DEF TypeOK
  <2>7. pot' \in Nat /\ crankFees' \in Nat /\ rewards' \in Nat /\ balance' \in Int
    BY <1>0, <2>1, <2>6, PayFromPotFacts
  <2>8. reset' \in 0..(LpCount + 1)
    BY <1>0, <2>1, MayResetFacts
  <2> QED BY <1>0, <2>1, <2>2, <2>5, <2>7, <2>8 DEF TypeInv, TypeOK, InFlightOK, Published
<1>4. CASE CrankLiquidate
  <2> DEFINE p == Liquidatable(prices[NextPrice])
  <2>1. /\ DoWork("liquidation")
        /\ UNCHANGED <<orders, closeAll, phase, replyOk, queueVars, timeVars>>
        /\ \E l \in {positions[p].liquifundedAt, NextPrice} :
             positions' = Closed(p, l, NextPrice)
        /\ MayReset(Open \ {p})
        /\ \E x \in Payouts : PayFromPot(x, Min({CrankFee, pot}))
    BY <1>4 DEF CrankLiquidate
  <2>2. /\ progress' \in [requested : Nat, left : Nat, paying : Nat, done : Nat]
        /\ phase = "crank" /\ NextPrice \in Nat
    BY <1>0, <2>1, DoWorkFacts, NextPriceType
  <2>3. p \in Open
    BY <1>0, <2>1, DoWorkFacts, LiquidatableIn
  <2>4. positions[p].liquifundedAt \in Nat
    BY <1>0, <2>3, BookFields DEF Position
  <2>5. positions' \in Seq(Position)
    BY <1>0, <2>1, <2>2, <2>3, <2>4, ClosedUpdate
  <2>6. Min({CrankFee, pot}) \in Nat
    BY <1>0, FeeAssumption, MinOfTwo DEF TypeOK
  <2>7. pot' \in Nat /\ crankFees' \in Nat /\ rewards' \in Nat /\ balance' \in Int
    BY <1>0, <2>1, <2>6, PayFromPotFacts
  <2>8. reset' \in 0..(LpCount + 1)
    BY <1>0, <2>1, MayResetFacts
  <2> QED BY <1>0, <2>1, <2>2, <2>5, <2>7, <2>8 DEF TypeInv, TypeOK, InFlightOK, Published
<1>5. CASE CrankDeferred
  <2>1. /\ DoWork("deferred")
        /\ processed' = processed + 1
        /\ closing' \subseteq closing
        /\ phase' = "perform"
        /\ UNCHANGED <<execs, pendingFor, canceling, replyOk, bookVars, timeVars, moneyVars>>
    BY <1>5 DEF CrankDeferred
  <2>2. /\ progress' \in [requested : Nat, left : Nat, paying : Nat, done : Nat]
        /\ Uncranked # {} /\ processed < Len(execs)
    BY <1>0, <2>1, DoWorkFacts DEF DeferredReady
  <2>3. processed' \in 0..Len(execs') /\ processed' # 0
    BY <1>0, <2>1, <2>2, BookFields DEF TypeOK
  <2>4. InFlightOK'
    BY <2>1, <2>2, <2>3 DEF InFlightOK, Uncranked, Published
  <2> QED BY <1>0, <2>1, <2>2, <2>3, <2>4 DEF TypeInv, TypeOK, Published, Phases
<1>6. CASE CrankLimitOrder
  <2> DEFINE o == TriggeredOrder(prices[NextPrice])
  <2>1. /\ DoWork("limitOrder")
        /\ orders' = OffBook(o)
        /\ UNCHANGED <<closeAll, reset, phase, replyOk, crankFees, rewards,
                       queueVars, timeVars>>
    BY <1>6 DEF CrankLimitOrder
  <2>2. /\ progress' \in [requested : Nat, left : Nat, paying : Nat, done : Nat]
        /\ phase = "crank" /\ NextPrice \in Nat
    BY <1>0, <2>1, DoWorkFacts, NextPriceType
  <2>3. o \in OpenOrders
    BY <1>0, <2>1, DoWorkFacts, TriggeredOrderIn
  <2>4. orders[o].owner \in Traders /\ orders[o].amount \in Nat
    BY <1>0, <2>3, BookFields DEF LimitOrder
  <2>5. orders' \in Seq(LimitOrder)
    BY <1>0, <2>1, <2>3, OrderUpdate
  <2>6. positions' \in Seq(Position) /\ pot' \in Nat /\ balance' \in Int
    <3>1. CASE /\ \E d \in Delays, tp \in TriggerPairs :
                    positions' = Append(positions,
                                   NewPosition(orders[o].owner, NextPrice, d, tp))
               /\ pot' = pot + orders[o].amount
               /\ balance' = balance
      <4>1. positions' \in Seq(Position)
        BY <1>0, <2>2, <2>4, <3>1, NewPositionUpdate
      <4>2. pot \in Nat /\ balance \in Int
        BY <1>0 DEF TypeOK
      <4> HIDE DEF o
      <4> QED BY <2>4, <3>1, <4>1, <4>2
    <3>2. CASE /\ balance' = balance - orders[o].amount
               /\ UNCHANGED <<positions, pot>>
      BY <1>0, <2>4, <3>2 DEF TypeOK
    <3> QED BY <1>6, <3>1, <3>2 DEF CrankLimitOrder
  <2> QED BY <1>0, <2>1, <2>2, <2>5, <2>6 DEF TypeInv, TypeOK, InFlightOK, Published
<1>7. CASE CrankCompleted
  <2>1. /\ DoWork("completed")
        /\ lastCompleted' = NextPrice
        /\ UNCHANGED <<now, prices, phase, replyOk, queueVars, bookVars, moneyVars>>
    BY <1>7 DEF CrankCompleted
  <2>2. /\ progress' \in [requested : Nat, left : Nat, paying : Nat, done : Nat]
        /\ phase = "crank" /\ NextPrice \in Nat
    BY <1>0, <2>1, DoWorkFacts, NextPriceType
  <2> QED BY <1>0, <2>1, <2>2 DEF TypeInv, TypeOK, InFlightOK, Published
<1>8. CASE CrankFinish
  <2>1. /\ crankFees' = crankFees - CrankPayment
        /\ rewards' = rewards + CrankPayment
        /\ phase' = "idle" /\ progress' = NoProgress
        /\ UNCHANGED <<replyOk, balance, pot, queueVars, bookVars, timeVars>>
    BY <1>8 DEF CrankFinish
  <2>2. CrankReward * progress.paying \in Nat
    <3>1. CrankReward \in Nat /\ progress.paying \in Nat
      BY <1>0, FeeAssumption DEF TypeOK
    <3>2. \A x, y \in Nat : x * y \in Nat
      BY Z3
    <3> QED BY <3>1, <3>2
  <2>3. CrankPayment \in Nat /\ CrankPayment =< crankFees
    BY <1>0, <2>2, MinOfTwo DEF CrankPayment, TypeOK
  <2>4. progress' \in [requested : Nat, left : Nat, paying : Nat, done : Nat]
    BY <2>1 DEF NoProgress
  <2>5. crankFees' \in Nat /\ rewards' \in Nat
    BY <1>0, <2>1, <2>3 DEF TypeOK
  <2> QED BY <1>0, <2>1, <2>4, <2>5 DEF TypeInv, TypeOK, InFlightOK, Published, Phases
<1> QED BY <1>1, <1>2, <1>3, <1>4, <1>5, <1>6, <1>7, <1>8

\* A successful submessage: what it finds and what it records.
LEMMA SucceedFacts ==
  ASSUME TypeInv, NEW kinds, Succeed(kinds)
  PROVE  /\ execs' \in Seq(Exec)
         /\ Len(execs') = Len(execs)
         /\ InFlightOK'
         /\ processed' \in 0..Len(execs')
         /\ processed # 0
         /\ Cur \in Exec
         /\ NextPrice \in Nat
         /\ replyOk' = TRUE /\ phase = "perform" /\ phase' = "reply"
         /\ UNCHANGED <<processed, pendingFor, closing, canceling, progress>>
         /\ UNCHANGED timeVars
<1>1. TypeOK /\ InFlightOK /\ phase = "perform"
  BY DEF TypeInv, Succeed
<1>2. processed # 0 /\ Uncranked # {}
  BY <1>1 DEF InFlightOK
<1>3. Cur \in Exec
  BY <1>1, <1>2, BookFields DEF Cur, TypeOK
<1>4. execs' = SettledAs("success")
  BY DEF Succeed
<1>5. execs' \in Seq(Exec) /\ Len(execs') = Len(execs)
  BY <1>1, <1>2, <1>4, StatusUpdate
<1>6. /\ replyOk' = TRUE /\ phase' = "reply"
      /\ UNCHANGED <<processed, pendingFor, closing, canceling, progress>>
      /\ UNCHANGED timeVars
  BY DEF Succeed
<1>7. InFlightOK'
  BY <1>2, <1>6 DEF InFlightOK, Uncranked, Published, timeVars
<1>8. processed' \in 0..Len(execs')
  BY <1>1, <1>5, <1>6 DEF TypeOK
<1> QED BY <1>1, <1>2, <1>3, <1>5, <1>6, <1>7, <1>8, NextPriceType

\* The submessages and their replies keep the types.
LEMMA TypePerform ==
  ASSUME TypeInv,
         \/ PerformOpen \/ PerformPlace \/ PerformUpdate \/ PerformClose
         \/ PerformCancel \/ PerformFail \/ Reply
  PROVE  TypeInv'
<1> USE DEF queueVars, bookVars, txVars, timeVars, moneyVars
<1>0. TypeOK /\ InFlightOK
  BY DEF TypeInv
<1>1. CASE PerformOpen
  <2>1. /\ Succeed({"open"})
        /\ \E d \in Delays, tp \in TriggerPairs :
             positions' = Append(positions, NewPosition(Cur.owner, NextPrice, d, tp))
        /\ pot' = pot + Cur.amount
        /\ UNCHANGED <<orders, closeAll, reset, balance, crankFees, rewards>>
    BY <1>1 DEF PerformOpen
  <2>2. Cur.owner \in Traders /\ Cur.amount \in Nat /\ NextPrice \in Nat
    BY <2>1, SucceedFacts DEF Exec
  <2>3. positions' \in Seq(Position)
    BY <1>0, <2>1, <2>2, NewPositionUpdate
  <2>4. pot' \in Nat
    BY <1>0, <2>1, <2>2 DEF TypeOK
  <2>5. /\ execs' \in Seq(Exec) /\ InFlightOK' /\ processed' \in 0..Len(execs')
        /\ replyOk' = TRUE /\ phase' = "reply"
        /\ UNCHANGED <<pendingFor, closing, canceling, progress, timeVars>>
    BY <2>1, SucceedFacts
  <2> QED BY <1>0, <2>1, <2>3, <2>4, <2>5 DEF TypeInv, TypeOK, Published, Phases
<1>2. CASE PerformPlace
  <2>1. /\ Succeed({"place"})
        /\ Cur.amount > CrankFee
        /\ \E ot \in OrderTriggers :
             orders' = Append(orders, [owner |-> Cur.owner, open |-> TRUE,
                                       dir |-> ot[1], trigger |-> ot[2],
                                       amount |-> Cur.amount - CrankFee])
        /\ crankFees' = crankFees + CrankFee
        /\ UNCHANGED <<positions, closeAll, reset, balance, rewards, pot>>
    BY <1>2 DEF PerformPlace
  <2>2. Cur.owner \in Traders /\ Cur.amount - CrankFee \in Nat
    <3>1. Cur.owner \in Traders /\ Cur.amount \in Nat
      BY <2>1, SucceedFacts DEF Exec
    <3> QED BY <2>1, <3>1, FeeAssumption
  <2>3. orders' \in Seq(LimitOrder)
    <3>1. PICK ot \in OrderTriggers :
             orders' = Append(orders, [owner |-> Cur.owner, open |-> TRUE,
                                       dir |-> ot[1], trigger |-> ot[2],
                                       amount |-> Cur.amount - CrankFee])
      BY <2>1
    <3>2. [owner |-> Cur.owner, open |-> TRUE, dir |-> ot[1], trigger |-> ot[2],
           amount |-> Cur.amount - CrankFee] \in LimitOrder
      BY <2>2, OrderTriggersAssumption DEF LimitOrder
    <3> QED BY <1>0, <3>1, <3>2, AppendProperties DEF TypeOK
  <2>4. crankFees' \in Nat
    BY <1>0, <2>1, FeeAssumption DEF TypeOK
  <2>5. /\ execs' \in Seq(Exec) /\ InFlightOK' /\ processed' \in 0..Len(execs')
        /\ replyOk' = TRUE /\ phase' = "reply"
        /\ UNCHANGED <<pendingFor, closing, canceling, progress, timeVars>>
    BY <2>1, SucceedFacts
  <2> QED BY <1>0, <2>1, <2>3, <2>4, <2>5 DEF TypeInv, TypeOK, Published, Phases
<1>3. CASE PerformUpdate
  <2>1. /\ Succeed({"add", "update"})
        /\ Cur.target[2] \in Open
        /\ \E d \in Delays, tp \in TriggerPairs :
             positions' = Liquifunded(Cur.target[2], NextPrice, d, tp)
        /\ \/ pot' = pot + Cur.amount /\ UNCHANGED <<balance, crankFees, rewards>>
           \/ \E x \in Payouts : PayFromPot(x, 0)
        /\ UNCHANGED <<orders, closeAll, reset>>
    BY <1>3 DEF PerformUpdate
  <2>2. Cur.amount \in Nat /\ NextPrice \in Nat
    BY <2>1, SucceedFacts DEF Exec
  <2>3. positions' \in Seq(Position)
    BY <1>0, <2>1, <2>2, LiquifundedUpdate
  <2>4. pot' \in Nat /\ crankFees' \in Nat /\ rewards' \in Nat /\ balance' \in Int
    <3>1. CASE pot' = pot + Cur.amount /\ UNCHANGED <<balance, crankFees, rewards>>
      BY <1>0, <2>2, <3>1 DEF TypeOK
    <3>2. CASE \E x \in Payouts : PayFromPot(x, 0)
      BY <1>0, <3>2, PayFromPotFacts
    <3> QED BY <2>1, <3>1, <3>2
  <2>5. /\ execs' \in Seq(Exec) /\ InFlightOK' /\ processed' \in 0..Len(execs')
        /\ replyOk' = TRUE /\ phase' = "reply"
        /\ UNCHANGED <<pendingFor, closing, canceling, progress, timeVars>>
    BY <2>1, SucceedFacts
  <2> QED BY <1>0, <2>1, <2>3, <2>4, <2>5 DEF TypeInv, TypeOK, Published, Phases
<1>4. CASE PerformClose
  <2>1. /\ Succeed({"close", "closeSlippage"})
        /\ Cur.target[2] \in Open
        /\ \E l \in {positions[Cur.target[2]].liquifundedAt, NextPrice} :
             positions' = Closed(Cur.target[2], l, NextPrice)
        /\ \E x \in Payouts : PayFromPot(x, 0)
        /\ MayReset(Open \ {Cur.target[2]})
        /\ UNCHANGED <<orders, closeAll>>
    BY <1>4 DEF PerformClose
  <2>2. positions[Cur.target[2]].liquifundedAt \in Nat /\ NextPrice \in Nat
    BY <1>0, <2>1, SucceedFacts, BookFields DEF Position
  <2>3. positions' \in Seq(Position)
    BY <1>0, <2>1, <2>2, ClosedUpdate
  <2>4. pot' \in Nat /\ crankFees' \in Nat /\ rewards' \in Nat /\ balance' \in Int
    BY <1>0, <2>1, PayFromPotFacts
  <2>5. /\ execs' \in Seq(Exec) /\ InFlightOK' /\ processed' \in 0..Len(execs')
        /\ replyOk' = TRUE /\ phase' = "reply"
        /\ UNCHANGED <<pendingFor, closing, canceling, progress, timeVars>>
    BY <2>1, SucceedFacts
  <2>6. reset' \in 0..(LpCount + 1)
    BY <1>0, <2>1, MayResetFacts
  <2> QED BY <1>0, <2>1, <2>3, <2>4, <2>5, <2>6 DEF TypeInv, TypeOK, Published, Phases
<1>5. CASE PerformCancel
  <2>1. /\ Succeed({"cancel"})
        /\ Cur.target[2] \in OpenOrders
        /\ orders' = OffBook(Cur.target[2])
        /\ balance' = balance - orders[Cur.target[2]].amount
        /\ UNCHANGED <<positions, closeAll, reset, crankFees, rewards, pot>>
    BY <1>5 DEF PerformCancel
  <2>2. orders[Cur.target[2]].amount \in Nat
    BY <1>0, <2>1, BookFields DEF LimitOrder
  <2>3. orders' \in Seq(LimitOrder)
    BY <1>0, <2>1, OrderUpdate
  <2>4. balance' \in Int
    BY <1>0, <2>1, <2>2 DEF TypeOK
  <2>5. /\ execs' \in Seq(Exec) /\ InFlightOK' /\ processed' \in 0..Len(execs')
        /\ replyOk' = TRUE /\ phase' = "reply"
        /\ UNCHANGED <<pendingFor, closing, canceling, progress, timeVars>>
    BY <2>1, SucceedFacts
  <2> QED BY <1>0, <2>1, <2>3, <2>4, <2>5 DEF TypeInv, TypeOK, Published, Phases
<1>6. CASE PerformFail
  <2>1. /\ phase = "perform" /\ phase' = "reply" /\ replyOk' = FALSE
        /\ UNCHANGED <<progress, queueVars, bookVars, timeVars, moneyVars>>
    BY <1>6 DEF PerformFail
  <2>2. InFlightOK'
    BY <1>0, <2>1 DEF InFlightOK, Uncranked, Published
  <2> QED BY <1>0, <2>1, <2>2 DEF TypeInv, TypeOK, Published, Phases
<1>7. CASE Reply
  <2>1. /\ phase = "reply" /\ phase' = "crank"
        /\ UNCHANGED <<processed, closing, canceling, replyOk, progress,
                       crankFees, rewards, pot, bookVars, timeVars>>
        /\ pendingFor' \subseteq pendingFor
    BY <1>7 DEF Reply, DropPending
  <2>2. processed # 0 /\ Uncranked # {} /\ Cur \in Exec
    BY <1>0, <2>1, BookFields DEF InFlightOK, Cur, TypeOK
  <2>3. execs' \in Seq(Exec) /\ Len(execs') = Len(execs) /\ balance' \in Int
    <3>1. CASE UNCHANGED <<execs, balance>>
      BY <1>0, <3>1 DEF TypeOK
    <3>2. CASE execs' = SettledAs("failure") /\ balance' = balance - Cur.amount
      <4>1. balance' \in Int
        BY <1>0, <2>2, <3>2 DEF TypeOK, Exec
      <4> QED BY <1>0, <2>2, <3>2, <4>1, StatusUpdate
    <3> QED BY <1>7, <3>1, <3>2 DEF Reply, SettleReply
  <2>4. processed' \in 0..Len(execs')
    BY <1>0, <2>1, <2>3 DEF TypeOK
  <2> QED BY <1>0, <2>1, <2>3, <2>4 DEF TypeInv, TypeOK, InFlightOK, Published, Phases
<1> QED BY <1>1, <1>2, <1>3, <1>4, <1>5, <1>6, <1>7

------------------------------------------------------------------------------
(* The schedule of liquifundings.                                          *)

\* No step makes an open position due earlier than it was, and a position
\* that is new or updated is due after the price point worked on.
LEMMA PositionStep ==
  ASSUME TypeInv, PricedOK, [Next]_vars
  PROVE  \A q \in Open' :
           \/ q \in Open /\ positions'[q].next >= positions[q].next
           \/ Uncranked # {} /\ positions'[q].next > NextPrice
<1> USE DEF queueVars, bookVars, txVars, timeVars, moneyVars
<1> DEFINE Later(q) == \/ q \in Open /\ positions'[q].next >= positions[q].next
                       \/ Uncranked # {} /\ positions'[q].next > NextPrice
<1>0. TypeOK
  BY DEF TypeInv
<1>a. \A q \in 1..Len(positions) : positions[q].next \in Nat
  BY <1>0, BookFields DEF Position
<1>b. Open = {q \in 1..Len(positions) : positions[q].open}
  BY DEF Open
<1>c. Open' = {q \in 1..Len(positions') : positions'[q].open}
  BY DEF Open
<1>d. Delays \subseteq Nat \ {0} /\ Len(positions) \in Nat
  BY <1>0, BookFields, DelaysAssumption
<1>1. CASE UNCHANGED positions
  BY <1>1, <1>a, <1>b, <1>c
<1>2. ASSUME NEW p \in Open, NEW t \in Traders, NftTransfer(p, t)
      PROVE  \A q \in Open' : Later(q)
  <2>1. positions' = [positions EXCEPT ![p].owner = t]
    BY <1>2 DEF NftTransfer
  <2>2. positions \in [1..Len(positions) -> Position] /\ p \in 1..Len(positions)
    BY <1>0, BookFields, LenProperties DEF TypeOK
  <2>3. /\ DOMAIN positions' = 1..Len(positions)
        /\ \A q \in 1..Len(positions) :
             /\ positions'[q].next = positions[q].next
             /\ positions'[q].open = positions[q].open
    BY <2>1, <2>2 DEF Position
  <2>4. positions' \in Seq(Position)
    <3>1. [positions[p] EXCEPT !.owner = t] \in Position
      BY <2>2 DEF Position
    <3>2. positions' = [positions EXCEPT ![p] = [positions[p] EXCEPT !.owner = t]]
      BY <2>1, <2>2
    <3> QED BY <1>0, <2>2, <3>1, <3>2, UpdateSeq DEF TypeOK
  <2>5. Len(positions') = Len(positions)
    BY <1>d, <2>3, <2>4, LenProperties
  <2> QED BY <1>a, <1>b, <1>c, <2>3, <2>5
<1>3. ASSUME NEW p \in Open, NEW l \in Nat, NEW u \in Nat,
             positions' = Closed(p, l, u)
      PROVE  \A q \in Open' : Later(q)
  <2>1. /\ Len(positions') = Len(positions)
        /\ \A q \in 1..Len(positions) : q # p => positions'[q] = positions[q]
        /\ positions'[p].open = FALSE
    BY <1>0, <1>3, ClosedUpdate
  <2> QED BY <1>a, <1>b, <1>c, <2>1
<1>4. ASSUME NEW p \in Open, NEW e \in Nat, NEW d \in Delays, NEW tp \in TriggerPairs,
             positions' = Liquifunded(p, e, d, tp),
             e = positions[p].next \/ (Uncranked # {} /\ e = NextPrice)
      PROVE  \A q \in Open' : Later(q)
  <2>1. /\ Len(positions') = Len(positions)
        /\ \A q \in 1..Len(positions) : q # p => positions'[q] = positions[q]
        /\ positions'[p].next = e + d
    BY <1>0, <1>4, LiquifundedUpdate
  <2>2. e + d > e /\ e + d \in Nat
    BY <1>d
  <2> QED BY <1>4, <1>a, <1>b, <1>c, <2>1, <2>2
<1>5. ASSUME Uncranked # {}, NEW t \in Traders, NEW d \in Delays, NEW tp \in TriggerPairs,
             positions' = Append(positions, NewPosition(t, NextPrice, d, tp))
      PROVE  \A q \in Open' : Later(q)
  <2>1. NextPrice \in Nat
    BY <1>0, <1>5, NextPriceType
  <2>2. /\ Len(positions') = Len(positions) + 1
        /\ \A q \in 1..Len(positions) : positions'[q] = positions[q]
        /\ positions'[Len(positions) + 1].next = NextPrice + d
    BY <1>0, <1>5, <2>1, NewPositionUpdate
  <2>3. NextPrice + d > NextPrice
    BY <1>d, <2>1
  <2>4. \A q \in 1..Len(positions') : q \in 1..Len(positions) \/ q = Len(positions) + 1
    BY <1>d, <2>2
  <2> QED BY <1>5, <1>a, <1>b, <1>c, <2>2, <2>3, <2>4
<1>6. CASE TraderMsg
  <2>1. UNCHANGED positions \/ \E p \in Open, t \in Traders : NftTransfer(p, t)
    BY <1>6 DEF TraderMsg, DeferNew, DeferAdd, DeferUpdate, DeferClose, DeferCancel
  <2> QED BY <1>1, <1>2, <2>1
<1>7. CASE CrankLiquifund
  <2> DEFINE p == FirstDue(NextPrice)
  <2>1. DoWork("liquifunding") /\ Due(NextPrice) # {}
    BY <1>0, <1>7, DoWorkFacts DEF CrankLiquifund
  <2>2. p \in Open /\ positions[p] \in Position
    BY <1>0, <2>1, FirstDueIn, BookFields DEF Due
  <2>3. CASE \E d \in Delays, tp \in TriggerPairs :
               positions' = Liquifunded(p, positions[p].next, d, tp)
    BY <1>4, <2>2, <2>3 DEF Position
  <2>4. CASE positions' = Closed(p, positions[p].liquifundedAt,
                                 SpotPriceTime(positions[p].next))
    <3>1. positions[p].next \in Nat /\ positions[p].liquifundedAt \in Nat
      BY <2>2 DEF Position
    <3>2. SpotPriceTime(positions[p].next) \in Nat
      BY <1>0, <2>2, <3>1, SpotPriceTimeType DEF PricedOK
    <3> QED BY <1>3, <2>2, <2>4, <3>1, <3>2
  <2> QED BY <1>7, <2>3, <2>4 DEF CrankLiquifund
<1>8. CASE CrankCloseAll
  <2>1. DoWork("closeAll") /\ Open # {} /\ Open \subseteq Nat /\ NextPrice \in Nat
    BY <1>0, <1>8, DoWorkFacts, BookFields, NextPriceType DEF CrankCloseAll
  <2>2. Min(Open) \in Open
    BY <2>1, MinOfNats
  <2>3. \E l \in {positions[Min(Open)].liquifundedAt, NextPrice} :
          positions' = Closed(Min(Open), l, NextPrice)
    BY <1>8 DEF CrankCloseAll
  <2>4. positions[Min(Open)].liquifundedAt \in Nat
    BY <1>0, <2>2, BookFields DEF Position
  <2> QED BY <1>3, <2>1, <2>2, <2>3, <2>4
<1>9. CASE CrankLiquidate
  <2> DEFINE p == Liquidatable(prices[NextPrice])
  <2>1. DoWork("liquidation") /\ p \in Open /\ NextPrice \in Nat
    BY <1>0, <1>9, DoWorkFacts, LiquidatableIn, NextPriceType DEF CrankLiquidate
  <2>2. \E l \in {positions[p].liquifundedAt, NextPrice} :
          positions' = Closed(p, l, NextPrice)
    BY <1>9 DEF CrankLiquidate
  <2>3. positions[p].liquifundedAt \in Nat
    BY <1>0, <2>1, BookFields DEF Position
  <2> QED BY <1>3, <2>1, <2>2, <2>3
<1>10. CASE CrankLimitOrder
  <2> DEFINE o == TriggeredOrder(prices[NextPrice])
  <2>1. DoWork("limitOrder") /\ o \in OpenOrders /\ Uncranked # {}
    BY <1>0, <1>10, DoWorkFacts, TriggeredOrderIn DEF CrankLimitOrder
  <2>2. orders[o].owner \in Traders
    BY <1>0, <2>1, BookFields DEF LimitOrder
  <2>3. \/ UNCHANGED positions
        \/ \E d \in Delays, tp \in TriggerPairs :
             positions' = Append(positions, NewPosition(orders[o].owner, NextPrice, d, tp))
    BY <1>10 DEF CrankLimitOrder
  <2> QED BY <1>1, <1>5, <2>1, <2>2, <2>3
<1>11. CASE PerformOpen
  <2>1. Succeed({"open"}) /\ Cur \in Exec
    BY <1>11, SucceedFacts DEF PerformOpen
  <2>2. Uncranked # {} /\ Cur.owner \in Traders
    BY <2>1 DEF Succeed, TypeInv, InFlightOK, Exec
  <2>3. \E d \in Delays, tp \in TriggerPairs :
          positions' = Append(positions, NewPosition(Cur.owner, NextPrice, d, tp))
    BY <1>11 DEF PerformOpen
  <2> QED BY <1>5, <2>2, <2>3
<1>12. CASE PerformUpdate
  <2>1. Succeed({"add", "update"}) /\ NextPrice \in Nat
    BY <1>12, SucceedFacts DEF PerformUpdate
  <2>2. Uncranked # {}
    BY <2>1 DEF Succeed, TypeInv, InFlightOK
  <2>3. Cur.target[2] \in Open /\ \E d \in Delays, tp \in TriggerPairs :
          positions' = Liquifunded(Cur.target[2], NextPrice, d, tp)
    BY <1>12 DEF PerformUpdate
  <2> QED BY <1>4, <2>1, <2>2, <2>3
<1>13. CASE PerformClose
  <2>1. Succeed({"close", "closeSlippage"}) /\ NextPrice \in Nat
    BY <1>13, SucceedFacts DEF PerformClose
  <2>2. Cur.target[2] \in Open /\
        \E l \in {positions[Cur.target[2]].liquifundedAt, NextPrice} :
          positions' = Closed(Cur.target[2], l, NextPrice)
    BY <1>13 DEF PerformClose
  <2>3. positions[Cur.target[2]].liquifundedAt \in Nat
    BY <1>0, <2>2, BookFields DEF Position
  <2> QED BY <1>3, <2>1, <2>2, <2>3
<1>14. CASE \/ CloseAllPositions \/ Tick
            \/ \E v \in Prices : SetManualPrice(v)
            \/ \E n \in CrankExecs : Crank(n)
            \/ CrankReset \/ CrankDeferred \/ CrankCompleted \/ CrankFinish
            \/ PerformPlace \/ PerformCancel \/ PerformFail \/ Reply
            \/ UNCHANGED vars
  <2>1. UNCHANGED positions
    BY <1>14 DEF CloseAllPositions, Tick, SetManualPrice, Crank, CrankReset,
      CrankDeferred, CrankCompleted, CrankFinish, PerformPlace, PerformCancel,
      PerformFail, Reply, vars
  <2> QED BY <1>1, <2>1
<1> QED BY <1>6, <1>7, <1>8, <1>9, <1>10, <1>11, <1>12, <1>13, <1>14 DEF Next, TxStep

\* Prices are only added, and only at the end of the series; the crank
\* completes a price point only when nothing else is left to do there, and
\* an item is in flight only after the crank has sent it.
LEMMA PriceStep ==
  ASSUME TypeInv, [Next]_vars
  PROVE  /\ Published \subseteq Published'
         /\ \A u \in Published' \ Published : \A w \in Published : w < u
         /\ lastCompleted' = lastCompleted \/ CrankCompleted
         /\ phase' = "perform" => CrankDeferred \/ UNCHANGED vars
<1> USE DEF queueVars, bookVars, txVars, timeVars, moneyVars
<1>0. TypeOK
  BY DEF TypeInv
<1>1. CASE TraderMsg
  BY <1>1 DEF TraderMsg, DeferNew, DeferAdd, DeferUpdate, DeferClose, DeferCancel,
    NftTransfer, CanDefer, Published
<1>2. CASE CloseAllPositions \/ Tick
  BY <1>2 DEF CloseAllPositions, Tick, Published
<1>3. ASSUME NEW v \in Prices, NEW u \in Nat \ {0}, SpotPriceAppend(u, v),
             phase' # "perform", lastCompleted' = lastCompleted
      PROVE  /\ Published \subseteq Published'
             /\ \A x \in Published' \ Published : \A w \in Published : w < x
             /\ lastCompleted' = lastCompleted \/ CrankCompleted
             /\ phase' = "perform" => CrankDeferred \/ UNCHANGED vars
  <2>1. Published' = Published \cup {u} /\ \A w \in Published : w < u
    BY <1>0, <1>3, SpotPriceAppendFacts DEF Published
  <2> QED BY <1>3, <2>1
<1>4. ASSUME NEW v \in Prices, SetManualPrice(v)
      PROVE  \E u \in Nat \ {0} : SpotPriceAppend(u, v)
                 /\ phase' # "perform" /\ lastCompleted' = lastCompleted
  BY <1>0, <1>4 DEF SetManualPrice, TypeOK
<1>5. ASSUME NEW n \in CrankExecs, Crank(n)
      PROVE  /\ phase' # "perform" /\ lastCompleted' = lastCompleted
             /\ \/ UNCHANGED prices
                \/ \E u \in Nat \ {0}, v \in Prices : SpotPriceAppend(u, v)
  <2>1. \A u \in 1..now : u \in Nat \ {0}
    BY <1>0 DEF TypeOK
  <2> QED BY <1>5, <2>1 DEF Crank
<1>6. CASE \E n \in CrankExecs : Crank(n)
  <2>1. PICK n \in CrankExecs : Crank(n)
    BY <1>6
  <2>2. CASE UNCHANGED prices
    BY <1>5, <2>1, <2>2 DEF Published
  <2> QED BY <1>3, <1>5, <2>1, <2>2
<1>7. CASE \/ CrankReset \/ CrankLiquifund \/ CrankCloseAll \/ CrankLiquidate
           \/ CrankLimitOrder \/ CrankFinish
  <2>1. phase = "crank"
    BY <1>7 DEF CrankReset, CrankLiquifund, CrankCloseAll, CrankLiquidate,
      CrankLimitOrder, CrankFinish, DoWork
  <2> QED BY <1>7, <2>1 DEF CrankReset, CrankLiquifund, CrankCloseAll, CrankLiquidate,
    CrankLimitOrder, CrankFinish, Published
<1>8. CASE CrankDeferred \/ UNCHANGED vars
  BY <1>8 DEF CrankDeferred, vars, Published
<1>9. CASE CrankCompleted
  BY <1>9 DEF CrankCompleted, DoWork, Published
<1>10. CASE \/ PerformOpen \/ PerformPlace \/ PerformUpdate \/ PerformClose
            \/ PerformCancel \/ PerformFail \/ Reply
  BY <1>10 DEF PerformOpen, PerformPlace, PerformUpdate, PerformClose,
    PerformCancel, PerformFail, Reply, Succeed, Published
<1> QED BY <1>1, <1>2, <1>3, <1>4, <1>6, <1>7, <1>8, <1>9, <1>10 DEF Next, TxStep

\* The inductive invariant of the schedule: its types and its times.
ScheduleInv ==
  /\ TypeInv
  /\ PricedOK
  /\ LiquifundedInTime
  /\ NoItemBeforeLiquidation

LEMMA ScheduleInit ==
  Init => ScheduleInv
<1> SUFFICES ASSUME Init PROVE ScheduleInv
  OBVIOUS
<1>1. <<>> \in Seq(Exec) /\ <<>> \in Seq(Position) /\ <<>> \in Seq(LimitOrder)
  BY EmptySeq
<1>2. Open = {}
  BY EmptySeq DEF Init, Open
<1>3. Published = {}
  BY DEF Init, Published
<1>4. TypeOK
  <2>1. Published \subseteq Nat \ {0} /\ prices \in [Published -> Prices]
    BY <1>3 DEF Init
  <2>2. progress \in [requested : Nat, left : Nat, paying : Nat, done : Nat]
    BY DEF Init, NoProgress
  <2>3. processed \in 0..Len(execs) /\ reset \in 0..(LpCount + 1)
    BY BoundsAssumption DEF Init
  <2>4. InitPot \in Nat /\ InitPot \in Int
    BY BoundsAssumption
  <2>5. closeAll \in BOOLEAN /\ replyOk \in BOOLEAN /\ phase \in Phases
    BY DEF Init, Phases
  <2> QED BY <1>1, <2>1, <2>2, <2>3, <2>4, <2>5 DEF Init, TypeOK
<1>5. phase = "idle"
  BY DEF Init
<1> QED BY <1>2, <1>4, <1>5 DEF ScheduleInv, TypeInv, InFlightOK, PricedOK,
      LiquifundedInTime, NoItemBeforeLiquidation

LEMMA ScheduleStep ==
  ASSUME ScheduleInv, [Next]_vars
  PROVE  ScheduleInv'
<1>0. TypeInv /\ PricedOK /\ TypeOK
  BY DEF ScheduleInv, TypeInv
<1>1. TypeInv'
  <2>1. CASE UNCHANGED vars
    BY <1>0, <2>1 DEF TypeInv, TypeOK, InFlightOK, Uncranked, Published, vars,
      queueVars, bookVars, txVars, timeVars, moneyVars
  <2> QED BY <1>0, <2>1, TypeTraderMsg, TypeOutside, TypeCrankWork, TypePerform
          DEF Next, TxStep
<1>2. \A q \in Open' : positions'[q].next \in Nat
  <2>1. Open' = {q \in 1..Len(positions') : positions'[q].open}
    BY DEF Open
  <2>2. positions' \in Seq(Position)
    BY <1>1 DEF TypeInv, TypeOK
  <2>3. \A q \in 1..Len(positions') : positions'[q] \in Position
    BY <2>2, ElementOfSeq
  <2> QED BY <2>1, <2>3 DEF Position
<1>3. \A q \in Open : positions[q].next \in Nat
  BY <1>0, BookFields DEF Position
<1>4. PricedOK'
  <2> SUFFICES ASSUME NEW q \in Open'
               PROVE  \E u \in Published' : u =< positions'[q].next
    BY DEF PricedOK
  <2>1. CASE q \in Open /\ positions'[q].next >= positions[q].next
    <3>1. PICK u \in Published : u =< positions[q].next
      BY <1>0, <2>1 DEF PricedOK
    <3>2. u \in Nat /\ u \in Published'
      BY <1>0, PriceStep DEF TypeOK
    <3> QED BY <1>2, <1>3, <2>1, <3>1, <3>2
  <2>2. CASE Uncranked # {} /\ positions'[q].next > NextPrice
    <3>1. NextPrice \in Published' /\ NextPrice \in Nat
      BY <1>0, <2>2, NextPriceType, PriceStep
    <3> QED BY <1>2, <2>2, <3>1
  <2> QED BY <1>0, <2>1, <2>2, PositionStep
<1>5. \A q \in Open' : positions'[q].next > lastCompleted'
  <2> TAKE q \in Open'
  <2>1. lastCompleted \in Nat
    BY <1>0 DEF TypeOK
  <2>2. CASE lastCompleted' = lastCompleted
    <3>1. CASE q \in Open /\ positions'[q].next >= positions[q].next
      <4>1. positions[q].next > lastCompleted
        BY <3>1 DEF ScheduleInv, LiquifundedInTime
      <4> QED BY <1>2, <1>3, <2>1, <2>2, <3>1, <4>1
    <3>2. CASE Uncranked # {} /\ positions'[q].next > NextPrice
      <4>1. NextPrice \in Nat /\ NextPrice > lastCompleted
        BY <1>0, <3>2, NextPriceType
      <4> QED BY <1>2, <2>1, <2>2, <3>2, <4>1
    <3> QED BY <1>0, <3>1, <3>2, PositionStep
  <2>3. CASE CrankCompleted
    <3>1. DoWork("completed") /\ lastCompleted' = NextPrice /\ UNCHANGED positions
      BY <2>3 DEF CrankCompleted, bookVars
    <3>2. Due(NextPrice) = {} /\ NextPrice \in Nat
      BY <1>0, <3>1, DoWorkFacts, NextPriceType
    <3>3. q \in Open
      BY <3>1 DEF Open
    <3> QED BY <1>3, <3>1, <3>2, <3>3 DEF Due
  <2> QED BY <1>0, <2>2, <2>3, PriceStep
<1>6. ASSUME phase' = "perform"
      PROVE  /\ \A p \in Open' : positions'[p].next > NextPrice'
             /\ reset' = 0
             /\ Uncranked' # {}
             /\ (TriggeredDesc(prices[NextPrice]) \cup TriggeredAsc(prices[NextPrice]))' = {}
  <2>1. CASE CrankDeferred
    <3>1. /\ DoWork("deferred")
          /\ UNCHANGED <<positions, reset, prices, lastCompleted>>
      BY <2>1 DEF CrankDeferred, bookVars, timeVars
    <3>2. /\ Due(NextPrice) = {} /\ Uncranked # {} /\ ~(reset > 0)
          /\ TriggeredDesc(prices[NextPrice]) \cup TriggeredAsc(prices[NextPrice]) = {}
      BY <1>0, <3>1, DoWorkFacts
    <3>3. NextPrice \in Nat /\ reset \in Nat
      BY <1>0, <3>2, NextPriceType, BoundsAssumption DEF TypeOK
    <3>4. Uncranked' = Uncranked
      BY <3>1 DEF Uncranked, Published
    <3>5. NextPrice' = NextPrice /\ Open' = Open
      BY <3>1, <3>4 DEF NextPrice, Open
    <3>6. \A p \in Open : positions[p].next > NextPrice
      BY <1>3, <3>2, <3>3 DEF Due
    <3>7. (TriggeredDesc(prices[NextPrice]) \cup TriggeredAsc(prices[NextPrice]))'
            = TriggeredDesc(prices[NextPrice]) \cup TriggeredAsc(prices[NextPrice])
      BY <3>1, <3>5 DEF TriggeredDesc, TriggeredAsc
    <3> QED BY <3>1, <3>2, <3>3, <3>4, <3>5, <3>6, <3>7
  <2>2. CASE UNCHANGED vars
    <3>1. /\ UNCHANGED <<phase, positions, reset, prices, lastCompleted>>
      BY <2>2 DEF vars, bookVars, timeVars, txVars
    <3>2. Uncranked' = Uncranked
      BY <3>1 DEF Uncranked, Published
    <3>3. NextPrice' = NextPrice /\ Open' = Open
      BY <3>1, <3>2 DEF NextPrice, Open
    <3>4. (TriggeredDesc(prices[NextPrice]) \cup TriggeredAsc(prices[NextPrice]))'
            = TriggeredDesc(prices[NextPrice]) \cup TriggeredAsc(prices[NextPrice])
      BY <3>1, <3>3 DEF TriggeredDesc, TriggeredAsc
    <3> QED BY <1>6, <3>1, <3>2, <3>3, <3>4
            DEF ScheduleInv, LiquifundedInTime, NoItemBeforeLiquidation
  <2> QED BY <1>0, <1>6, <2>1, <2>2, PriceStep
<1> QED BY <1>1, <1>4, <1>5, <1>6 DEF ScheduleInv, LiquifundedInTime, NoItemBeforeLiquidation

LEMMA ScheduleInvariant ==
  Spec => []ScheduleInv
<1>1. ScheduleInv /\ [Next]_vars => ScheduleInv'
  BY ScheduleStep
<1> QED BY ScheduleInit, <1>1, PTL DEF Spec

\* Every storage item of the engine keeps its type, through every
\* interleaving of messages and transaction steps: fees, rewards and the
\* market's pot never become negative, ids stay within what was issued, and the crank's choices
\* (CHOOSE) are always defined.
THEOREM TypeCorrect ==
  Spec => []TypeOK
<1>1. ScheduleInv => TypeOK
  BY DEF ScheduleInv, TypeInv
<1> QED BY <1>1, ScheduleInvariant, PTL

\* No price point is completed, and no deferred item runs, while an open
\* position is due for liquifunding at that price (crank_work).
THEOREM Liquifunding ==
  Spec => []LiquifundedInTime
<1>1. ScheduleInv => LiquifundedInTime
  BY DEF ScheduleInv
<1> QED BY <1>1, ScheduleInvariant, PTL

\* No deferred item runs at a price that liquidates an open position, or
\* while the liquidity pool is being reset (crank_work).
THEOREM LiquidationFirst ==
  Spec => []NoItemBeforeLiquidation
<1>1. ScheduleInv => NoItemBeforeLiquidation
  BY DEF ScheduleInv
<1> QED BY <1>1, ScheduleInvariant, PTL

------------------------------------------------------------------------------
(* PART TWO.  The queue of deferred executions.                            *)
------------------------------------------------------------------------------
(* Every step, seen from the queue.                                        *)

\* Steps outside of submessages that do not touch the queue.
QuietStep ==
  /\ UNCHANGED <<execs, processed, pendingFor>>
  /\ phase \notin {"perform", "reply"}
  /\ phase' \notin {"perform", "reply"}

\* A trader's message, checked against the book, is queued.
SubmitStep ==
  \E t \in Traders, kind \in Kinds, target \in Target, a \in Nat :
    /\ Enqueue(t, kind, target, a)
    /\ target[1] = "position" => OwnsPosition(t, target[2])
    /\ target[1] = "order" => target[2] \in OpenOrders /\ orders[target[2]].owner = t
    /\ UNCHANGED <<processed, positions, orders, now, prices, lastCompleted>>
    /\ phase = "idle" /\ phase' = "idle"

\* A submessage succeeds.
SuccessStep ==
  /\ phase = "perform" /\ phase' = "reply" /\ replyOk' = TRUE
  /\ execs' = SettledAs("success")
  /\ UNCHANGED <<processed, pendingFor, now, prices, lastCompleted>>

LEMMA StepKinds ==
  ASSUME TypeInv, [Next]_vars
  PROVE  \/ QuietStep \/ SubmitStep \/ CrankDeferred \/ SuccessStep
         \/ PerformFail \/ Reply \/ UNCHANGED vars
<1> USE DEF queueVars, bookVars, txVars, timeVars, moneyVars
<1>0. TypeOK
  BY DEF TypeInv
<1>1. CASE TraderMsg
  <2>1. PICK t \in Traders :
          \/ \E k \in NewKinds, a \in Amounts : DeferNew(t, k, a)
          \/ \E p \in Open :
               \/ \E a \in Amounts : DeferAdd(t, p, a)
               \/ \E k \in UpdateKinds, a \in Amounts : DeferUpdate(t, p, k, a)
               \/ DeferClose(t, p)
               \/ NftTransfer(p, t)
          \/ \E o \in OpenOrders : DeferCancel(t, o)
    BY <1>1 DEF TraderMsg
  <2>2. Fee \in Nat /\ Amounts \subseteq Nat
    BY <1>0, FeeType, AmountsAssumption
  <2>3. /\ \A p \in Open : <<"position", p>> \in Target
        /\ \A o \in OpenOrders : <<"order", o>> \in Target
        /\ NoTarget \in Target
        /\ NewKinds \subseteq Kinds /\ UpdateKinds \subseteq Kinds
        /\ "add" \in Kinds /\ "close" \in Kinds /\ "cancel" \in Kinds
    BY <1>0, BookFields DEF Target, NoTarget, Kinds, NewKinds, PosKinds, UpdateKinds
  <2>4. ASSUME NEW k \in NewKinds, NEW a \in Amounts, DeferNew(t, k, a)
        PROVE  SubmitStep
    <3>1. a - Fee \in Nat /\ Enqueue(t, k, NoTarget, a - Fee)
      BY <2>2, <2>4 DEF DeferNew
    <3>2. /\ UNCHANGED <<processed, positions, orders, now, prices, lastCompleted>>
          /\ phase = "idle" /\ phase' = "idle"
      BY <2>4 DEF DeferNew, CanDefer
    <3>3. NoTarget[1] = "none"
      BY DEF NoTarget
    <3> QED BY <2>3, <3>1, <3>2, <3>3 DEF SubmitStep
  <2>5. ASSUME NEW p \in Open, NEW kind \in Kinds, NEW a \in Nat,
               Enqueue(t, kind, <<"position", p>>, a), OwnsPosition(t, p),
               UNCHANGED <<processed, positions, orders, now, prices, lastCompleted>>,
               phase = "idle" /\ phase' = "idle"
        PROVE  SubmitStep
    <3>1. <<"position", p>>[1] = "position" /\ <<"position", p>>[2] = p
      OBVIOUS
    <3> QED BY <2>3, <2>5, <3>1 DEF SubmitStep
  <2>6. ASSUME NEW p \in Open, NEW a \in Amounts, DeferAdd(t, p, a)
        PROVE  SubmitStep
    <3>1. a - Fee \in Nat
      BY <2>2, <2>6 DEF DeferAdd
    <3> QED BY <2>3, <2>5, <2>6, <3>1 DEF DeferAdd, CanDefer
  <2>7. ASSUME NEW p \in Open, NEW k \in UpdateKinds, NEW a \in Amounts,
               DeferUpdate(t, p, k, a)
        PROVE  SubmitStep
    BY <2>3, <2>5, <2>7 DEF DeferUpdate, CanDefer
  <2>8. ASSUME NEW p \in Open, DeferClose(t, p)
        PROVE  SubmitStep
    BY <2>3, <2>5, <2>8 DEF DeferClose, CanDefer
  <2>9. ASSUME NEW p \in Open, NftTransfer(p, t)
        PROVE  QuietStep
    BY <2>9 DEF NftTransfer, QuietStep
  <2>10. ASSUME NEW o \in OpenOrders, DeferCancel(t, o)
         PROVE  SubmitStep
    <3>1. <<"order", o>>[1] = "order" /\ <<"order", o>>[2] = o
      OBVIOUS
    <3>2. /\ Enqueue(t, "cancel", <<"order", o>>, 0)
          /\ orders[o].owner = t
          /\ UNCHANGED <<processed, positions, orders, now, prices, lastCompleted>>
          /\ phase = "idle" /\ phase' = "idle"
      BY <2>10 DEF DeferCancel, CanDefer
    <3> QED BY <2>3, <3>1, <3>2 DEF SubmitStep
  <2> QED BY <2>1, <2>4, <2>6, <2>7, <2>8, <2>9, <2>10
<1>2. CASE \/ CloseAllPositions \/ Tick
           \/ \E v \in Prices : SetManualPrice(v)
           \/ \E n \in CrankExecs : Crank(n)
           \/ CrankReset \/ CrankLiquifund \/ CrankCloseAll \/ CrankLiquidate
           \/ CrankLimitOrder \/ CrankCompleted \/ CrankFinish
  BY <1>2 DEF QuietStep, CloseAllPositions, Tick, SetManualPrice, Crank, DoWork,
    CrankReset, CrankLiquifund, CrankCloseAll, CrankLiquidate, CrankLimitOrder,
    CrankCompleted, CrankFinish
<1>3. ASSUME NEW kinds, Succeed(kinds)
      PROVE  SuccessStep
  BY <1>3 DEF Succeed, SuccessStep
<1>4. CASE PerformOpen \/ PerformPlace \/ PerformUpdate \/ PerformClose \/ PerformCancel
  BY <1>3, <1>4 DEF PerformOpen, PerformPlace, PerformUpdate, PerformClose, PerformCancel
<1> QED BY <1>1, <1>2, <1>4 DEF Next, TxStep

------------------------------------------------------------------------------
(* First in, first out.                                                    *)

\* SettledInOrder is inductive, given the types.
LEMMA OrderStep ==
  ASSUME TypeInv, TypeOK', SettledInOrder, [Next]_vars
  PROVE  SettledInOrder'
<1> USE DEF queueVars, txVars, timeVars
<1>0. TypeOK /\ InFlightOK
  BY DEF TypeInv
<1>1. Len(execs) \in Nat /\ processed \in 0..Len(execs)
  BY <1>0, BookFields DEF TypeOK
<1>2. CASE QuietStep \/ UNCHANGED vars
  BY <1>2 DEF QuietStep, vars, SettledInOrder, InFlight, Cur
<1>3. CASE SubmitStep
  <2>1. PICK t \in Traders, kind \in Kinds, target \in Target, a \in Nat :
          Enqueue(t, kind, target, a)
    BY <1>3 DEF SubmitStep
  <2>2. /\ Len(execs') = Len(execs) + 1
        /\ \A i \in 1..Len(execs) : execs'[i] = execs[i]
        /\ execs'[Len(execs) + 1].status = "pending"
    <3>1. Item(t, kind, target, a).status = "pending"
      BY DEF Item
    <3> QED BY <1>0, <2>1, <3>1, EnqueueFacts
  <2>3. processed' = processed /\ phase = "idle" /\ phase' = "idle"
    BY <1>3 DEF SubmitStep
  <2>4. InFlight = {} /\ InFlight' = {}
    BY <2>3 DEF InFlight
  <2>5. ASSUME NEW i \in 1..Len(execs')
        PROVE  execs'[i].status = "pending" <=> i > processed'
    <3>1. CASE i \in 1..Len(execs)
      BY <2>2, <2>3, <2>4, <3>1 DEF SettledInOrder
    <3>2. CASE i = Len(execs) + 1
      BY <1>1, <2>2, <2>3, <3>2
    <3> QED BY <1>1, <2>2, <3>1, <3>2
  <2> QED BY <2>3, <2>5 DEF SettledInOrder
<1>4. CASE CrankDeferred
  <2>1. /\ DoWork("deferred") /\ processed' = processed + 1
        /\ phase' = "perform" /\ execs' = execs
    BY <1>4 DEF CrankDeferred
  <2>2. phase = "crank" /\ processed < Len(execs)
    BY <1>0, <2>1, DoWorkFacts DEF DeferredReady
  <2>3. InFlight = {} /\ InFlight' = {processed + 1}
    BY <2>1, <2>2 DEF InFlight
  <2>4. execs[processed + 1].status = "pending"
    BY <1>1, <2>2, <2>3 DEF SettledInOrder
  <2>5. ASSUME NEW i \in 1..Len(execs), i # processed + 1
        PROVE  execs[i].status = "pending" <=> i > processed + 1
    BY <1>1, <2>2, <2>3, <2>5 DEF SettledInOrder
  <2>6. Cur'.status = "pending"
    BY <2>1, <2>4 DEF Cur
  <2> QED BY <2>1, <2>3, <2>5, <2>6 DEF SettledInOrder
<1>5. ASSUME phase \in {"perform", "reply"}, processed' = processed,
             NEW st \in {"success", "failure"}, execs' = SettledAs(st)
      PROVE  /\ Len(execs') = Len(execs)
             /\ \A i \in 1..Len(execs) :
                  i # processed => (execs'[i].status = "pending" <=> i > processed)
             /\ execs'[processed].status = st
  <2>1. processed # 0 /\ Uncranked # {}
    BY <1>0, <1>5 DEF InFlightOK
  <2>2. /\ Len(execs') = Len(execs)
        /\ \A i \in 1..Len(execs) : i # processed => execs'[i] = execs[i]
        /\ execs'[processed].status = st
    BY <1>0, <1>5, <2>1, StatusUpdate
  <2>3. InFlight = {processed}
    BY <1>5 DEF InFlight
  <2> QED BY <2>2, <2>3 DEF SettledInOrder
<1>6. CASE SuccessStep
  <2>1. /\ phase = "perform" /\ phase' = "reply" /\ replyOk' = TRUE
        /\ processed' = processed /\ execs' = SettledAs("success")
    BY <1>6 DEF SuccessStep
  <2>2. /\ Len(execs') = Len(execs)
        /\ \A i \in 1..Len(execs) :
             i # processed => (execs'[i].status = "pending" <=> i > processed)
        /\ execs'[processed].status = "success"
    BY <1>5, <2>1
  <2>3. InFlight' = {processed} /\ Cur'.status = "success"
    BY <2>1, <2>2 DEF InFlight, Cur
  <2> QED BY <2>1, <2>2, <2>3 DEF SettledInOrder
<1>7. CASE PerformFail
  <2>1. /\ phase = "perform" /\ phase' = "reply" /\ replyOk' = FALSE
        /\ processed' = processed /\ execs' = execs
    BY <1>7 DEF PerformFail
  <2>2. InFlight' = InFlight /\ Cur' = Cur
    BY <2>1 DEF InFlight, Cur
  <2>3. Cur.status = "pending"
    BY <2>1 DEF SettledInOrder
  <2> QED BY <2>1, <2>2, <2>3 DEF SettledInOrder
<1>8. CASE Reply
  <2>1. phase = "reply" /\ phase' = "crank" /\ processed' = processed
    BY <1>8 DEF Reply
  <2>2. InFlight = {processed} /\ InFlight' = {}
    BY <2>1 DEF InFlight
  <2>3. processed \in 1..Len(execs)
    BY <1>0, <1>1, <2>1 DEF InFlightOK
  <2>4. CASE Cur.status = "success" /\ UNCHANGED <<execs, balance>>
    <3>1. \A i \in 1..Len(execs) : execs[i].status = "pending" <=> i > processed
      <4> TAKE i \in 1..Len(execs)
      <4>1. CASE i = processed
        BY <1>1, <2>4, <4>1 DEF Cur
      <4>2. CASE i # processed
        BY <2>2, <4>2 DEF SettledInOrder
      <4> QED BY <4>1, <4>2
    <3> QED BY <2>1, <2>4, <3>1 DEF SettledInOrder
  <2>5. CASE Cur.status = "pending" /\ execs' = SettledAs("failure")
    <3>1. /\ Len(execs') = Len(execs)
          /\ \A i \in 1..Len(execs) :
               i # processed => (execs'[i].status = "pending" <=> i > processed)
          /\ execs'[processed].status = "failure"
      BY <1>5, <2>1, <2>5
    <3>2. \A i \in 1..Len(execs) : execs'[i].status = "pending" <=> i > processed
      <4> TAKE i \in 1..Len(execs)
      <4>1. CASE i = processed
        BY <1>1, <3>1, <4>1
      <4>2. CASE i # processed
        BY <3>1, <4>2
      <4> QED BY <4>1, <4>2
    <3> QED BY <2>1, <3>1, <3>2 DEF SettledInOrder
  <2> QED BY <1>8, <2>4, <2>5 DEF Reply, SettleReply
<1> QED BY <1>2, <1>3, <1>4, <1>6, <1>7, <1>8, StepKinds

------------------------------------------------------------------------------
(* The index of pending items.                                             *)

\* What was queued does not change, and a step adds one unsettled item,
\* settles the one in flight, or neither.
LEMMA UnsettledStep ==
  ASSUME TypeInv, [Next]_vars
  PROVE  /\ Len(execs) \in Nat /\ processed \in 0..Len(execs)
         /\ Unsettled \subseteq 1..Len(execs)
         /\ \A i \in 1..Len(execs) : /\ execs'[i].target = execs[i].target
                                     /\ execs'[i].owner = execs[i].owner
                                     /\ execs'[i].created = execs[i].created
         /\ \/ /\ SubmitStep
               /\ Len(execs') = Len(execs) + 1
               /\ Unsettled' = Unsettled \cup {Len(execs) + 1}
            \/ /\ Reply
               /\ Len(execs') = Len(execs)
               /\ processed \in Unsettled
               /\ Unsettled' = Unsettled \ {processed}
            \/ /\ ~SubmitStep
               /\ Len(execs') = Len(execs)
               /\ pendingFor' = pendingFor
               /\ Unsettled' = Unsettled
<1> USE DEF queueVars, txVars, timeVars
<1>0. TypeOK /\ InFlightOK
  BY DEF TypeInv
<1>1. Len(execs) \in Nat /\ processed \in 0..Len(execs)
  BY <1>0, BookFields DEF TypeOK
<1>2. Unsettled = {i \in 1..Len(execs) :
                     i > processed \/ (i = processed /\ phase \in {"perform", "reply"})}
  <2>1. phase \in {"perform", "reply"} => processed # 0
    BY <1>0 DEF InFlightOK
  <2> QED BY <1>1, <2>1 DEF Unsettled, InFlight
<1> DEFINE Goal ==
         /\ \A i \in 1..Len(execs) : /\ execs'[i].target = execs[i].target
                                     /\ execs'[i].owner = execs[i].owner
                                     /\ execs'[i].created = execs[i].created
         /\ \/ /\ SubmitStep
               /\ Len(execs') = Len(execs) + 1
               /\ Unsettled' = Unsettled \cup {Len(execs) + 1}
            \/ /\ Reply
               /\ Len(execs') = Len(execs)
               /\ processed \in Unsettled
               /\ Unsettled' = Unsettled \ {processed}
            \/ /\ ~SubmitStep
               /\ Len(execs') = Len(execs)
               /\ pendingFor' = pendingFor
               /\ Unsettled' = Unsettled
<1>3. SubmitStep =>
        /\ Len(execs') = Len(execs) + 1
        /\ \A i \in 1..Len(execs) : execs'[i] = execs[i]
        /\ processed' = processed /\ phase = "idle" /\ phase' = "idle"
  <2> SUFFICES ASSUME SubmitStep
               PROVE  /\ Len(execs') = Len(execs) + 1
                      /\ \A i \in 1..Len(execs) : execs'[i] = execs[i]
                      /\ processed' = processed /\ phase = "idle" /\ phase' = "idle"
    OBVIOUS
  <2>1. PICK t \in Traders, kind \in Kinds, target \in Target, a \in Nat :
          Enqueue(t, kind, target, a)
    BY DEF SubmitStep
  <2>2. processed' = processed /\ phase = "idle" /\ phase' = "idle"
    BY DEF SubmitStep
  <2> QED BY <1>0, <2>1, <2>2, EnqueueFacts
<1>4. CASE QuietStep \/ UNCHANGED vars
  <2>1. UNCHANGED <<execs, processed, pendingFor>>
    BY <1>4 DEF QuietStep, vars
  <2>2. InFlight' = InFlight
    BY <1>4 DEF QuietStep, vars, InFlight
  <2>3. Unsettled' = Unsettled
    BY <2>1, <2>2 DEF Unsettled
  <2>4. ~SubmitStep
    BY <1>1, <1>3, <2>1
  <2> QED BY <1>1, <1>2, <2>1, <2>3, <2>4
<1>5. CASE SubmitStep
  <2>1. /\ Len(execs') = Len(execs) + 1
        /\ \A i \in 1..Len(execs) : execs'[i] = execs[i]
        /\ processed' = processed /\ phase = "idle" /\ phase' = "idle"
    BY <1>3, <1>5
  <2>2. InFlight = {} /\ InFlight' = {}
    BY <2>1 DEF InFlight
  <2>3. Unsettled' = Unsettled \cup {Len(execs) + 1}
    BY <1>1, <2>1, <2>2 DEF Unsettled
  <2> QED BY <1>1, <1>2, <1>5, <2>1, <2>3
<1>6. CASE CrankDeferred
  <2>1. /\ DoWork("deferred") /\ processed' = processed + 1
        /\ phase' = "perform" /\ UNCHANGED <<execs, pendingFor>>
    BY <1>6 DEF CrankDeferred
  <2>2. phase = "crank" /\ processed < Len(execs)
    BY <1>0, <2>1, DoWorkFacts DEF DeferredReady
  <2>3. InFlight = {} /\ InFlight' = {processed + 1}
    BY <2>1, <2>2 DEF InFlight
  <2>4. Unsettled' = Unsettled
    BY <1>1, <2>1, <2>2, <2>3 DEF Unsettled
  <2>5. ~SubmitStep
    BY <1>1, <1>3, <2>1
  <2> QED BY <1>1, <1>2, <2>1, <2>4, <2>5
<1>7. ASSUME phase \in {"perform", "reply"}, UNCHANGED processed,
             NEW st \in {"success", "failure"}, execs' = SettledAs(st)
      PROVE  /\ Len(execs') = Len(execs)
             /\ \A i \in 1..Len(execs) : /\ execs'[i].target = execs[i].target
                                         /\ execs'[i].owner = execs[i].owner
                                         /\ execs'[i].created = execs[i].created
  <2>1. processed # 0 /\ Uncranked # {}
    BY <1>0, <1>7 DEF InFlightOK
  <2> QED BY <1>0, <1>7, <2>1, StatusUpdate
<1>8. CASE SuccessStep
  <2>1. /\ phase = "perform" /\ phase' = "reply"
        /\ execs' = SettledAs("success") /\ UNCHANGED <<processed, pendingFor>>
    BY <1>8 DEF SuccessStep
  <2>2. InFlight' = InFlight
    BY <2>1 DEF InFlight
  <2>3. Len(execs') = Len(execs)
    BY <1>7, <2>1
  <2>4. Unsettled' = Unsettled
    BY <2>1, <2>2, <2>3 DEF Unsettled
  <2>5. ~SubmitStep
    BY <1>3, <2>1
  <2> QED BY <1>1, <1>2, <1>7, <2>1, <2>3, <2>4, <2>5
<1>9. CASE PerformFail
  <2>1. /\ phase = "perform" /\ phase' = "reply"
        /\ UNCHANGED <<execs, processed, pendingFor>>
    BY <1>9 DEF PerformFail
  <2>2. InFlight' = InFlight
    BY <2>1 DEF InFlight
  <2>3. Unsettled' = Unsettled
    BY <2>1, <2>2 DEF Unsettled
  <2>4. ~SubmitStep
    BY <1>3, <2>1
  <2> QED BY <1>1, <1>2, <2>1, <2>3, <2>4
<1>10. CASE Reply
  <2>1. /\ phase = "reply" /\ phase' = "crank" /\ UNCHANGED processed
        /\ execs' = execs \/ execs' = SettledAs("failure")
    BY <1>10 DEF Reply, SettleReply
  <2>2. /\ Len(execs') = Len(execs)
        /\ \A i \in 1..Len(execs) : /\ execs'[i].target = execs[i].target
                                    /\ execs'[i].owner = execs[i].owner
                                    /\ execs'[i].created = execs[i].created
    BY <1>7, <2>1
  <2>3. InFlight = {processed} /\ InFlight' = {}
    BY <2>1 DEF InFlight
  <2>4. processed \in Unsettled /\ Unsettled' = Unsettled \ {processed}
    BY <1>1, <2>1, <2>2, <2>3 DEF Unsettled
  <2> QED BY <1>1, <1>2, <1>10, <2>2, <2>4
<1>11. Goal
  BY <1>4, <1>5, <1>6, <1>8, <1>9, <1>10, StepKinds
<1> QED BY <1>1, <1>2, <1>11

\* PendingIndexExact is inductive.
LEMMA IndexStep ==
  ASSUME TypeInv, PendingIndexExact, [Next]_vars
  PROVE  PendingIndexExact'
<1> DEFINE J == {j \in Unsettled : execs[j].target # NoTarget}
           J1 == {j \in Unsettled' : execs'[j].target # NoTarget}
<1>0. TypeOK
  BY DEF TypeInv
<1>1. /\ Len(execs) \in Nat /\ Unsettled \subseteq 1..Len(execs)
      /\ \A i \in 1..Len(execs) : execs'[i].target = execs[i].target
  BY UnsettledStep
<1>2. pendingFor = {<<execs[i].target, i>> : i \in J}
  BY DEF PendingIndexExact
<1>3. SUFFICES pendingFor' = {<<execs'[i].target, i>> : i \in J1}
  BY DEF PendingIndexExact
<1>4. CASE SubmitStep /\ Unsettled' = Unsettled \cup {Len(execs) + 1}
  <2>1. PICK t \in Traders, kind \in Kinds, target \in Target, a \in Nat :
          Enqueue(t, kind, target, a)
    BY <1>4 DEF SubmitStep
  <2>2. Item(t, kind, target, a).target = target
    BY DEF Item
  <2>3. execs'[Len(execs) + 1].target = target
    BY <1>0, <2>1, <2>2, EnqueueFacts
  <2>4. pendingFor' = IF target = NoTarget THEN pendingFor
                      ELSE pendingFor \cup {<<target, Len(execs) + 1>>}
    BY <2>1 DEF Enqueue
  <2>5. CASE target = NoTarget
    <3>1. J1 = J
      BY <1>1, <1>4, <2>3, <2>5
    <3> QED BY <1>1, <1>2, <2>4, <2>5, <3>1
  <2>6. CASE target # NoTarget
    <3>1. J1 = J \cup {Len(execs) + 1}
      BY <1>1, <1>4, <2>3, <2>6
    <3>2. \A i \in J : execs'[i].target = execs[i].target
      BY <1>1
    <3>3. {<<execs'[i].target, i>> : i \in J1}
            = {<<execs'[i].target, i>> : i \in J} \cup {<<target, Len(execs) + 1>>}
      BY <2>3, <3>1
    <3>4. {<<execs'[i].target, i>> : i \in J} = {<<execs[i].target, i>> : i \in J}
      BY <3>2
    <3> QED BY <1>2, <2>4, <2>6, <3>3, <3>4
  <2> QED BY <2>5, <2>6
<1>5. CASE Reply /\ Unsettled' = Unsettled \ {processed} /\ processed \in Unsettled
  <2>1. pendingFor' = pendingFor \ {<<execs[processed].target, processed>>}
    BY <1>5 DEF Reply, DropPending, Cur
  <2>2. J1 = J \ {processed}
    BY <1>1, <1>5
  <2>3. \A i \in J : execs'[i].target = execs[i].target
    BY <1>1
  <2>4. {<<execs'[i].target, i>> : i \in J1}
          = {<<execs[i].target, i>> : i \in J \ {processed}}
    BY <2>2, <2>3
  <2>5. {<<execs[i].target, i>> : i \in J \ {processed}}
          = {<<execs[i].target, i>> : i \in J} \ {<<execs[processed].target, processed>>}
    OBVIOUS
  <2> QED BY <1>2, <2>1, <2>4, <2>5
<1>6. CASE pendingFor' = pendingFor /\ Unsettled' = Unsettled
  <2>1. J1 = J
    BY <1>1, <1>6
  <2> QED BY <1>1, <1>2, <1>6, <2>1
<1> QED BY <1>4, <1>5, <1>6, UnsettledStep

------------------------------------------------------------------------------
(* Every step, seen from the book.                                         *)

\* A position is transferred, closed, liquifunded or appended.
PositionMove ==
  \/ \E p \in Open, t \in Traders : NftTransfer(p, t)
  \/ \E p \in Open, l \in Nat, u \in Nat : positions' = Closed(p, l, u)
  \/ \E p \in Open, e \in Nat, d \in Delays, tp \in TriggerPairs :
       positions' = Liquifunded(p, e, d, tp)
  \/ \E t \in Traders, at \in Nat, d \in Delays, tp \in TriggerPairs :
       positions' = Append(positions, NewPosition(t, at, d, tp))

LEMMA PositionMoves ==
  ASSUME TypeInv, PricedOK, [Next]_vars
  PROVE  UNCHANGED positions \/ PositionMove
<1> USE DEF queueVars, bookVars, txVars, timeVars, moneyVars
<1>0. TypeOK
  BY DEF TypeInv
<1>3. ASSUME NEW p \in Open, NEW l \in {positions[p].liquifundedAt, NextPrice},
             NextPrice \in Nat, positions' = Closed(p, l, NextPrice)
      PROVE  PositionMove
  <2>1. positions[p].liquifundedAt \in Nat
    BY <1>0, BookFields DEF Position
  <2> QED BY <1>3, <2>1 DEF PositionMove
<1>6. CASE TraderMsg
  BY <1>6 DEF TraderMsg, DeferNew, DeferAdd, DeferUpdate, DeferClose, DeferCancel,
    PositionMove
<1>7. CASE CrankLiquifund
  <2> DEFINE p == FirstDue(NextPrice)
  <2>1. DoWork("liquifunding") /\ Due(NextPrice) # {}
    BY <1>0, <1>7, DoWorkFacts DEF CrankLiquifund
  <2>2. p \in Open /\ positions[p].next \in Nat /\ positions[p].liquifundedAt \in Nat
    BY <1>0, <2>1, FirstDueIn, BookFields DEF Due, Position
  <2>3. CASE \E d \in Delays, tp \in TriggerPairs :
               positions' = Liquifunded(p, positions[p].next, d, tp)
    BY <2>2, <2>3 DEF PositionMove
  <2>4. CASE positions' = Closed(p, positions[p].liquifundedAt,
                                 SpotPriceTime(positions[p].next))
    <3>1. SpotPriceTime(positions[p].next) \in Nat
      BY <1>0, <2>2, SpotPriceTimeType DEF PricedOK
    <3> QED BY <2>2, <2>4, <3>1 DEF PositionMove
  <2> QED BY <1>7, <2>3, <2>4 DEF CrankLiquifund
<1>8. CASE CrankCloseAll
  <2>1. DoWork("closeAll") /\ Open # {} /\ Open \subseteq Nat /\ NextPrice \in Nat
    BY <1>0, <1>8, DoWorkFacts, BookFields, NextPriceType DEF CrankCloseAll
  <2>2. Min(Open) \in Open
    BY <2>1, MinOfNats
  <2>3. \E l \in {positions[Min(Open)].liquifundedAt, NextPrice} :
          positions' = Closed(Min(Open), l, NextPrice)
    BY <1>8 DEF CrankCloseAll
  <2> QED BY <1>3, <2>1, <2>2, <2>3
<1>9. CASE CrankLiquidate
  <2> DEFINE p == Liquidatable(prices[NextPrice])
  <2>1. DoWork("liquidation") /\ p \in Open /\ NextPrice \in Nat
    BY <1>0, <1>9, DoWorkFacts, LiquidatableIn, NextPriceType DEF CrankLiquidate
  <2>2. \E l \in {positions[p].liquifundedAt, NextPrice} :
          positions' = Closed(p, l, NextPrice)
    BY <1>9 DEF CrankLiquidate
  <2> HIDE DEF p
  <2> QED BY <1>3, <2>1, <2>2
<1>10. CASE CrankLimitOrder
  <2> DEFINE o == TriggeredOrder(prices[NextPrice])
  <2>1. DoWork("limitOrder") /\ o \in OpenOrders /\ NextPrice \in Nat
    BY <1>0, <1>10, DoWorkFacts, TriggeredOrderIn, NextPriceType DEF CrankLimitOrder
  <2>2. orders[o].owner \in Traders
    BY <1>0, <2>1, BookFields DEF LimitOrder
  <2>3. \/ UNCHANGED positions
        \/ \E d \in Delays, tp \in TriggerPairs :
             positions' = Append(positions, NewPosition(orders[o].owner, NextPrice, d, tp))
    BY <1>10 DEF CrankLimitOrder
  <2> QED BY <2>1, <2>2, <2>3 DEF PositionMove
<1>11. CASE PerformOpen
  <2>1. Cur \in Exec /\ NextPrice \in Nat
    BY <1>11, SucceedFacts DEF PerformOpen
  <2>2. Cur.owner \in Traders
    BY <2>1 DEF Exec
  <2> QED BY <1>11, <2>1, <2>2 DEF PerformOpen, PositionMove
<1>12. CASE PerformUpdate
  <2>1. NextPrice \in Nat
    BY <1>12, SucceedFacts DEF PerformUpdate
  <2> QED BY <1>12, <2>1 DEF PerformUpdate, PositionMove
<1>13. CASE PerformClose
  <2>1. NextPrice \in Nat
    BY <1>13, SucceedFacts DEF PerformClose
  <2> QED BY <1>3, <1>13, <2>1 DEF PerformClose
<1>14. CASE \/ CloseAllPositions \/ Tick
            \/ \E v \in Prices : SetManualPrice(v)
            \/ \E n \in CrankExecs : Crank(n)
            \/ CrankReset \/ CrankDeferred \/ CrankCompleted \/ CrankFinish
            \/ PerformPlace \/ PerformCancel \/ PerformFail \/ Reply
            \/ UNCHANGED vars
  BY <1>14 DEF CloseAllPositions, Tick, SetManualPrice, Crank, CrankReset,
    CrankDeferred, CrankCompleted, CrankFinish, PerformPlace, PerformCancel,
    PerformFail, Reply, vars
<1> QED BY <1>6, <1>7, <1>8, <1>9, <1>10, <1>11, <1>12, <1>13, <1>14 DEF Next, TxStep

\* Ids are never reused, and an owner changes only by a transfer.
LEMMA OwnerStep ==
  ASSUME TypeInv, PricedOK, [Next]_vars
  PROVE  /\ \A q \in 1..Len(positions) :
              /\ q \in 1..Len(positions')
              /\ \/ positions'[q].owner = positions[q].owner
                 \/ \A e \in pendingFor : e[1] # <<"position", q>>
         /\ \A o \in 1..Len(orders) :
              o \in 1..Len(orders') /\ orders'[o].owner = orders[o].owner
<1> USE DEF queueVars, bookVars, txVars, timeVars, moneyVars
<1> DEFINE Kept(q) == /\ q \in 1..Len(positions')
                      /\ \/ positions'[q].owner = positions[q].owner
                         \/ \A e \in pendingFor : e[1] # <<"position", q>>
<1>0. TypeOK
  BY DEF TypeInv
<1>1. Len(positions) \in Nat /\ Open \subseteq 1..Len(positions) /\ Len(orders) \in Nat
  BY <1>0, BookFields
<1>2. ASSUME NEW q \in 1..Len(positions)
      PROVE  Kept(q)
  <2>1. CASE UNCHANGED positions
    BY <2>1
  <2>2. ASSUME NEW p \in Open, NEW t \in Traders, NftTransfer(p, t)
        PROVE  Kept(q)
    <3>1. /\ positions' = [positions EXCEPT ![p].owner = t]
          /\ \A e \in pendingFor : e[1] # <<"position", p>>
      BY <2>2 DEF NftTransfer
    <3>2. [positions[p] EXCEPT !.owner = t] \in Position /\ p \in 1..Len(positions)
      BY <1>0, <1>1, BookFields DEF Position
    <3>3. positions' = [positions EXCEPT ![p] = [positions[p] EXCEPT !.owner = t]]
      BY <1>0, <3>1, <3>2 DEF TypeOK
    <3>4. Len(positions') = Len(positions) /\ (q # p => positions'[q] = positions[q])
      BY <1>0, <3>2, <3>3, UpdateSeq DEF TypeOK
    <3> QED BY <3>1, <3>4
  <2>3. ASSUME NEW p \in Open, NEW l \in Nat, NEW u \in Nat, positions' = Closed(p, l, u)
        PROVE  Kept(q)
    BY <1>0, <2>3, ClosedUpdate
  <2>4. ASSUME NEW p \in Open, NEW e \in Nat, NEW d \in Delays, NEW tp \in TriggerPairs,
               positions' = Liquifunded(p, e, d, tp)
        PROVE  Kept(q)
    BY <1>0, <2>4, LiquifundedUpdate
  <2>5. ASSUME NEW t \in Traders, NEW at \in Nat, NEW d \in Delays,
               NEW tp \in TriggerPairs,
               positions' = Append(positions, NewPosition(t, at, d, tp))
        PROVE  Kept(q)
    <3>1. Len(positions') = Len(positions) + 1 /\ positions'[q] = positions[q]
      BY <1>0, <2>5, NewPositionUpdate
    <3> QED BY <1>1, <3>1
  <2> HIDE DEF Kept
  <2> QED BY <2>1, <2>2, <2>3, <2>4, <2>5, PositionMoves DEF PositionMove
<1>3. ASSUME NEW o \in 1..Len(orders)
      PROVE  o \in 1..Len(orders') /\ orders'[o].owner = orders[o].owner
  <2>1. CASE UNCHANGED orders
    BY <2>1
  <2>2. ASSUME NEW q \in OpenOrders, orders' = OffBook(q)
        PROVE  o \in 1..Len(orders') /\ orders'[o].owner = orders[o].owner
    BY <1>0, <2>2, OrderUpdate
  <2>3. CASE CrankLimitOrder
    <3>1. TriggeredOrder(prices[NextPrice]) \in OpenOrders
      BY <1>0, <2>3, DoWorkFacts, TriggeredOrderIn DEF CrankLimitOrder
    <3> QED BY <2>2, <2>3, <3>1 DEF CrankLimitOrder
  <2>4. CASE PerformCancel
    BY <2>2, <2>4 DEF PerformCancel
  <2>5. CASE PerformPlace
    <3>1. orders \in Seq(LimitOrder) /\ \E r : orders' = Append(orders, r)
      BY <1>0, <2>5 DEF PerformPlace, TypeOK
    <3>2. PICK r : orders' = Append(orders, r)
      BY <3>1
    <3>3. Len(orders') = Len(orders) + 1 /\ orders'[o] = orders[o]
      BY <3>1, <3>2
    <3> QED BY <1>1, <3>3
  <2>6. CASE TraderMsg
    BY <2>1, <2>6 DEF TraderMsg, DeferNew, DeferAdd, DeferUpdate, DeferClose,
      DeferCancel, NftTransfer
  <2>7. CASE \/ CloseAllPositions \/ Tick
             \/ \E v \in Prices : SetManualPrice(v)
             \/ \E n \in CrankExecs : Crank(n)
             \/ CrankReset \/ CrankLiquifund \/ CrankCloseAll \/ CrankLiquidate
             \/ CrankDeferred \/ CrankCompleted \/ CrankFinish
             \/ PerformOpen \/ PerformUpdate \/ PerformClose \/ PerformFail \/ Reply
             \/ UNCHANGED vars
    <3>1. UNCHANGED orders
      BY <2>7 DEF CloseAllPositions, Tick, SetManualPrice, Crank, CrankReset,
        CrankLiquifund, CrankCloseAll, CrankLiquidate, CrankDeferred, CrankCompleted,
        CrankFinish, PerformOpen, PerformUpdate, PerformClose, PerformFail, Reply, vars
    <3> QED BY <2>1, <3>1
  <2> QED BY <2>3, <2>4, <2>5, <2>6, <2>7 DEF Next, TxStep
<1> QED BY <1>2, <1>3

\* OwnerWhenExecuted is inductive, given the index of pending items.
LEMMA OwnershipStep ==
  ASSUME TypeInv, PricedOK, PendingIndexExact, OwnerWhenExecuted, [Next]_vars
  PROVE  OwnerWhenExecuted'
<1>0. TypeOK
  BY DEF TypeInv
<1>1. /\ Len(execs) \in Nat /\ Unsettled \subseteq 1..Len(execs)
      /\ \A i \in 1..Len(execs) : /\ execs'[i].target = execs[i].target
                                  /\ execs'[i].owner = execs[i].owner
  BY UnsettledStep
<1> DEFINE Owned(i) ==
      /\ execs'[i].target[1] = "position" =>
           /\ execs'[i].target[2] \in 1..Len(positions')
           /\ positions'[execs'[i].target[2]].owner = execs'[i].owner
      /\ execs'[i].target[1] = "order" =>
           /\ execs'[i].target[2] \in 1..Len(orders')
           /\ orders'[execs'[i].target[2]].owner = execs'[i].owner
<1>2. ASSUME NEW i \in Unsettled
      PROVE  Owned(i)
  <2> DEFINE x == execs[i].target
  <2>1. /\ execs'[i].target = x /\ execs'[i].owner = execs[i].owner
        /\ x \in Target
    BY <1>0, <1>1, <1>2, BookFields DEF Exec
  <2>2. CASE x[1] = "position"
    <3>1. x = <<"position", x[2]>> /\ x # NoTarget
      BY <2>1, <2>2 DEF Target, NoTarget
    <3>2. <<x, i>> \in pendingFor
      BY <1>2, <3>1 DEF PendingIndexExact
    <3>3. x[2] \in 1..Len(positions) /\ positions[x[2]].owner = execs[i].owner
      BY <1>2, <2>2 DEF OwnerWhenExecuted
    <3>4. ~\A e \in pendingFor : e[1] # <<"position", x[2]>>
      <4>1. <<x, i>>[1] = x
        OBVIOUS
      <4> QED BY <3>1, <3>2, <4>1
    <3>5. x[2] \in 1..Len(positions') /\ positions'[x[2]].owner = positions[x[2]].owner
      BY <3>3, <3>4, OwnerStep
    <3> QED BY <2>1, <2>2, <3>3, <3>5
  <2>3. CASE x[1] = "order"
    <3>1. x[2] \in 1..Len(orders) /\ orders[x[2]].owner = execs[i].owner
      BY <1>2, <2>3 DEF OwnerWhenExecuted
    <3>2. x[2] \in 1..Len(orders') /\ orders'[x[2]].owner = orders[x[2]].owner
      BY <3>1, OwnerStep
    <3> QED BY <2>1, <2>3, <3>1, <3>2
  <2> QED BY <2>1, <2>2, <2>3
<1>3. CASE Unsettled' = Unsettled \/ Unsettled' = Unsettled \ {processed}
  BY <1>2, <1>3 DEF OwnerWhenExecuted
<1>4. CASE SubmitStep /\ Unsettled' = Unsettled \cup {Len(execs) + 1}
  <2>1. PICK t \in Traders, kind \in Kinds, target \in Target, a \in Nat :
          /\ Enqueue(t, kind, target, a)
          /\ target[1] = "position" => OwnsPosition(t, target[2])
          /\ target[1] = "order" =>
               target[2] \in OpenOrders /\ orders[target[2]].owner = t
          /\ UNCHANGED <<positions, orders>>
    BY <1>4 DEF SubmitStep
  <2>2. Item(t, kind, target, a).target = target /\ Item(t, kind, target, a).owner = t
    BY DEF Item
  <2>3. execs'[Len(execs) + 1].target = target /\ execs'[Len(execs) + 1].owner = t
    BY <1>0, <2>1, <2>2, EnqueueFacts
  <2>4. Owned(Len(execs) + 1)
    BY <1>0, <2>1, <2>3, BookFields DEF OwnsPosition
  <2> QED BY <1>2, <1>4, <2>4 DEF OwnerWhenExecuted
<1> QED BY <1>3, <1>4, UnsettledStep

------------------------------------------------------------------------------
(* The price an item is settled at.                                        *)

\* Clock and prices: nothing lies in the future, the queue is in order of
\* creation, no item still waiting was created before a completed price,
\* and the item in flight was created before the price it runs at.
PriceOrder ==
  /\ \A u \in Published : u =< now
  /\ lastCompleted =< now
  /\ \A i \in 1..Len(execs) : execs[i].created =< now
  /\ \A i, j \in 1..Len(execs) : i < j => execs[i].created =< execs[j].created
  /\ \A i \in Unsettled : lastCompleted =< execs[i].created
  /\ \A i \in InFlight : execs[i].created < NextPrice

LEMMA ClockStep ==
  ASSUME TypeInv, [Next]_vars, \A u \in Published : u =< now
  PROVE  /\ now' >= now
         /\ \A u \in Published' : u =< now'
         /\ phase \in {"perform", "reply"} => UNCHANGED <<prices, lastCompleted>>
         /\ SubmitStep => now' = now
<1> USE DEF queueVars, bookVars, txVars, timeVars, moneyVars
<1>0. TypeOK
  BY DEF TypeInv
<1>1. now \in Nat /\ Published \subseteq Nat
  BY <1>0 DEF TypeOK
<1>2. SubmitStep => now' = now
  BY DEF SubmitStep
<1>3. CASE UNCHANGED <<now, prices>> /\ (lastCompleted' = lastCompleted \/ phase = "crank")
  BY <1>1, <1>2, <1>3 DEF Published
<1>4. CASE Tick
  BY <1>1, <1>2, <1>4 DEF Tick, Published
<1>5. ASSUME NEW u \in 1..now, NEW v \in Prices, SpotPriceAppend(u, v),
             now' = now, phase = "idle"
      PROVE  /\ now' >= now
             /\ \A w \in Published' : w =< now'
             /\ phase \in {"perform", "reply"} => UNCHANGED <<prices, lastCompleted>>
  <2>1. u \in Nat \ {0} /\ u =< now
    BY <1>1
  <2>2. Published' = Published \cup {u}
    BY <1>0, <1>5, <2>1, SpotPriceAppendFacts DEF Published
  <2> QED BY <1>1, <1>5, <2>1, <2>2
<1>6. CASE \E v \in Prices : SetManualPrice(v)
  <2>1. now \in 1..now
    BY <1>0 DEF TypeOK
  <2> QED BY <1>2, <1>5, <1>6, <2>1 DEF SetManualPrice
<1>7. CASE \E n \in CrankExecs : Crank(n)
  BY <1>2, <1>3, <1>5, <1>7 DEF Crank
<1>8. CASE TraderMsg
  BY <1>3, <1>8 DEF TraderMsg, DeferNew, DeferAdd, DeferUpdate, DeferClose, DeferCancel,
    NftTransfer
<1>9. CASE \/ CloseAllPositions \/ CrankReset \/ CrankLiquifund \/ CrankCloseAll
           \/ CrankLiquidate \/ CrankLimitOrder \/ CrankFinish \/ CrankDeferred
           \/ CrankCompleted \/ PerformFail \/ Reply \/ UNCHANGED vars
  BY <1>3, <1>9 DEF CloseAllPositions, CrankReset, CrankLiquifund, CrankCloseAll,
    CrankLiquidate, CrankLimitOrder, CrankFinish, CrankDeferred, CrankCompleted, DoWork,
    PerformFail, Reply, vars
<1>10. CASE PerformOpen \/ PerformPlace \/ PerformUpdate \/ PerformClose \/ PerformCancel
  BY <1>3, <1>10 DEF PerformOpen, PerformPlace, PerformUpdate, PerformClose,
    PerformCancel, Succeed
<1> QED BY <1>4, <1>6, <1>7, <1>8, <1>9, <1>10 DEF Next, TxStep

LEMMA PriceOrderStep ==
  ASSUME TypeInv, TypeOK', PriceOrder, [Next]_vars
  PROVE  PriceOrder'
<1>0. TypeOK /\ InFlightOK
  BY DEF TypeInv
<1>1. /\ Len(execs) \in Nat /\ processed \in 0..Len(execs)
      /\ Unsettled \subseteq 1..Len(execs)
      /\ \A i \in 1..Len(execs) : execs'[i].created = execs[i].created
  BY UnsettledStep
<1>2. /\ now \in Nat /\ now' \in Nat /\ lastCompleted \in Nat /\ lastCompleted' \in Nat
      /\ \A i \in 1..Len(execs) : execs[i].created \in Nat
  BY <1>0, BookFields DEF TypeOK, Exec
<1>3. /\ now' >= now
      /\ \A u \in Published' : u =< now'
      /\ phase \in {"perform", "reply"} => UNCHANGED <<prices, lastCompleted>>
      /\ SubmitStep => now' = now
  BY ClockStep DEF PriceOrder
<1>4. CrankCompleted =>
        /\ NextPrice \in Nat /\ NextPrice =< now
        /\ \A i \in Unsettled : NextPrice =< execs[i].created
        /\ lastCompleted' = NextPrice /\ phase' = "crank" /\ now' = now
  <2> SUFFICES ASSUME CrankCompleted
               PROVE  /\ NextPrice \in Nat /\ NextPrice =< now
                      /\ \A i \in Unsettled : NextPrice =< execs[i].created
                      /\ lastCompleted' = NextPrice /\ phase' = "crank" /\ now' = now
    OBVIOUS
  <2>1. /\ DoWork("completed") /\ lastCompleted' = NextPrice
        /\ phase' = phase /\ now' = now
    BY DEF CrankCompleted
  <2>2. phase = "crank" /\ Uncranked # {} /\ ~DeferredReady(NextPrice)
    BY <1>0, <2>1, DoWorkFacts DEF DoWork, CrankWork
  <2>3. NextPrice \in Published /\ NextPrice \in Nat
    BY <1>0, <2>2, NextPriceType
  <2>4. InFlight = {}
    BY <2>2 DEF InFlight
  <2>5. ASSUME NEW i \in Unsettled
        PROVE  NextPrice =< execs[i].created
    <3>1. i \in (processed + 1)..Len(execs)
      BY <2>4, <2>5 DEF Unsettled
    <3>2. processed + 1 \in 1..Len(execs) /\ processed < Len(execs) /\ i \in 1..Len(execs)
      BY <1>1, <3>1
    <3>3. NextPrice =< execs[processed + 1].created
      BY <1>2, <2>2, <2>3, <3>2 DEF DeferredReady
    <3>4. execs[processed + 1].created =< execs[i].created
      BY <1>1, <1>2, <3>1, <3>2 DEF PriceOrder
    <3> QED BY <1>2, <2>3, <3>2, <3>3, <3>4
  <2> QED BY <2>1, <2>2, <2>3, <2>5 DEF PriceOrder
<1>5. lastCompleted' = lastCompleted \/ CrankCompleted
  BY PriceStep
<1>6. lastCompleted' =< now'
  BY <1>2, <1>3, <1>4, <1>5 DEF PriceOrder
<1>7. \A i \in Unsettled : lastCompleted' =< execs[i].created
  BY <1>4, <1>5 DEF PriceOrder
<1>8. ASSUME NEW i \in InFlight'
      PROVE  execs'[i].created < NextPrice'
  <2>1. phase' \in {"perform", "reply"} /\ i = processed'
    BY <1>8 DEF InFlight
  <2>2. CASE CrankDeferred
    <3>1. /\ DoWork("deferred") /\ processed' = processed + 1
          /\ UNCHANGED <<execs, prices, lastCompleted>>
      BY <2>2 DEF CrankDeferred, timeVars
    <3>2. execs[processed + 1].created < NextPrice
      BY <1>0, <3>1, DoWorkFacts DEF DeferredReady
    <3>3. Uncranked' = Uncranked
      BY <3>1 DEF Uncranked, Published
    <3>4. NextPrice' = NextPrice
      BY <3>3 DEF NextPrice
    <3> QED BY <2>1, <3>1, <3>2, <3>4
  <2>3. CASE ~CrankDeferred
    <3>1. phase \in {"perform", "reply"} /\ processed' = processed
      BY <2>1, <2>3, StepKinds DEF QuietStep, SubmitStep, SuccessStep, PerformFail, Reply,
        vars, queueVars, txVars
    <3>2. Uncranked' = Uncranked
      BY <1>3, <3>1 DEF Uncranked, Published
    <3>3. NextPrice' = NextPrice
      BY <3>2 DEF NextPrice
    <3>4. i \in InFlight /\ i \in 1..Len(execs)
      BY <1>1, <2>1, <3>1 DEF InFlight, Unsettled
    <3> QED BY <1>1, <3>3, <3>4 DEF PriceOrder
  <2> QED BY <2>2, <2>3
<1>9. CASE SubmitStep /\ Len(execs') = Len(execs) + 1
           /\ Unsettled' = Unsettled \cup {Len(execs) + 1}
  <2>1. PICK t \in Traders, kind \in Kinds, target \in Target, a \in Nat :
          Enqueue(t, kind, target, a)
    BY <1>9 DEF SubmitStep
  <2>2. Item(t, kind, target, a).created = now
    BY DEF Item
  <2>3. execs'[Len(execs) + 1].created = now /\ now' = now
    BY <1>0, <1>3, <1>9, <2>1, <2>2, EnqueueFacts
  <2>4. \A i \in 1..Len(execs') : i \in 1..Len(execs) \/ i = Len(execs) + 1
    BY <1>1, <1>9
  <2>5. \A i \in 1..Len(execs') : execs'[i].created =< now'
    BY <1>1, <1>2, <2>3, <2>4 DEF PriceOrder
  <2>6. \A i, j \in 1..Len(execs') : i < j => execs'[i].created =< execs'[j].created
    <3> SUFFICES ASSUME NEW i \in 1..Len(execs'), NEW j \in 1..Len(execs'), i < j
                 PROVE  execs'[i].created =< execs'[j].created
      OBVIOUS
    <3>1. i \in 1..Len(execs)
      BY <1>1, <1>9
    <3>2. CASE j \in 1..Len(execs)
      BY <1>1, <3>1, <3>2 DEF PriceOrder
    <3>3. CASE j = Len(execs) + 1
      BY <1>1, <2>3, <3>1, <3>3 DEF PriceOrder
    <3> QED BY <2>4, <3>2, <3>3
  <2>7. \A i \in Unsettled' : lastCompleted' =< execs'[i].created
    BY <1>1, <1>6, <1>7, <1>9, <2>3
  <2> QED BY <1>3, <1>6, <1>8, <2>5, <2>6, <2>7 DEF PriceOrder
<1>10. CASE Len(execs') = Len(execs)
            /\ (Unsettled' = Unsettled \/ Unsettled' = Unsettled \ {processed})
  <2>1. \A i \in 1..Len(execs) : execs'[i].created =< now'
    BY <1>1, <1>2, <1>3 DEF PriceOrder
  <2>2. \A i, j \in 1..Len(execs) : i < j => execs'[i].created =< execs'[j].created
    BY <1>1 DEF PriceOrder
  <2>3. \A i \in Unsettled' : lastCompleted' =< execs'[i].created
    BY <1>1, <1>7, <1>10
  <2> QED BY <1>3, <1>6, <1>8, <1>10, <2>1, <2>2, <2>3 DEF PriceOrder
<1> QED BY <1>9, <1>10, UnsettledStep

\* FirstLaterPrice is inductive, given PriceOrder.
LEMMA FirstPriceStep ==
  ASSUME TypeInv, TypeOK', PriceOrder, FirstLaterPrice, [Next]_vars
  PROVE  FirstLaterPrice'
<1> USE DEF queueVars, txVars, timeVars
<1>0. TypeOK /\ InFlightOK
  BY DEF TypeInv
<1> DEFINE Priced(i) ==
      execs'[i].status # "pending" =>
        /\ execs'[i].at \in Published'
        /\ execs'[i].at > execs'[i].created
        /\ \A u \in Published' : u > execs'[i].created => u >= execs'[i].at
<1>1. /\ Len(execs) \in Nat /\ processed \in 0..Len(execs)
      /\ \A i \in 1..Len(execs) : execs[i] \in Exec
  BY <1>0, BookFields DEF TypeOK
<1>2. /\ Published \subseteq Published'
      /\ \A u \in Published' \ Published : \A w \in Published : w < u
  BY PriceStep
<1>3. Published \subseteq Nat
  BY <1>0 DEF TypeOK
<1>4. Published' \subseteq Nat
  BY DEF TypeOK
<1>5. ASSUME NEW i \in 1..Len(execs), execs'[i] = execs[i]
      PROVE  Priced(i)
  <2>1. SUFFICES ASSUME execs[i].status # "pending"
                 PROVE  /\ execs[i].at \in Published'
                        /\ execs[i].at > execs[i].created
                        /\ \A u \in Published' : u > execs[i].created => u >= execs[i].at
    BY <1>5
  <2>2. /\ execs[i].at \in Published /\ execs[i].at > execs[i].created
        /\ \A u \in Published : u > execs[i].created => u >= execs[i].at
    BY <2>1 DEF FirstLaterPrice
  <2>3. ASSUME NEW u \in Published', u > execs[i].created
        PROVE  u >= execs[i].at
    <3>1. CASE u \in Published
      BY <2>2, <2>3, <3>1
    <3>2. CASE u \notin Published
      <4>1. execs[i].at < u
        BY <1>2, <2>2, <3>2
      <4>2. u \in Nat /\ execs[i].at \in Nat
        BY <1>3, <1>4, <2>2, <2>3
      <4> QED BY <4>1, <4>2
    <3> QED BY <3>1, <3>2
  <2>4. execs[i].at \in Published'
    BY <1>2, <2>2
  <2> QED BY <2>2, <2>3, <2>4
<1>6. ASSUME phase \in {"perform", "reply"}, UNCHANGED <<processed, prices>>,
             NEW st \in {"success", "failure"}, execs' = SettledAs(st)
      PROVE  FirstLaterPrice'
  <2>1. processed # 0 /\ Uncranked # {}
    BY <1>0, <1>6 DEF InFlightOK
  <2>2. /\ Len(execs') = Len(execs)
        /\ \A i \in 1..Len(execs) : i # processed => execs'[i] = execs[i]
        /\ execs'[processed].created = execs[processed].created
        /\ execs'[processed].at = NextPrice
    BY <1>0, <1>1, <1>6, <2>1, StatusUpdate
  <2>3. /\ NextPrice \in Published /\ NextPrice \in Nat
        /\ \A u \in Published : u > lastCompleted => NextPrice =< u
    BY <1>0, <2>1, NextPriceType
  <2>4. /\ execs[processed].created < NextPrice
        /\ lastCompleted =< execs[processed].created
    BY <1>6 DEF PriceOrder, InFlight, Unsettled
  <2>5. execs[processed].created \in Nat /\ lastCompleted \in Nat
    <3>1. processed \in 1..Len(execs)
      BY <1>1, <2>1
    <3> QED BY <1>0, <1>1, <3>1 DEF Exec, TypeOK
  <2>6. Priced(processed)
    BY <1>3, <1>6, <2>2, <2>3, <2>4, <2>5 DEF Published
  <2> HIDE DEF Priced
  <2>7. \A i \in 1..Len(execs') : Priced(i)
    BY <1>5, <2>2, <2>6
  <2> QED BY <2>7 DEF FirstLaterPrice, Priced
<1>7. CASE UNCHANGED execs
  BY <1>5, <1>7 DEF FirstLaterPrice
<1>8. CASE SubmitStep
  <2>1. PICK t \in Traders, kind \in Kinds, target \in Target, a \in Nat :
          Enqueue(t, kind, target, a)
    BY <1>8 DEF SubmitStep
  <2>2. /\ Len(execs') = Len(execs) + 1
        /\ \A i \in 1..Len(execs) : execs'[i] = execs[i]
        /\ execs'[Len(execs) + 1].status = "pending"
    <3>1. Item(t, kind, target, a).status = "pending"
      BY DEF Item
    <3> QED BY <1>0, <2>1, <3>1, EnqueueFacts
  <2>3. Priced(Len(execs) + 1)
    BY <2>2
  <2>4. \A i \in 1..Len(execs') : i \in 1..Len(execs) \/ i = Len(execs) + 1
    BY <1>1, <2>2
  <2> HIDE DEF Priced
  <2>5. \A i \in 1..Len(execs') : Priced(i)
    BY <1>5, <2>2, <2>3, <2>4
  <2> QED BY <2>5 DEF FirstLaterPrice, Priced
<1>9. CASE QuietStep \/ CrankDeferred \/ PerformFail \/ UNCHANGED vars
  BY <1>7, <1>9 DEF QuietStep, CrankDeferred, PerformFail, vars
<1>10. CASE SuccessStep
  BY <1>6, <1>10 DEF SuccessStep
<1>11. CASE Reply
  BY <1>6, <1>7, <1>11 DEF Reply, SettleReply
<1> QED BY <1>8, <1>9, <1>10, <1>11, StepKinds

------------------------------------------------------------------------------
(* The theorems about the queue.                                           *)

QueueInv ==
  /\ ScheduleInv
  /\ SettledInOrder
  /\ PendingIndexExact
  /\ OwnerWhenExecuted
  /\ PriceOrder
  /\ FirstLaterPrice

LEMMA QueueInit ==
  Init => QueueInv
<1> SUFFICES ASSUME Init PROVE QueueInv
  OBVIOUS
<1>1. ScheduleInv
  BY ScheduleInit
<1>2. /\ execs = <<>> /\ Len(execs) = 0 /\ processed = 0 /\ pendingFor = {}
      /\ phase = "idle" /\ Published = {} /\ lastCompleted = 0 /\ now = 1
  BY DEF Init, Published
<1>3. InFlight = {} /\ Unsettled = {}
  BY <1>2 DEF InFlight, Unsettled
<1>4. SettledInOrder /\ PendingIndexExact /\ OwnerWhenExecuted
  BY <1>2, <1>3 DEF SettledInOrder, PendingIndexExact, OwnerWhenExecuted
<1>5. PriceOrder /\ FirstLaterPrice
  BY <1>2, <1>3 DEF PriceOrder, FirstLaterPrice
<1> QED BY <1>1, <1>4, <1>5 DEF QueueInv

LEMMA QueuePreserved ==
  ASSUME QueueInv, [Next]_vars
  PROVE  QueueInv'
<1>1. TypeInv /\ PricedOK
  BY DEF QueueInv, ScheduleInv
<1>2. ScheduleInv'
  BY ScheduleStep DEF QueueInv
<1>3. TypeOK'
  BY <1>2 DEF ScheduleInv, TypeInv
<1>4. SettledInOrder' /\ PendingIndexExact'
  BY <1>1, <1>3, OrderStep, IndexStep DEF QueueInv
<1>5. OwnerWhenExecuted'
  BY <1>1, OwnershipStep DEF QueueInv
<1>6. PriceOrder' /\ FirstLaterPrice'
  BY <1>1, <1>3, PriceOrderStep, FirstPriceStep DEF QueueInv
<1> QED BY <1>2, <1>4, <1>5, <1>6 DEF QueueInv

LEMMA QueueInvariant ==
  Spec => []QueueInv
BY QueueInit, QueuePreserved, PTL DEF Spec

\* Deferred items are settled first in, first out, and the item in flight
\* has the status its reply expects, so handle_deferred_exec_reply never
\* bails out and blocks the crank.
THEOREM FirstInFirstOut ==
  Spec => []SettledInOrder
<1>1. QueueInv => SettledInOrder
  BY DEF QueueInv
<1> QED BY <1>1, QueueInvariant, PTL

\* PENDING_DEFERRED_FOR_POSITION and _FOR_ORDER hold exactly the unsettled
\* items that have a target.
THEOREM PendingIndex ==
  Spec => []PendingIndexExact
<1>1. QueueInv => PendingIndexExact
  BY DEF QueueInv
<1> QED BY <1>1, QueueInvariant, PTL

\* An item acts for the wallet that owns its position or order when it
\* runs, although execute_deferred_exec does not check the owner again and
\* positions can be transferred between queueing and execution.
THEOREM ActsForOwner ==
  Spec => []OwnerWhenExecuted
<1>1. QueueInv => OwnerWhenExecuted
  BY DEF QueueInv
<1> QED BY <1>1, QueueInvariant, PTL

\* Every item is settled at the first price point published strictly after
\* its creation, however late the crank and however small its batches.
THEOREM SettlementPrice ==
  Spec => []FirstLaterPrice
<1>1. QueueInv => FirstLaterPrice
  BY DEF QueueInv
<1> QED BY <1>1, QueueInvariant, PTL

\* A settled item and a closed position never change again.
LEMMA FinalStep ==
  ASSUME TypeInv, PricedOK, SettledInOrder, [Next]_vars
  PROVE  /\ \A i \in 1..Len(execs) :
              execs[i].status # "pending" => execs'[i] = execs[i]
         /\ \A p \in 1..Len(positions) :
              ~positions[p].open => positions'[p] = positions[p]
<1> USE DEF queueVars
<1>0. TypeOK /\ InFlightOK
  BY DEF TypeInv
<1>1. ASSUME NEW i \in 1..Len(execs), execs[i].status # "pending"
      PROVE  execs'[i] = execs[i]
  <2>1. CASE UNCHANGED execs
    BY <2>1
  <2>2. ASSUME phase \in {"perform", "reply"}, Cur.status = "pending",
               NEW st \in {"success", "failure"}, execs' = SettledAs(st)
        PROVE  execs'[i] = execs[i]
    <3>1. processed # 0 /\ Uncranked # {} /\ i # processed
      BY <1>0, <1>1, <2>2 DEF InFlightOK, Cur
    <3> QED BY <1>0, <2>2, <3>1, StatusUpdate
  <2>3. CASE SubmitStep
    BY <1>0, <2>3, EnqueueFacts DEF SubmitStep
  <2>4. CASE SuccessStep
    BY <2>2, <2>4 DEF SuccessStep, SettledInOrder
  <2>5. CASE Reply
    BY <2>1, <2>2, <2>5 DEF Reply, SettleReply
  <2>6. CASE QuietStep \/ CrankDeferred \/ PerformFail \/ UNCHANGED vars
    BY <2>1, <2>6 DEF QuietStep, CrankDeferred, PerformFail, vars
  <2> QED BY <2>3, <2>4, <2>5, <2>6, StepKinds
<1>2. ASSUME NEW p \in 1..Len(positions), ~positions[p].open
      PROVE  positions'[p] = positions[p]
  <2>1. p \notin Open
    BY <1>2 DEF Open
  <2>2. ASSUME NEW q \in Open, NEW t \in Traders, NftTransfer(q, t)
        PROVE  positions'[p] = positions[p]
    <3>1. positions' = [positions EXCEPT ![q].owner = t]
      BY <2>2 DEF NftTransfer
    <3>2. positions \in [1..Len(positions) -> Position]
      BY <1>0, LenProperties DEF TypeOK
    <3> QED BY <2>1, <2>2, <3>1, <3>2
  <2>3. ASSUME NEW q \in Open, NEW l \in Nat, NEW u \in Nat, positions' = Closed(q, l, u)
        PROVE  positions'[p] = positions[p]
    BY <1>0, <2>1, <2>3, ClosedUpdate
  <2>4. ASSUME NEW q \in Open, NEW e \in Nat, NEW d \in Delays, NEW tp \in TriggerPairs,
               positions' = Liquifunded(q, e, d, tp)
        PROVE  positions'[p] = positions[p]
    BY <1>0, <2>1, <2>4, LiquifundedUpdate
  <2>5. ASSUME NEW t \in Traders, NEW at \in Nat, NEW d \in Delays,
               NEW tp \in TriggerPairs,
               positions' = Append(positions, NewPosition(t, at, d, tp))
        PROVE  positions'[p] = positions[p]
    BY <1>0, <2>5, NewPositionUpdate
  <2> QED BY <2>2, <2>3, <2>4, <2>5, PositionMoves DEF PositionMove
<1> QED BY <1>1, <1>2

\* What is settled stays settled, whatever is still queued for it: no step
\* changes a settled item or a closed (paid-out) position.
THEOREM Finality ==
  Spec => SettledIsFinal
<1>1. QueueInv /\ [Next]_vars =>
        [/\ \A i \in 1..Len(execs) :
              execs[i].status # "pending" => execs'[i] = execs[i]
         /\ \A p \in 1..Len(positions) :
              ~positions[p].open => positions'[p] = positions[p]]_vars
  BY FinalStep DEF QueueInv, ScheduleInv
<1> QED BY <1>1, QueueInvariant, PTL DEF Spec, SettledIsFinal

------------------------------------------------------------------------------
(* PART THREE.  The tokens the market holds.                               *)
------------------------------------------------------------------------------
(* The budget of a batch.                                                  *)

\* The work done costs at least RegularWeight for each paying item, and what
\* is done and what is left is what was asked for.
BudgetInv ==
  phase # "idle" =>
    /\ progress.done + progress.left = RegularWeight * progress.requested
    /\ RegularWeight * progress.paying =< progress.done

LEMMA BudgetStep ==
  ASSUME TypeInv, BudgetInv, [Next]_vars
  PROVE  BudgetInv'
<1> USE DEF queueVars, bookVars, txVars, timeVars, moneyVars
<1>0. TypeOK /\ progress \in [requested : Nat, left : Nat, paying : Nat, done : Nat]
  BY DEF TypeInv, TypeOK
<1>1. CASE \E n \in CrankExecs : Crank(n)
  <2>1. PICK n \in CrankExecs : Crank(n)
    BY <1>1
  <2>2. n \in Nat
    BY BoundsAssumption
  <2> QED BY <2>1, <2>2 DEF Crank, BudgetInv, RegularWeight
<1>2. ASSUME NEW work, DoWork(work)
      PROVE  BudgetInv'
  <2>1. /\ phase = "crank"
        /\ progress'.requested = progress.requested
        /\ progress'.left = progress.left - Weight(work)
        /\ progress'.done = progress.done + Weight(work)
        /\ progress'.paying = progress.paying + (IF Paying(work) THEN 1 ELSE 0)
    BY <1>0, <1>2, DoWorkFacts
  <2>2. Weight(work) \in {1, 5} /\ (Paying(work) => Weight(work) = 5)
    BY DEF Weight, Paying, RegularWeight, CompletedWeight
  <2> QED BY <1>0, <2>1, <2>2 DEF BudgetInv, RegularWeight
<1>3. CASE \/ CrankReset \/ CrankLiquifund \/ CrankCloseAll \/ CrankLiquidate
           \/ CrankDeferred \/ CrankLimitOrder \/ CrankCompleted
  BY <1>2, <1>3 DEF CrankReset, CrankLiquifund, CrankCloseAll, CrankLiquidate,
    CrankDeferred, CrankLimitOrder, CrankCompleted
<1>4. CASE CrankFinish
  BY <1>4 DEF CrankFinish, BudgetInv
<1>5. ASSUME NEW kinds, Succeed(kinds)
      PROVE  BudgetInv'
  BY <1>5 DEF Succeed, BudgetInv
<1>6. CASE PerformOpen \/ PerformPlace \/ PerformUpdate \/ PerformClose \/ PerformCancel
  BY <1>5, <1>6 DEF PerformOpen, PerformPlace, PerformUpdate, PerformClose, PerformCancel
<1>7. CASE PerformFail \/ Reply
  BY <1>7 DEF PerformFail, Reply, BudgetInv
<1>8. CASE \/ CloseAllPositions \/ Tick \/ (\E v \in Prices : SetManualPrice(v))
           \/ UNCHANGED vars
  BY <1>8 DEF CloseAllPositions, Tick, SetManualPrice, BudgetInv, vars
<1>9. CASE TraderMsg
  BY <1>9 DEF TraderMsg, DeferNew, DeferAdd, DeferUpdate, DeferClose, DeferCancel,
    NftTransfer, CanDefer, BudgetInv
<1> QED BY <1>1, <1>3, <1>4, <1>6, <1>7, <1>8, <1>9 DEF Next, TxStep

\* A batch interrupted by submessages does, over all its resumptions, no
\* more than the requested number of work items (CRANK_BATCH_WEIGHT_LEFT),
\* and pays the cranker for no more of them.
THEOREM Budget ==
  Spec => []BatchWithinBudget
<1>1. Init => BudgetInv
  BY DEF Init, BudgetInv
<1>2. TypeInv /\ BudgetInv => BatchWithinBudget
  <2> SUFFICES ASSUME TypeInv, BudgetInv PROVE BatchWithinBudget
    OBVIOUS
  <2>1. progress \in [requested : Nat, left : Nat, paying : Nat, done : Nat]
    BY DEF TypeInv, TypeOK
  <2> QED BY <2>1 DEF BudgetInv, BatchWithinBudget, RegularWeight
<1>3. QueueInv => TypeInv
  BY DEF QueueInv, ScheduleInv
<1> QED BY <1>1, <1>2, <1>3, BudgetStep, QueueInvariant, PTL DEF Spec
------------------------------------------------------------------------------
(* The marks of free items.                                                *)

\* The items of the queue are what they were, but for their status.
SameItems ==
  /\ Len(execs') = Len(execs)
  /\ \A i \in 1..Len(execs) : /\ execs'[i].kind = execs[i].kind
                              /\ execs'[i].target = execs[i].target
                              /\ execs'[i].amount = execs[i].amount

\* A settled item keeps its kind and its deposit.
LEMMA StatusKeeps ==
  ASSUME TypeOK, processed # 0, Uncranked # {},
         NEW st \in {"success", "failure"}, execs' = SettledAs(st)
  PROVE  SameItems
<1>1. processed \in 1..Len(execs) /\ execs \in [1..Len(execs) -> Exec]
  BY LenProperties DEF TypeOK
<1>2. execs' = [execs EXCEPT ![processed].status = st, ![processed].at = NextPrice]
  BY DEF SettledAs
<1>3. Len(execs') = Len(execs)
  BY StatusUpdate
<1>4. ASSUME NEW i \in 1..Len(execs)
      PROVE  /\ execs'[i].kind = execs[i].kind
             /\ execs'[i].target = execs[i].target
             /\ execs'[i].amount = execs[i].amount
  <2>1. CASE i # processed
    BY <1>1, <1>2, <2>1
  <2>2. CASE i = processed
    <3>1. execs[processed] \in Exec
      BY <1>1
    <3>2. execs'[processed] =
            [[execs[processed] EXCEPT !.status = st] EXCEPT !.at = NextPrice]
      BY <1>1, <1>2
    <3> QED BY <2>2, <3>1, <3>2 DEF Exec
  <2> QED BY <2>1, <2>2
<1> QED BY <1>3, <1>4 DEF SameItems

\* Every step, seen from the marks.
LEMMA MarkSteps ==
  ASSUME TypeInv, [Next]_vars
  PROVE  \/ SameItems /\ UNCHANGED <<processed, closing, canceling>>
         \/ \E t \in Traders, kind \in Kinds \ {"close", "cancel"}, target \in Target, a \in Nat :
              Enqueue(t, kind, target, a) /\ UNCHANGED <<processed, closing, canceling>>
         \/ \E t \in Traders, p \in Open : DeferClose(t, p)
         \/ \E t \in Traders, o \in OpenOrders : DeferCancel(t, o)
         \/ CrankDeferred
<1> USE DEF queueVars, bookVars, txVars, timeVars, moneyVars
<1> DEFINE Same == SameItems /\ UNCHANGED <<processed, closing, canceling>>
           Other == \E t \in Traders, kind \in Kinds \ {"close", "cancel"},
                       target \in Target, a \in Nat :
                      Enqueue(t, kind, target, a) /\ UNCHANGED <<processed, closing, canceling>>
<1>0. TypeOK
  BY DEF TypeInv
<1>1. ASSUME UNCHANGED execs PROVE SameItems
  BY <1>1 DEF SameItems
<1>2. CASE TraderMsg
  <2>1. PICK t \in Traders :
          \/ \E k \in NewKinds, a \in Amounts : DeferNew(t, k, a)
          \/ \E p \in Open :
               \/ \E a \in Amounts : DeferAdd(t, p, a)
               \/ \E k \in UpdateKinds, a \in Amounts : DeferUpdate(t, p, k, a)
               \/ DeferClose(t, p)
               \/ NftTransfer(p, t)
          \/ \E o \in OpenOrders : DeferCancel(t, o)
    BY <1>2 DEF TraderMsg
  <2>2. Fee \in Nat /\ Amounts \subseteq Nat
    BY <1>0, FeeType, AmountsAssumption
  <2>3. /\ \A p \in Open : <<"position", p>> \in Target
        /\ NoTarget \in Target
        /\ NewKinds \subseteq Kinds \ {"close", "cancel"}
        /\ UpdateKinds \subseteq Kinds \ {"close", "cancel"}
        /\ "add" \in Kinds \ {"close", "cancel"}
    BY <1>0, BookFields DEF Target, NoTarget, Kinds, NewKinds, PosKinds, UpdateKinds
  <2>4. ASSUME NEW k \in NewKinds, NEW a \in Amounts, DeferNew(t, k, a)
        PROVE  Other
    <3>1. a - Fee \in Nat /\ Enqueue(t, k, NoTarget, a - Fee)
          /\ UNCHANGED <<processed, closing, canceling>>
      BY <2>2, <2>4 DEF DeferNew
    <3> QED BY <2>3, <3>1
  <2>5. ASSUME NEW p \in Open, NEW a \in Amounts, DeferAdd(t, p, a)
        PROVE  Other
    <3>1. a - Fee \in Nat /\ Enqueue(t, "add", <<"position", p>>, a - Fee)
          /\ UNCHANGED <<processed, closing, canceling>>
      BY <2>2, <2>5 DEF DeferAdd
    <3> QED BY <2>3, <3>1
  <2>6. ASSUME NEW p \in Open, NEW k \in UpdateKinds, NEW a \in Amounts,
               DeferUpdate(t, p, k, a)
        PROVE  Other
    <3>1. Enqueue(t, k, <<"position", p>>, 0) /\ UNCHANGED <<processed, closing, canceling>>
      BY <2>6 DEF DeferUpdate
    <3> QED BY <2>3, <3>1
  <2>7. ASSUME NEW p \in Open, NftTransfer(p, t)
        PROVE  Same
    BY <1>1, <2>7 DEF NftTransfer
  <2> QED BY <2>1, <2>4, <2>5, <2>6, <2>7
<1>3. CASE \/ CloseAllPositions \/ Tick \/ (\E v \in Prices : SetManualPrice(v))
           \/ (\E n \in CrankExecs : Crank(n))
           \/ CrankReset \/ CrankLiquifund \/ CrankCloseAll \/ CrankLiquidate
           \/ CrankLimitOrder \/ CrankCompleted \/ CrankFinish \/ PerformFail
           \/ UNCHANGED vars
  BY <1>1, <1>3 DEF CloseAllPositions, Tick, SetManualPrice, Crank, CrankReset,
    CrankLiquifund, CrankCloseAll, CrankLiquidate, CrankLimitOrder, CrankCompleted,
    CrankFinish, PerformFail, vars
<1>4. ASSUME NEW kinds, Succeed(kinds)
      PROVE  Same
  <2>1. processed # 0 /\ Uncranked # {} /\ execs' = SettledAs("success")
    BY <1>4 DEF Succeed, TypeInv, InFlightOK
  <2> QED BY <1>0, <1>4, <2>1, StatusKeeps DEF Succeed
<1>5. CASE PerformOpen \/ PerformPlace \/ PerformUpdate \/ PerformClose \/ PerformCancel
  BY <1>4, <1>5 DEF PerformOpen, PerformPlace, PerformUpdate, PerformClose, PerformCancel
<1>6. CASE Reply
  <2>1. /\ processed # 0 /\ Uncranked # {}
        /\ UNCHANGED execs \/ execs' = SettledAs("failure")
        /\ UNCHANGED <<processed, closing, canceling>>
    BY <1>6 DEF Reply, SettleReply, TypeInv, InFlightOK
  <2> QED BY <1>0, <1>1, <2>1, StatusKeeps
<1> QED BY <1>2, <1>3, <1>5, <1>6 DEF Next, TxStep

\* The items that close a position wait for it under its id, and those that
\* cancel an order are marked, for ever.
MarksInv ==
  /\ FreeItemsQueuedOnce
  /\ \A i \in 1..Len(execs) :
       /\ execs[i].kind = "close" => execs[i].target[1] = "position"
       /\ execs[i].kind = "cancel" => execs[i].target[2] \in canceling

LEMMA MarksStep ==
  ASSUME TypeInv, MarksInv, [Next]_vars
  PROVE  MarksInv'
<1> DEFINE Waiting == (processed + 1)..Len(execs)
           Closes == {j \in Waiting : execs[j].kind = "close"}
<1>0. /\ TypeOK /\ Len(execs) \in Nat /\ processed \in 0..Len(execs)
      /\ \A i \in 1..Len(execs) : execs[i] \in Exec
  BY LenProperties DEF TypeInv, TypeOK
<1>1. CASE SameItems /\ UNCHANGED <<processed, closing, canceling>>
  BY <1>0, <1>1 DEF MarksInv, FreeItemsQueuedOnce, SameItems
<1>2. ASSUME NEW t \in Traders, NEW kind \in Kinds, NEW target \in Target, NEW a \in Nat,
             Enqueue(t, kind, target, a), UNCHANGED processed
      PROVE  /\ Len(execs') = Len(execs) + 1
             /\ \A i \in 1..Len(execs) : execs'[i] = execs[i]
             /\ execs'[Len(execs) + 1].kind = kind
             /\ execs'[Len(execs) + 1].target = target
             /\ Waiting' = Waiting \cup {Len(execs) + 1}
  <2>1. /\ Len(execs') = Len(execs) + 1
        /\ \A i \in 1..Len(execs) : execs'[i] = execs[i]
        /\ execs'[Len(execs) + 1] = Item(t, kind, target, a)
    BY <1>0, <1>2, EnqueueFacts
  <2> QED BY <1>0, <1>2, <2>1 DEF Item
<1>3. ASSUME NEW t \in Traders, NEW kind \in Kinds \ {"close", "cancel"},
             NEW target \in Target, NEW a \in Nat,
             Enqueue(t, kind, target, a), UNCHANGED <<processed, closing, canceling>>
      PROVE  MarksInv'
  <2>1. /\ Len(execs') = Len(execs) + 1
        /\ \A i \in 1..Len(execs) : execs'[i] = execs[i]
        /\ execs'[Len(execs) + 1].kind \notin {"close", "cancel"}
        /\ Waiting' = Waiting \cup {Len(execs) + 1}
    BY <1>2, <1>3
  <2>2. {j \in Waiting' : execs'[j].kind = "close"} = Closes
    BY <1>0, <2>1
  <2>3. {execs'[i].target[2] : i \in Closes} = {execs[i].target[2] : i \in Closes}
    BY <1>0, <2>1
  <2>4. closing' = {execs'[i].target[2] : i \in Closes}
    BY <1>3, <2>3 DEF MarksInv, FreeItemsQueuedOnce
  <2>5. closing' = {execs'[i].target[2] : i \in {j \in Waiting' : execs'[j].kind = "close"}}
    BY <2>2, <2>4
  <2>6. \A i, j \in Waiting' :
          execs'[i].kind = "close" /\ execs'[j].kind = "close"
            /\ execs'[i].target = execs'[j].target => i = j
    BY <1>0, <2>1 DEF MarksInv, FreeItemsQueuedOnce
  <2>7. \A i, j \in 1..Len(execs') :
          execs'[i].kind = "cancel" /\ execs'[j].kind = "cancel"
            /\ execs'[i].target = execs'[j].target => i = j
    BY <1>0, <2>1 DEF MarksInv, FreeItemsQueuedOnce
  <2>8. \A i \in 1..Len(execs') :
          /\ execs'[i].kind = "close" => execs'[i].target[1] = "position"
          /\ execs'[i].kind = "cancel" => execs'[i].target[2] \in canceling'
    BY <1>0, <1>3, <2>1 DEF MarksInv
  <2> QED BY <2>5, <2>6, <2>7, <2>8 DEF MarksInv, FreeItemsQueuedOnce
<1>4. ASSUME NEW t \in Traders, NEW p \in Open, DeferClose(t, p)
      PROVE  MarksInv'
  <2>1. /\ Enqueue(t, "close", <<"position", p>>, 0) /\ p \notin closing
        /\ closing' = closing \cup {p} /\ UNCHANGED <<processed, canceling>>
    BY <1>4 DEF DeferClose
  <2>2. <<"position", p>> \in Target /\ "close" \in Kinds
    BY <1>0, BookFields DEF Target, Kinds, PosKinds
  <2>3. /\ Len(execs') = Len(execs) + 1
        /\ \A i \in 1..Len(execs) : execs'[i] = execs[i]
        /\ execs'[Len(execs) + 1].kind = "close"
        /\ execs'[Len(execs) + 1].target = <<"position", p>>
        /\ Waiting' = Waiting \cup {Len(execs) + 1}
    BY <1>2, <2>1, <2>2
  <2>4. {j \in Waiting' : execs'[j].kind = "close"} = Closes \cup {Len(execs) + 1}
    BY <1>0, <2>3
  <2>5. {execs'[i].target[2] : i \in Closes \cup {Len(execs) + 1}}
          = {execs[i].target[2] : i \in Closes} \cup {p}
    BY <1>0, <2>3
  <2>6. closing = {execs[i].target[2] : i \in Closes}
    BY DEF MarksInv, FreeItemsQueuedOnce
  <2>7. closing' = {execs'[i].target[2] : i \in {j \in Waiting' : execs'[j].kind = "close"}}
    BY <2>1, <2>4, <2>5, <2>6
  <2>8. \A i \in Closes : execs[i].target # <<"position", p>>
    BY <2>1, <2>6
  <2>9. \A i, j \in Waiting' :
          execs'[i].kind = "close" /\ execs'[j].kind = "close"
            /\ execs'[i].target = execs'[j].target => i = j
    BY <1>0, <2>3, <2>8 DEF MarksInv, FreeItemsQueuedOnce
  <2> QED BY <1>0, <2>1, <2>3, <2>7, <2>9 DEF MarksInv, FreeItemsQueuedOnce
<1>5. ASSUME NEW t \in Traders, NEW o \in OpenOrders, DeferCancel(t, o)
      PROVE  MarksInv'
  <2>1. /\ Enqueue(t, "cancel", <<"order", o>>, 0) /\ o \notin canceling
        /\ canceling' = canceling \cup {o} /\ UNCHANGED <<processed, closing>>
    BY <1>5 DEF DeferCancel
  <2>2. <<"order", o>> \in Target /\ "cancel" \in Kinds
    BY <1>0, BookFields DEF Target, Kinds
  <2>3. /\ Len(execs') = Len(execs) + 1
        /\ \A i \in 1..Len(execs) : execs'[i] = execs[i]
        /\ execs'[Len(execs) + 1].kind = "cancel"
        /\ execs'[Len(execs) + 1].target = <<"order", o>>
        /\ Waiting' = Waiting \cup {Len(execs) + 1}
    BY <1>2, <2>1, <2>2
  <2>4. {j \in Waiting' : execs'[j].kind = "close"} = Closes
    BY <1>0, <2>3
  <2>5. {execs'[i].target[2] : i \in Closes} = {execs[i].target[2] : i \in Closes}
    BY <1>0, <2>3
  <2>6. closing' = {execs'[i].target[2] : i \in {j \in Waiting' : execs'[j].kind = "close"}}
    BY <2>1, <2>4, <2>5 DEF MarksInv, FreeItemsQueuedOnce
  <2>7. \A i \in 1..Len(execs) :
          execs[i].kind = "cancel" => execs[i].target # <<"order", o>>
    BY <2>1 DEF MarksInv
  <2>8. \A i, j \in 1..Len(execs') :
          execs'[i].kind = "cancel" /\ execs'[j].kind = "cancel"
            /\ execs'[i].target = execs'[j].target => i = j
    BY <1>0, <2>3, <2>7 DEF MarksInv, FreeItemsQueuedOnce
  <2>9. \A i \in 1..Len(execs') :
          /\ execs'[i].kind = "close" => execs'[i].target[1] = "position"
          /\ execs'[i].kind = "cancel" => execs'[i].target[2] \in canceling'
    BY <1>0, <2>1, <2>3 DEF MarksInv
  <2>10. \A i, j \in Waiting' :
           execs'[i].kind = "close" /\ execs'[j].kind = "close"
             /\ execs'[i].target = execs'[j].target => i = j
    BY <1>0, <2>3 DEF MarksInv, FreeItemsQueuedOnce
  <2> QED BY <2>6, <2>8, <2>9, <2>10 DEF MarksInv, FreeItemsQueuedOnce
<1>6. CASE CrankDeferred
  <2> DEFINE k == processed + 1
  <2>1. /\ processed' = k /\ UNCHANGED <<execs, canceling>>
        /\ closing' = IF execs[k].kind = "close"
                      THEN closing \ {execs[k].target[2]} ELSE closing
    BY <1>6 DEF CrankDeferred
  <2>2. k \in 1..Len(execs)
    <3>1. DeferredReady(NextPrice)
      BY <1>0, <1>6, DoWorkFacts DEF CrankDeferred
    <3> QED BY <1>0, <3>1 DEF DeferredReady
  <2>3. Waiting' = Waiting \ {k}
    BY <1>0, <2>1, <2>2
  <2>4. closing = {execs[i].target[2] : i \in Closes}
    BY DEF MarksInv, FreeItemsQueuedOnce
  <2>5. {j \in Waiting' : execs'[j].kind = "close"} = Closes \ {k}
    BY <2>1, <2>3
  <2>6. closing' = {execs[i].target[2] : i \in Closes \ {k}}
    <3>1. CASE execs[k].kind # "close"
      BY <2>1, <2>4, <3>1
    <3>2. CASE execs[k].kind = "close"
      <4>1. k \in Closes
        BY <1>0, <2>2, <3>2
      <4>2. \A i \in Closes \ {k} : execs[i].target # execs[k].target
        BY <4>1 DEF MarksInv, FreeItemsQueuedOnce
      <4>3. \A i \in Closes : execs[i].target \in Target /\ execs[i].target[1] = "position"
        BY <1>0 DEF MarksInv, Exec
      <4>4. \A x, y \in Target : x[1] = y[1] /\ x[2] = y[2] => x = y
        BY DEF Target
      <4>5. \A i \in Closes \ {k} : execs[i].target[2] # execs[k].target[2]
        BY <4>1, <4>2, <4>3, <4>4
      <4> QED BY <2>1, <2>4, <3>2, <4>1, <4>5
    <3> QED BY <3>1, <3>2
  <2>7. closing' = {execs'[i].target[2] : i \in {j \in Waiting' : execs'[j].kind = "close"}}
    BY <2>1, <2>5, <2>6
  <2>8. \A i, j \in Waiting' :
          execs'[i].kind = "close" /\ execs'[j].kind = "close"
            /\ execs'[i].target = execs'[j].target => i = j
    BY <1>0, <2>1, <2>3 DEF MarksInv, FreeItemsQueuedOnce
  <2> QED BY <2>1, <2>7, <2>8 DEF MarksInv, FreeItemsQueuedOnce
<1> QED BY <1>1, <1>3, <1>4, <1>5, <1>6, MarkSteps

\* A position is marked as closing exactly while a free close of it waits,
\* and no position or order has two free items queued (IS_POSITION_CLOSING,
\* IS_LIMIT_ORDER_CANCELING).
THEOREM FreeItems ==
  Spec => []FreeItemsQueuedOnce
<1>1. Init => MarksInv
  BY DEF Init, MarksInv, FreeItemsQueuedOnce
<1>2. MarksInv => FreeItemsQueuedOnce
  BY DEF MarksInv
<1>3. QueueInv => TypeInv
  BY DEF QueueInv, ScheduleInv
<1> QED BY <1>1, <1>2, <1>3, MarksStep, QueueInvariant, PTL DEF Spec

------------------------------------------------------------------------------
(* What items and orders are owed, as sums.                                *)

AmountsIn(q, S) == [i \in S |-> q[i].amount]

LEMMA OwedIsTotal ==
  ASSUME NEW q, NEW S, IsFiniteSet(S)
  PROVE  Owed(q, S) = Total(AmountsIn(q, S), S)
<1> DEFINE AmountSums(h) ==
      h = [s \in SUBSET S |->
             IF s = {} THEN 0
             ELSE LET x == CHOOSE x \in s : TRUE IN q[x].amount + h[s \ {x}]]
<1>1. Owed(q, S) = (CHOOSE h : AmountSums(h))[S]
  BY DEF Owed, MapThenSumSet, MapThenFoldSet
<1>2. ASSUME NEW h PROVE AmountSums(h) <=> Sums(h, AmountsIn(q, S), S)
  <2>1. \A s \in SUBSET S : s # {} => (CHOOSE x \in s : TRUE) \in S
    OBVIOUS
  <2>2. \A s \in SUBSET S : s # {} =>
          AmountsIn(q, S)[CHOOSE x \in s : TRUE] = q[CHOOSE x \in s : TRUE].amount
    BY <2>1 DEF AmountsIn
  <2> QED BY <2>2 DEF Sums
<1> HIDE DEF AmountSums
<1>3. PICK g : Sums(g, AmountsIn(q, S), S) /\ Total(AmountsIn(q, S), S) = g[S]
  BY SumsExist, TotalDef
<1>4. AmountSums(CHOOSE h : AmountSums(h))
  BY <1>2, <1>3
<1>5. Sums(CHOOSE h : AmountSums(h), AmountsIn(q, S), S)
  BY <1>2, <1>4
<1>6. (CHOOSE h : AmountSums(h))[S] = g[S]
  BY <1>3, <1>5, SumsAgree
<1> QED BY <1>1, <1>3, <1>6

\* Nothing is owed to nobody.
LEMMA OwedNone ==
  ASSUME NEW q
  PROVE  Owed(q, {}) = 0
BY OwedIsTotal, TotalChosen, FS_EmptySet

\* What is owed is an amount.
LEMMA OwedType ==
  ASSUME NEW q, NEW S, IsFiniteSet(S), \A i \in S : q[i].amount \in Nat
  PROVE  Owed(q, S) \in Nat
<1>1. \A i \in S : AmountsIn(q, S)[i] \in Nat
  BY DEF AmountsIn
<1> QED BY <1>1, OwedIsTotal, TotalType

\* It depends on the amounts only.
LEMMA OwedSame ==
  ASSUME NEW q, NEW r, NEW S, IsFiniteSet(S), \A i \in S : q[i].amount = r[i].amount
  PROVE  Owed(q, S) = Owed(r, S)
<1>1. \A i \in S : AmountsIn(q, S)[i] = AmountsIn(r, S)[i]
  BY DEF AmountsIn
<1> QED BY <1>1, OwedIsTotal, TotalSame

\* Any element can be taken out of it.
LEMMA OwedRemove ==
  ASSUME NEW q, NEW S, IsFiniteSet(S), \A i \in S : q[i].amount \in Nat,
         NEW y \in S
  PROVE  Owed(q, S) = q[y].amount + Owed(q, S \ {y})
<1> DEFINE R == S \ {y}
<1>1. IsFiniteSet(R)
  BY FS_RemoveElement
<1>2. \A i \in R : AmountsIn(q, S)[i] = AmountsIn(q, R)[i]
  BY DEF AmountsIn
<1>3. (\A i \in S : AmountsIn(q, S)[i] \in Nat) /\ AmountsIn(q, S)[y] = q[y].amount
  BY DEF AmountsIn
<1>4. Total(AmountsIn(q, S), S) = q[y].amount + Total(AmountsIn(q, S), R)
  BY <1>3, TotalRemove
<1> HIDE DEF R
<1>5. Total(AmountsIn(q, S), R) = Owed(q, R)
  BY <1>1, <1>2, OwedIsTotal, TotalSame
<1> QED BY <1>4, <1>5, OwedIsTotal DEF R

\* An element more.
LEMMA OwedAdd ==
  ASSUME NEW q, NEW S, IsFiniteSet(S), NEW y, y \notin S,
         \A i \in S \cup {y} : q[i].amount \in Nat
  PROVE  Owed(q, S \cup {y}) = q[y].amount + Owed(q, S)
<1>1. IsFiniteSet(S \cup {y}) /\ (S \cup {y}) \ {y} = S
  BY FS_AddElement
<1> QED BY <1>1, OwedRemove

------------------------------------------------------------------------------
(* The money of the order book.                                            *)

\* What the open orders hold is an amount.
LEMMA OrdersHold ==
  ASSUME TypeOK
  PROVE  /\ IsFiniteSet(OpenOrders)
         /\ \A o \in OpenOrders : orders[o].amount \in Nat
         /\ Owed(orders, OpenOrders) \in Nat
<1>1. IsFiniteSet(OpenOrders)
  <2>1. IsFiniteSet(1..Len(orders))
    BY BookFields, FS_Interval
  <2> QED BY <2>1, BookFields, FS_Subset
<1>2. \A o \in OpenOrders : orders[o].amount \in Nat
  BY BookFields DEF LimitOrder
<1> QED BY <1>1, <1>2, OwedType

\* An order that leaves the book takes its collateral with it.
LEMMA OrderTaken ==
  ASSUME TypeOK, NEW o \in OpenOrders, orders' = OffBook(o)
  PROVE  /\ orders[o].amount \in Nat
         /\ Owed(orders', OpenOrders') = Owed(orders, OpenOrders) - orders[o].amount
<1>1. o \in 1..Len(orders) /\ orders[o] \in LimitOrder /\ Len(orders) \in Nat
  BY BookFields
<1> DEFINE r == [orders[o] EXCEPT !.open = FALSE]
<1>2. r \in LimitOrder /\ r.open = FALSE
  BY <1>1 DEF LimitOrder
<1>3. orders' = [orders EXCEPT ![o] = r] /\ orders \in Seq(LimitOrder)
  BY <1>1 DEF TypeOK, OffBook
<1> HIDE DEF r
<1>4. /\ Len(orders') = Len(orders) /\ orders'[o] = r
      /\ \A q \in 1..Len(orders) : q # o => orders'[q] = orders[q]
  BY <1>1, <1>2, <1>3, UpdateSeq
<1>5. OpenOrders' = OpenOrders \ {o}
  BY <1>1, <1>2, <1>4 DEF OpenOrders
<1>6. IsFiniteSet(OpenOrders) /\ \A q \in OpenOrders : orders[q].amount \in Nat
  BY OrdersHold
<1>7. Owed(orders, OpenOrders) = orders[o].amount + Owed(orders, OpenOrders \ {o})
  BY <1>6, OwedRemove
<1>8. Owed(orders, OpenOrders \ {o}) = Owed(orders', OpenOrders \ {o})
  <2>1. \A q \in OpenOrders \ {o} : orders[q].amount = orders'[q].amount
    BY <1>4, BookFields
  <2>2. IsFiniteSet(OpenOrders \ {o})
    BY <1>6, FS_Subset
  <2> QED BY <2>1, <2>2, OwedSame
<1>9. IsFiniteSet(OpenOrders \ {o}) /\ Owed(orders, OpenOrders \ {o}) \in Nat
  BY <1>6, FS_Subset, OwedType
<1> QED BY <1>5, <1>6, <1>7, <1>8, <1>9

\* A new order brings its collateral.
LEMMA OrderPlaced ==
  ASSUME TypeOK, NEW r \in LimitOrder, r.open, orders' = Append(orders, r)
  PROVE  Owed(orders', OpenOrders') = Owed(orders, OpenOrders) + r.amount
<1> DEFINE n == Len(orders) + 1
<1>1. /\ Len(orders) \in Nat /\ Len(orders') = n /\ orders'[n] = r
      /\ \A q \in 1..Len(orders) : orders'[q] = orders[q]
  BY BookFields, AppendProperties DEF TypeOK
<1>2. OpenOrders \subseteq 1..Len(orders) /\ n \notin OpenOrders
  BY <1>1 DEF OpenOrders
<1>3. OpenOrders' = OpenOrders \cup {n}
  BY <1>1 DEF OpenOrders
<1>4. /\ IsFiniteSet(OpenOrders) /\ Owed(orders, OpenOrders) \in Nat
      /\ \A q \in OpenOrders : orders[q].amount \in Nat
  BY OrdersHold
<1>5. \A q \in OpenOrders : orders'[q].amount = orders[q].amount
  BY <1>1, <1>2
<1>6. Owed(orders', OpenOrders) = Owed(orders, OpenOrders)
  BY <1>4, <1>5, OwedSame
<1>7. r.amount \in Nat /\ \A q \in OpenOrders \cup {n} : orders'[q].amount \in Nat
  BY <1>1, <1>4, <1>5 DEF LimitOrder
<1>8. Owed(orders', OpenOrders \cup {n}) = orders'[n].amount + Owed(orders', OpenOrders)
  <2> HIDE DEF n
  <2> QED BY <1>2, <1>4, <1>7, OwedAdd
<1> QED BY <1>1, <1>3, <1>4, <1>6, <1>7, <1>8

------------------------------------------------------------------------------
(* The money of the queue.                                                 *)

\* The kinds of items that hold no collateral.
Unpaid == UpdateKinds \cup {"close", "cancel"}

UnpaidHoldNothing ==
  \A i \in 1..Len(execs) : execs[i].kind \in Unpaid => execs[i].amount = 0

\* Every step, seen from the money the queue holds: nothing moves, or a
\* message is queued with its deposit, or the item in flight is settled and
\* its deposit leaves.
Still == UNCHANGED execs /\ Escrow' = Escrow

Deposited ==
  \E t \in Traders, kind \in Kinds, target \in Target, a \in 0..Max(Amounts \cup {0}) :
    /\ Enqueue(t, kind, target, a)
    /\ kind \in Unpaid => a = 0
    /\ Escrow' = Escrow + a

Released ==
  /\ phase \in {"perform", "reply"}
  /\ Cur.status = "pending"
  /\ \E st \in {"success", "failure"} : execs' = SettledAs(st)
  /\ Escrow' = Escrow - Cur.amount

\* The deposits are bounded.
LEMMA DepositBound ==
  /\ Max(Amounts \cup {0}) \in Nat
  /\ \A a \in Amounts \cup {0} : a =< Max(Amounts \cup {0})
<1> DEFINE A == Amounts \cup {0}
           Good == {s \in SUBSET A : \E n \in Nat : \A x \in s : x =< n}
<1>1. A \subseteq Nat /\ A # {} /\ IsFiniteSet(A)
  BY AmountsAssumption, AmountsFinite, FS_AddElement
<1>2. ASSUME NEW s \in SUBSET A, \A t \in SUBSET s : t # s => t \in Good
      PROVE  s \in Good
  <2>1. CASE s = {}
    BY <2>1
  <2>2. CASE s # {}
    <3>1. PICK y \in s : TRUE
      BY <2>2
    <3>2. s \ {y} \in Good
      BY <1>2, <3>1
    <3>3. PICK n \in Nat : \A x \in s \ {y} : x =< n
      BY <3>2
    <3>4. y \in Nat /\ s \subseteq Nat
      BY <1>1, <3>1
    <3>5. n + y \in Nat /\ \A x \in s : x =< n + y
      BY <3>3, <3>4
    <3> QED BY <3>5
  <2> QED BY <2>1, <2>2
<1>3. A \in Good
  <2> HIDE DEF Good, A
  <2> QED BY <1>1, <1>2, SubsetInduction
<1>4. PICK n \in Nat : \A x \in A : x =< n
  BY <1>3
<1> HIDE DEF A
<1>5. Max(A) \in A /\ \A x \in A : x =< Max(A)
  BY <1>1, <1>4, MaxOfBounded
<1> QED BY <1>1, <1>5 DEF A

LEMMA MoneySteps ==
  ASSUME TypeInv, PricedOK, SettledInOrder, UnpaidHoldNothing, [Next]_vars
  PROVE  Still \/ Deposited \/ Released
<1> USE DEF queueVars, bookVars, txVars, timeVars, moneyVars
<1> DEFINE held == Owed(orders, OpenOrders)
           top == Max(Amounts \cup {0})
<1>0. TypeOK /\ InFlightOK
  BY DEF TypeInv
<1>1. /\ balance \in Int /\ pot \in Nat /\ crankFees \in Nat /\ rewards \in Nat
      /\ held \in Nat
  BY <1>0, OrdersHold DEF TypeOK
<1>2. ASSUME UNCHANGED orders PROVE held' = held
  BY <1>2 DEF OpenOrders
<1>3. ASSUME NEW x \in Payouts, NEW fee \in Nat, PayFromPot(x, fee), UNCHANGED orders
      PROVE  Escrow' = Escrow
  <2>1. x \in Nat
    BY PayoutsAssumption
  <2>2. /\ pot' = pot - x - fee /\ crankFees' = crankFees + fee
        /\ balance' = balance - x /\ rewards' = rewards
    BY <1>3 DEF PayFromPot
  <2>3. held' = held
    BY <1>2, <1>3
  <2> HIDE DEF held
  <2> QED BY <1>1, <2>1, <2>2, <2>3 DEF Escrow, held
<1>4. CASE TraderMsg
  <2>1. PICK t \in Traders :
          \/ \E k \in NewKinds, a \in Amounts : DeferNew(t, k, a)
          \/ \E p \in Open :
               \/ \E a \in Amounts : DeferAdd(t, p, a)
               \/ \E k \in UpdateKinds, a \in Amounts : DeferUpdate(t, p, k, a)
               \/ DeferClose(t, p)
               \/ NftTransfer(p, t)
          \/ \E o \in OpenOrders : DeferCancel(t, o)
    BY <1>4 DEF TraderMsg
  <2>2. /\ Fee \in Nat /\ top \in Nat
        /\ \A a \in Amounts : a \in Nat /\ a =< top
    BY <1>0, FeeType, AmountsAssumption, DepositBound
  <2>3. /\ \A p \in Open : <<"position", p>> \in Target
        /\ \A o \in OpenOrders : <<"order", o>> \in Target
        /\ NoTarget \in Target
        /\ NewKinds \subseteq Kinds \ Unpaid /\ UpdateKinds \subseteq Kinds
        /\ "add" \in Kinds \ Unpaid /\ "close" \in Kinds /\ "cancel" \in Kinds
    BY <1>0, BookFields DEF Target, NoTarget, Kinds, NewKinds, PosKinds, UpdateKinds, Unpaid
  <2>4. ASSUME NEW k \in Kinds \ Unpaid, NEW target \in Target, NEW a \in Amounts,
               a > Fee, Enqueue(t, k, target, a - Fee), balance' = balance + a,
               crankFees' = crankFees + Fee, UNCHANGED <<rewards, pot, orders>>
        PROVE  Deposited
    <3>1. a - Fee \in 0..top
      BY <2>2, <2>4
    <3>2. held' = held
      BY <1>2, <2>4
    <3>3. Escrow' = Escrow + (a - Fee)
      <4> HIDE DEF held
      <4> QED BY <1>1, <2>2, <2>4, <3>2 DEF Escrow, held
    <3> HIDE DEF top
    <3> QED BY <2>4, <3>1, <3>3 DEF Deposited, top
  <2>5. ASSUME NEW k \in NewKinds, NEW a \in Amounts, DeferNew(t, k, a)
        PROVE  Deposited
    BY <2>3, <2>4, <2>5 DEF DeferNew
  <2>6. ASSUME NEW p \in Open, NEW a \in Amounts, DeferAdd(t, p, a)
        PROVE  Deposited
    BY <2>3, <2>4, <2>6 DEF DeferAdd
  <2>7. ASSUME NEW k \in Kinds, NEW target \in Target, Enqueue(t, k, target, 0),
               Escrow' = Escrow
        PROVE  Deposited
    <3>1. 0 \in 0..top /\ Escrow + 0 = Escrow
      BY <1>1, <2>2 DEF Escrow
    <3> HIDE DEF top
    <3> QED BY <2>7, <3>1 DEF Deposited, top
  <2>8. ASSUME NEW p \in Open, NEW k \in UpdateKinds, NEW a \in Amounts,
               DeferUpdate(t, p, k, a)
        PROVE  Deposited
    <3>1. /\ Enqueue(t, k, <<"position", p>>, 0) /\ balance' = balance + a
          /\ crankFees' = crankFees + Fee /\ rewards' = rewards + (a - Fee)
          /\ UNCHANGED <<pot, orders>>
      BY <2>8 DEF DeferUpdate
    <3>2. held' = held
      BY <1>2, <3>1
    <3>3. Escrow' = Escrow
      <4> HIDE DEF held
      <4> QED BY <1>1, <2>2, <3>1, <3>2 DEF Escrow, held
    <3> QED BY <2>3, <2>7, <3>1, <3>3
  <2>9. ASSUME UNCHANGED <<balance, crankFees, rewards, pot, orders>>
        PROVE  Escrow' = Escrow
    BY <1>2, <2>9 DEF Escrow
  <2>10. ASSUME NEW p \in Open, DeferClose(t, p)
         PROVE  Deposited
    BY <2>3, <2>7, <2>9, <2>10 DEF DeferClose
  <2>11. ASSUME NEW p \in Open, NftTransfer(p, t)
         PROVE  Still
    BY <2>9, <2>11 DEF NftTransfer, Still
  <2>12. ASSUME NEW o \in OpenOrders, DeferCancel(t, o)
         PROVE  Deposited
    BY <2>3, <2>7, <2>9, <2>12 DEF DeferCancel
  <2> QED BY <2>1, <2>5, <2>6, <2>8, <2>10, <2>11, <2>12
<1>5. CASE \/ CloseAllPositions \/ Tick \/ (\E v \in Prices : SetManualPrice(v))
           \/ (\E n \in CrankExecs : Crank(n)) \/ CrankReset \/ CrankDeferred
           \/ CrankCompleted \/ PerformFail \/ UNCHANGED vars
  <2>1. UNCHANGED <<execs, balance, crankFees, rewards, pot, orders>>
    BY <1>5 DEF CloseAllPositions, Tick, SetManualPrice, Crank, CrankReset, CrankDeferred,
      CrankCompleted, PerformFail, vars
  <2> QED BY <1>2, <2>1 DEF Escrow, Still
<1>6. CASE CrankLiquifund
  <2> DEFINE fee == Min({CrankFee, pot})
  <2>1. fee \in Nat /\ fee =< pot
    BY <1>1, MinOfTwo, FeeAssumption
  <2>2. /\ UNCHANGED <<execs, orders>>
        /\ \/ /\ pot' = pot - fee /\ crankFees' = crankFees + fee
              /\ UNCHANGED <<balance, rewards>>
           \/ \E x \in Payouts : PayFromPot(x, fee)
    BY <1>6 DEF CrankLiquifund
  <2> HIDE DEF fee
  <2>3. CASE \E x \in Payouts : PayFromPot(x, fee)
    BY <1>3, <2>1, <2>2, <2>3 DEF Still
  <2>4. CASE /\ pot' = pot - fee /\ crankFees' = crankFees + fee
             /\ UNCHANGED <<balance, rewards>>
    <3>1. held' = held
      BY <1>2, <2>2
    <3>2. Escrow' = Escrow
      <4> HIDE DEF held
      <4> QED BY <1>1, <2>1, <2>4, <3>1 DEF Escrow, held
    <3> QED BY <2>2, <3>2 DEF Still
  <2> QED BY <2>2, <2>3, <2>4
<1>7. CASE CrankCloseAll
  <2>1. UNCHANGED <<execs, orders>> /\ \E x \in Payouts : PayFromPot(x, 0)
    BY <1>7 DEF CrankCloseAll
  <2> QED BY <1>3, <2>1 DEF Still
<1>8. CASE CrankLiquidate
  <2>1. /\ UNCHANGED <<execs, orders>>
        /\ \E x \in Payouts : PayFromPot(x, Min({CrankFee, pot}))
    BY <1>8 DEF CrankLiquidate
  <2>2. Min({CrankFee, pot}) \in Nat
    BY <1>1, MinOfTwo, FeeAssumption
  <2> QED BY <1>3, <2>1, <2>2 DEF Still
<1>9. CASE CrankLimitOrder
  <2> DEFINE o == TriggeredOrder(prices[NextPrice])
  <2>1. /\ DoWork("limitOrder") /\ orders' = OffBook(o)
        /\ UNCHANGED <<execs, crankFees, rewards>>
        /\ \/ pot' = pot + orders[o].amount /\ balance' = balance
           \/ balance' = balance - orders[o].amount /\ pot' = pot
    BY <1>9 DEF CrankLimitOrder
  <2>2. o \in OpenOrders
    BY <1>0, <2>1, DoWorkFacts, TriggeredOrderIn
  <2> HIDE DEF o
  <2>3. orders[o].amount \in Nat /\ held' = held - orders[o].amount
    BY <1>0, <2>1, <2>2, OrderTaken
  <2>4. Escrow' = Escrow
    <3> HIDE DEF held
    <3> QED BY <1>1, <2>1, <2>3 DEF Escrow, held
  <2> QED BY <2>1, <2>4 DEF Still
<1>10. CASE CrankFinish
  <2>1. /\ UNCHANGED <<execs, orders, balance, pot>>
        /\ crankFees' = crankFees - CrankPayment /\ rewards' = rewards + CrankPayment
    BY <1>10 DEF CrankFinish
  <2>2. CrankPayment \in Nat
    <3>1. progress.paying \in Nat /\ CrankReward \in Nat
      BY <1>0, FeeAssumption DEF TypeOK
    <3>2. \A x, y \in Nat : x * y \in Nat
      BY Z3
    <3> QED BY <1>1, <3>1, <3>2, MinOfTwo DEF CrankPayment
  <2>3. held' = held
    BY <1>2, <2>1
  <2>4. Escrow' = Escrow
    <3> HIDE DEF held
    <3> QED BY <1>1, <2>1, <2>2, <2>3 DEF Escrow, held
  <2> QED BY <2>1, <2>4 DEF Still
<1>11. ASSUME NEW kinds, Succeed(kinds)
       PROVE  /\ phase \in {"perform", "reply"} /\ Cur.status = "pending"
              /\ execs' = SettledAs("success")
              /\ Cur.kind \in kinds /\ Cur.amount \in Nat
              /\ Cur.kind \in Unpaid => Cur.amount = 0
  <2>1. Cur \in Exec /\ processed \in 1..Len(execs)
    <3>1. Cur \in Exec /\ processed # 0
      BY <1>11, SucceedFacts
    <3>2. processed \in 0..Len(execs) /\ Len(execs) \in Nat
      BY <1>0, BookFields DEF TypeOK
    <3> QED BY <3>1, <3>2
  <2> QED BY <1>11, <2>1 DEF Succeed, SettledInOrder, UnpaidHoldNothing, Cur, Exec
<1>12. ASSUME NEW kinds, Succeed(kinds), Escrow' = Escrow - Cur.amount
       PROVE  Released
  BY <1>11, <1>12 DEF Released
<1>13. CASE PerformOpen
  <2>1. /\ Succeed({"open"}) /\ pot' = pot + Cur.amount
        /\ UNCHANGED <<orders, balance, crankFees, rewards>>
    BY <1>13 DEF PerformOpen
  <2>2. held' = held /\ Cur.amount \in Nat
    BY <1>2, <1>11, <2>1
  <2>3. Escrow' = Escrow - Cur.amount
    <3> HIDE DEF held
    <3> QED BY <1>1, <2>1, <2>2 DEF Escrow, held
  <2> QED BY <1>12, <2>1, <2>3
<1>14. CASE PerformPlace
  <2>1. /\ Succeed({"place"}) /\ Cur.amount > CrankFee
        /\ \E ot \in OrderTriggers :
             orders' = Append(orders, [owner |-> Cur.owner, open |-> TRUE,
                                       dir |-> ot[1], trigger |-> ot[2],
                                       amount |-> Cur.amount - CrankFee])
        /\ crankFees' = crankFees + CrankFee
        /\ UNCHANGED <<balance, rewards, pot>>
    BY <1>14 DEF PerformPlace
  <2>2. PICK ot \in OrderTriggers :
             orders' = Append(orders, [owner |-> Cur.owner, open |-> TRUE,
                                       dir |-> ot[1], trigger |-> ot[2],
                                       amount |-> Cur.amount - CrankFee])
    BY <2>1
  <2> DEFINE r == [owner |-> Cur.owner, open |-> TRUE, dir |-> ot[1],
                   trigger |-> ot[2], amount |-> Cur.amount - CrankFee]
  <2>3. CrankFee \in Nat /\ Cur.amount \in Nat /\ Cur.amount - CrankFee \in Nat
    BY <1>11, <2>1, FeeAssumption
  <2>4. r \in LimitOrder /\ r.open /\ r.amount = Cur.amount - CrankFee
    <3>1. Cur.owner \in Traders
      BY <2>1, SucceedFacts DEF Exec
    <3> QED BY <2>3, <3>1, OrderTriggersAssumption DEF LimitOrder
  <2>5. held' = held + (Cur.amount - CrankFee)
    <3> HIDE DEF r
    <3> QED BY <1>0, <2>2, <2>4, OrderPlaced DEF r
  <2>6. Escrow' = Escrow - Cur.amount
    <3> HIDE DEF held
    <3> QED BY <1>1, <2>1, <2>3, <2>5 DEF Escrow, held
  <2> QED BY <1>12, <2>1, <2>6
<1>15. CASE PerformUpdate
  <2>1. /\ Succeed({"add", "update"}) /\ UNCHANGED orders
        /\ IF Cur.kind = "add"
           THEN pot' = pot + Cur.amount /\ UNCHANGED <<balance, crankFees, rewards>>
           ELSE \E x \in Payouts : PayFromPot(x, 0)
    BY <1>15 DEF PerformUpdate
  <2>2. held' = held /\ Cur.amount \in Nat
        /\ Cur.kind \in {"add", "update"} /\ (Cur.kind \in Unpaid => Cur.amount = 0)
    BY <1>2, <1>11, <2>1
  <2>3. CASE Cur.kind = "add"
    <3>1. Escrow' = Escrow - Cur.amount
      <4> HIDE DEF held
      <4> QED BY <1>1, <2>1, <2>2, <2>3 DEF Escrow, held
    <3> QED BY <1>12, <2>1, <3>1
  <2>4. CASE Cur.kind = "update"
    <3>1. Escrow' = Escrow /\ Cur.amount = 0
      BY <1>3, <2>1, <2>2, <2>4 DEF Unpaid, UpdateKinds
    <3>2. Escrow' = Escrow - Cur.amount
      BY <1>1, <3>1 DEF Escrow
    <3> QED BY <1>12, <2>1, <3>2
  <2> QED BY <2>2, <2>3, <2>4
<1>16. CASE PerformClose
  <2>1. /\ Succeed({"close", "closeSlippage"}) /\ UNCHANGED orders
        /\ \E x \in Payouts : PayFromPot(x, 0)
    BY <1>16 DEF PerformClose
  <2>2. Cur.amount = 0
    BY <1>11, <2>1 DEF Unpaid, UpdateKinds
  <2>3. Escrow' = Escrow - Cur.amount
    BY <1>1, <1>3, <2>1, <2>2 DEF Escrow
  <2> QED BY <1>12, <2>1, <2>3
<1>17. CASE PerformCancel
  <2> DEFINE o == Cur.target[2]
  <2>1. /\ Succeed({"cancel"}) /\ o \in OpenOrders /\ orders' = OffBook(o)
        /\ balance' = balance - orders[o].amount
        /\ UNCHANGED <<crankFees, rewards, pot>>
    BY <1>17 DEF PerformCancel
  <2>2. Cur.amount = 0
    BY <1>11, <2>1 DEF Unpaid
  <2> HIDE DEF o
  <2>3. orders[o].amount \in Nat /\ held' = held - orders[o].amount
    BY <1>0, <2>1, OrderTaken
  <2>4. Escrow' = Escrow - Cur.amount
    <3> HIDE DEF held
    <3> QED BY <1>1, <2>1, <2>2, <2>3 DEF Escrow, held
  <2> QED BY <1>12, <2>1, <2>4
<1>18. CASE Reply
  <2>1. /\ phase = "reply" /\ SettleReply
        /\ UNCHANGED <<crankFees, rewards, pot, orders>>
    BY <1>18 DEF Reply
  <2>2. held' = held
    BY <1>2, <2>1
  <2>3. CASE UNCHANGED <<execs, balance>>
    BY <2>1, <2>2, <2>3 DEF Escrow, Still
  <2>4. CASE /\ Cur.status = "pending" /\ execs' = SettledAs("failure")
             /\ balance' = balance - Cur.amount
    <3>1. Cur.amount \in Nat
      <4>1. processed \in 1..Len(execs)
        BY <1>0, <2>1, BookFields DEF TypeOK, InFlightOK
      <4>2. Cur \in Exec
        BY <1>0, <4>1, BookFields DEF Cur
      <4> QED BY <4>2 DEF Exec
    <3>2. Escrow' = Escrow - Cur.amount
      <4> HIDE DEF held
      <4> QED BY <1>1, <2>1, <2>2, <2>4, <3>1 DEF Escrow, held
    <3> QED BY <2>1, <2>4, <3>2 DEF Released
  <2> QED BY <2>1, <2>3, <2>4 DEF SettleReply
<1> QED
  BY <1>4, <1>5, <1>6, <1>7, <1>8, <1>9, <1>10, <1>13, <1>14, <1>15, <1>16, <1>17, <1>18
     DEF Next, TxStep

------------------------------------------------------------------------------
(* The token balance, and the abstract queue.                              *)

FundsInv ==
  /\ QueueInv
  /\ UnpaidHoldNothing
  /\ Escrow = Owed(execs, PendingItems)

\* The pending items and their deposits.
LEMMA ItemsHold ==
  ASSUME TypeOK
  PROVE  /\ PendingItems \subseteq 1..Len(execs)
         /\ IsFiniteSet(PendingItems)
         /\ \A i \in PendingItems : execs[i].amount \in Nat
         /\ Owed(execs, PendingItems) \in Nat
<1>1. PendingItems \subseteq 1..Len(execs)
  BY DEF PendingItems
<1>2. IsFiniteSet(PendingItems)
  <2>1. IsFiniteSet(1..Len(execs))
    BY BookFields, FS_Interval
  <2> QED BY <1>1, <2>1, FS_Subset
<1>3. \A i \in PendingItems : execs[i].amount \in Nat
  BY <1>1, BookFields DEF Exec
<1> QED BY <1>1, <1>2, <1>3, OwedType

\* A message that is queued, seen from the deposits.
LEMMA ItemQueued ==
  ASSUME TypeOK, NEW t \in Traders, NEW kind \in Kinds, NEW target \in Target,
         NEW a \in Nat, Enqueue(t, kind, target, a)
  PROVE  /\ Owed(execs', PendingItems') = Owed(execs, PendingItems) + a
         /\ Len(execs') = Len(execs) + 1
         /\ \A i \in 1..Len(execs) : execs'[i] = execs[i]
         /\ execs'[Len(execs) + 1].kind = kind
         /\ execs'[Len(execs) + 1].amount = a
         /\ execs'[Len(execs) + 1].status = "pending"
<1> DEFINE n == Len(execs) + 1
<1>1. /\ Len(execs) \in Nat /\ Len(execs') = n
      /\ \A i \in 1..Len(execs) : execs'[i] = execs[i]
      /\ execs'[n] = Item(t, kind, target, a)
  BY EnqueueFacts, BookFields
<1>2. execs'[n].kind = kind /\ execs'[n].amount = a /\ execs'[n].status = "pending"
  BY <1>1 DEF Item
<1>3. n \notin PendingItems /\ PendingItems' = PendingItems \cup {n}
  BY <1>1, <1>2 DEF PendingItems
<1>4. \A i \in PendingItems : execs'[i].amount = execs[i].amount
  BY <1>1, ItemsHold
<1>5. Owed(execs', PendingItems) = Owed(execs, PendingItems)
  BY <1>4, ItemsHold, OwedSame
<1>6. \A i \in PendingItems \cup {n} : execs'[i].amount \in Nat
  BY <1>2, <1>4, ItemsHold
<1>7. Owed(execs', PendingItems \cup {n}) = execs'[n].amount + Owed(execs', PendingItems)
  <2> HIDE DEF n
  <2> QED BY <1>3, <1>6, ItemsHold, OwedAdd
<1>8. Owed(execs', PendingItems') = Owed(execs, PendingItems) + a
  BY <1>2, <1>3, <1>5, <1>7, ItemsHold
<1> QED BY <1>1, <1>2, <1>8

\* The item in flight is settled, seen from the deposits.
LEMMA ItemSettled ==
  ASSUME TypeInv, phase \in {"perform", "reply"}, Cur.status = "pending",
         NEW st \in {"success", "failure"}, execs' = SettledAs(st)
  PROVE  /\ processed \in PendingItems
         /\ Owed(execs', PendingItems') = Owed(execs, PendingItems) - Cur.amount
         /\ SameItems
         /\ \A i \in 1..Len(execs) : i # processed => execs'[i] = execs[i]
         /\ execs'[processed].status = st
<1>1. TypeOK /\ processed # 0 /\ Uncranked # {}
  BY DEF TypeInv, InFlightOK
<1>2. processed \in 1..Len(execs) /\ Len(execs) \in Nat
  BY <1>1, BookFields DEF TypeOK
<1>3. /\ Len(execs') = Len(execs)
      /\ \A i \in 1..Len(execs) : i # processed => execs'[i] = execs[i]
      /\ execs'[processed].status = st
  BY <1>1, StatusUpdate
<1>4. SameItems
  BY <1>1, StatusKeeps
<1>5. processed \in PendingItems /\ PendingItems' = PendingItems \ {processed}
  BY <1>2, <1>3 DEF PendingItems, Cur
<1> DEFINE rest == PendingItems \ {processed}
<1>6. IsFiniteSet(rest) /\ \A i \in rest : execs'[i].amount = execs[i].amount
  <2>1. IsFiniteSet(rest)
    BY <1>1, ItemsHold, FS_Subset
  <2> QED BY <1>1, <1>3, <2>1, ItemsHold
<1>7. Owed(execs', rest) = Owed(execs, rest)
  <2> HIDE DEF rest
  <2> QED BY <1>6, OwedSame
<1>8. Owed(execs, PendingItems) = Cur.amount + Owed(execs, rest)
  BY <1>1, <1>5, ItemsHold, OwedRemove DEF Cur
<1>9. Owed(execs, rest) \in Nat /\ Cur.amount \in Nat
  <2>1. \A i \in rest : execs[i].amount \in Nat
    BY <1>1, ItemsHold
  <2>2. Owed(execs, rest) \in Nat
    <3> HIDE DEF rest
    <3> QED BY <1>6, <2>1, OwedType
  <2> QED BY <1>1, <1>5, <2>2, ItemsHold DEF Cur
<1>10. Owed(execs', PendingItems') = Owed(execs, PendingItems) - Cur.amount
  <2> HIDE DEF rest
  <2> QED BY <1>5, <1>7, <1>8, <1>9 DEF rest
<1> QED BY <1>3, <1>4, <1>5, <1>10

LEMMA FundsInit ==
  Init => FundsInv
<1> SUFFICES ASSUME Init PROVE FundsInv
  OBVIOUS
<1>1. execs = <<>> /\ Len(execs) = 0 /\ Len(orders) = 0
  BY DEF Init
<1>2. PendingItems = {} /\ OpenOrders = {}
  BY <1>1 DEF PendingItems, OpenOrders
<1>3. Owed(execs, {}) = 0 /\ Owed(orders, {}) = 0
  BY OwedNone
<1>4. InitPot \in Nat /\ balance = InitPot /\ pot = InitPot /\ crankFees = 0 /\ rewards = 0
  BY BoundsAssumption DEF Init
<1>5. Escrow = Owed(execs, PendingItems)
  BY <1>2, <1>3, <1>4 DEF Escrow
<1>6. UnpaidHoldNothing
  BY <1>1 DEF UnpaidHoldNothing
<1> QED BY <1>5, <1>6, QueueInit DEF FundsInv

LEMMA FundsStep ==
  ASSUME FundsInv, [Next]_vars
  PROVE  FundsInv'
<1>0. TypeInv /\ TypeOK /\ PricedOK /\ SettledInOrder
  BY DEF FundsInv, QueueInv, ScheduleInv, TypeInv
<1>1. QueueInv'
  BY QueuePreserved DEF FundsInv
<1>2. Still \/ Deposited \/ Released
  BY <1>0, MoneySteps DEF FundsInv
<1>3. Owed(execs, PendingItems) \in Nat /\ Len(execs) \in Nat
  BY <1>0, ItemsHold, BookFields
<1>4. CASE Still
  BY <1>1, <1>4 DEF Still, FundsInv, UnpaidHoldNothing, PendingItems
<1>5. CASE Deposited
  <2>1. PICK t \in Traders, kind \in Kinds, target \in Target,
             a \in 0..Max(Amounts \cup {0}) :
          /\ Enqueue(t, kind, target, a)
          /\ kind \in Unpaid => a = 0
          /\ Escrow' = Escrow + a
    BY <1>5 DEF Deposited
  <2>2. a \in Nat
    BY DepositBound
  <2>3. /\ Owed(execs', PendingItems') = Owed(execs, PendingItems) + a
        /\ Len(execs') = Len(execs) + 1
        /\ \A i \in 1..Len(execs) : execs'[i] = execs[i]
        /\ execs'[Len(execs) + 1].kind = kind
        /\ execs'[Len(execs) + 1].amount = a
    BY <1>0, <2>1, <2>2, ItemQueued
  <2>4. UnpaidHoldNothing'
    BY <1>3, <2>1, <2>3 DEF FundsInv, UnpaidHoldNothing
  <2>5. Escrow' = Owed(execs', PendingItems')
    BY <2>1, <2>3 DEF FundsInv
  <2> QED BY <1>1, <2>4, <2>5 DEF FundsInv
<1>6. CASE Released
  <2>1. PICK st \in {"success", "failure"} : execs' = SettledAs(st)
    BY <1>6 DEF Released
  <2>2. /\ Owed(execs', PendingItems') = Owed(execs, PendingItems) - Cur.amount
        /\ SameItems
    BY <1>0, <1>6, <2>1, ItemSettled DEF Released
  <2>3. UnpaidHoldNothing'
    BY <2>2 DEF FundsInv, UnpaidHoldNothing, SameItems
  <2>4. Escrow' = Owed(execs', PendingItems')
    BY <1>6, <2>2 DEF FundsInv, Released
  <2> QED BY <1>1, <2>3, <2>4 DEF FundsInv
<1> QED BY <1>2, <1>4, <1>5, <1>6

LEMMA FundsInvariant ==
  Spec => []FundsInv
BY FundsInit, FundsStep, PTL DEF Spec

\* Every token the contract holds belongs to exactly one of the waiting
\* items, the open orders, the fees, the rewards and the market, after every
\* step of every transaction (sanity.rs, token_balance).
THEOREM Balanced ==
  Spec => []TokenBalance
<1>1. FundsInv => TokenBalance
  <2> SUFFICES ASSUME FundsInv PROVE TokenBalance
    OBVIOUS
  <2>1. TypeOK
    BY DEF FundsInv, QueueInv, ScheduleInv, TypeInv
  <2>2. /\ balance \in Int /\ pot \in Nat /\ crankFees \in Nat /\ rewards \in Nat
        /\ Owed(orders, OpenOrders) \in Nat /\ Owed(execs, PendingItems) \in Nat
    BY <2>1, OrdersHold, ItemsHold DEF TypeOK
  <2> QED BY <2>2 DEF FundsInv, Escrow, TokenBalance
<1> QED BY <1>1, FundsInvariant, PTL

\* The engine implements the abstract queue: a step of it is the submission
\* of one message with its deposit, the settlement of the oldest pending one
\* with the release of its deposit, or none.
THEOREM QueueRefined ==
  Spec => ImplementsQueue
<1> DEFINE items == [i \in 1..Len(execs) |-> [deposit |-> execs[i].amount,
                                              status |-> execs[i].status]]
<1>1. Init => Queue!Init
  <2> SUFFICES ASSUME Init PROVE Queue!Init
    OBVIOUS
  <2>1. FundsInv /\ execs = <<>> /\ Len(execs) = 0
    BY FundsInit DEF Init
  <2>2. items = <<>>
    BY <2>1
  <2>3. Escrow = 0
    <3>1. PendingItems = {}
      BY <2>1 DEF PendingItems
    <3> QED BY <2>1, <3>1, OwedNone DEF FundsInv
  <2> QED BY <2>2, <2>3 DEF Queue!Init
<1>2. FundsInv /\ [Next]_vars => [Queue!Next]_Queue!vars
  <2> SUFFICES ASSUME FundsInv, [Next]_vars PROVE [Queue!Next]_Queue!vars
    OBVIOUS
  <2>0. TypeInv /\ TypeOK /\ PricedOK /\ SettledInOrder
    BY DEF FundsInv, QueueInv, ScheduleInv, TypeInv
  <2>1. Still \/ Deposited \/ Released
    BY <2>0, MoneySteps DEF FundsInv
  <2>2. Len(execs) \in Nat /\ Len(items) = Len(execs)
    BY <2>0, BookFields
  <2>3. CASE Still
    BY <2>3 DEF Still, Queue!vars
  <2>4. CASE Deposited
    <3>1. PICK t \in Traders, kind \in Kinds, target \in Target,
               a \in 0..Max(Amounts \cup {0}) :
            Enqueue(t, kind, target, a) /\ Escrow' = Escrow + a
      BY <2>4 DEF Deposited
    <3>2. a \in Nat
      BY DepositBound
    <3>3. /\ Len(execs') = Len(execs) + 1
          /\ \A i \in 1..Len(execs) : execs'[i] = execs[i]
          /\ execs'[Len(execs) + 1].amount = a
          /\ execs'[Len(execs) + 1].status = "pending"
      BY <2>0, <3>1, <3>2, ItemQueued
    <3>4. items' = Append(items, [deposit |-> a, status |-> "pending"])
      BY <2>2, <3>3
    <3> QED BY <3>1, <3>4 DEF Queue!Next, Queue!Submit
  <2>5. CASE Released
    <3>1. PICK st \in {"success", "failure"} : execs' = SettledAs(st)
      BY <2>5 DEF Released
    <3>2. /\ processed \in PendingItems
          /\ SameItems
          /\ \A i \in 1..Len(execs) : i # processed => execs'[i] = execs[i]
          /\ execs'[processed].status = st
      BY <2>0, <2>5, <3>1, ItemSettled DEF Released
    <3>3. processed \in 1..Len(execs) /\ phase \in {"perform", "reply"}
      BY <2>5, <3>2 DEF PendingItems, Released
    <3>4. items' = [items EXCEPT ![processed].status = st]
      <4>1. Len(execs') = Len(execs)
        BY <3>2 DEF SameItems
      <4>2. ASSUME NEW i \in 1..Len(execs)
            PROVE  items'[i] = [items EXCEPT ![processed].status = st][i]
        BY <3>2, <3>3, <4>1 DEF SameItems
      <4> QED BY <4>1, <4>2
    <3>5. Queue!Pending = PendingItems
      BY <2>2 DEF Queue!Pending, PendingItems
    <3>6. \A j \in PendingItems : processed =< j
      BY <2>0, <3>3 DEF SettledInOrder, PendingItems, InFlight, TypeOK
    <3>7. Escrow' = Escrow - items[processed].deposit
      BY <2>5, <3>3 DEF Released, Cur
    <3> QED BY <3>1, <3>2, <3>4, <3>5, <3>6, <3>7 DEF Queue!Next, Queue!Settle
  <2> QED BY <2>1, <2>3, <2>4, <2>5
<1> QED BY <1>1, <1>2, FundsInvariant, PTL DEF Spec, Queue!Spec, ImplementsQueue
==============================================================================

--------------------------- MODULE CopyTradingValue ---------------------------
(***************************************************************************)
(* How the copy trading contract values its shares.  It adds up the active *)
(* collateral of its open positions and limit orders in all markets, page  *)
(* by page, then counts them once more to validate that nothing changed,   *)
(* and only then stores the value.  A call may only make so many queries:  *)
(* MARKET_WORK_INFO keeps how far every market is, CURRENT_BATCH_WORK what *)
(* the next DoWork goes on with, while the markets keep moving.            *)
(*                                                                         *)
(* The call is split into its queries: `run' is its local state, and       *)
(* nobody else acts while it is set, as calls are transactions.            *)
(***************************************************************************)
EXTENDS Integers, Sequences, FiniteSets, FiniteSetsExt

CONSTANTS
  NumMarkets,       \* markets using the token, in the order of their ids
  MaxId,            \* positions and orders of a market: ids 1..MaxId
  TokenPage,        \* position ids per query
  OrderPage,        \* orders per query
  AllowedQueries,   \* config.allowed_lp_token_queries
  MaxChanges,       \* bound: changes in the markets
  MaxRequests       \* bound: requests that need a value

Markets == 1..NumMarkets
Ids == 1..MaxId

ConstantsOK ==
  /\ NumMarkets \in Nat \ {0} /\ MaxId \in Nat
  /\ TokenPage \in Nat \ {0} /\ OrderPage \in Nat \ {0} /\ AllowedQueries \in Nat
  /\ MaxChanges \in Nat /\ MaxRequests \in Nat

VARIABLES
  positions, orders, \* of the contract, per market (external)
  work,              \* MARKET_WORK_INFO
  batch,             \* CURRENT_BATCH_WORK
  value,             \* collateral in LP_TOKEN_VALUE, or -1 while outdated
  run,               \* the call in progress
  requests, changes, \* counters for the bounds
  quiet,             \* history: no change since the computation started
  began              \* history: the market the last call validated from

vars == <<positions, orders, work, batch, value, run, requests, changes, quiet,
          began>>

\* `after' and `seen' are the cursor and the count of the status.
Fresh == [status |-> "NotStarted", after |-> 0, seen |-> 0, active |-> 0,
          positions |-> 0, orders |-> 0]
Batched == {"ProcessOpenPositions", "ValidateOpenPositions", "ValidateLimitOrder"}
Validating == {"ValidateOpenPositions", "ValidateLimitOrder"}

NoWork == [process |-> 0, validate |-> 0]
Idle == [phase |-> "idle", market |-> 0, from |-> 0, queries |-> 0, sum |-> 0]
Running == run # Idle

Outdated == -1

NextOnes(S, after, n) ==
  LET later == {x \in S : x > after} IN
  {x \in later : Cardinality({y \in later : y < x}) < n}

------------------------------------------------------------------------------
Init ==
  /\ positions \in [Markets -> SUBSET Ids]
  /\ orders \in [Markets -> SUBSET Ids]
  /\ work = [m \in Markets |-> Fresh]
  /\ batch = NoWork /\ value = Outdated /\ run = Idle
  /\ requests = 1 /\ changes = 0 /\ quiet = TRUE /\ began = 1

(* The markets between two calls.                                          *)

Changed ==
  /\ ~Running /\ changes < MaxChanges
  /\ changes' = changes + 1
  /\ quiet' = FALSE
  /\ UNCHANGED <<work, batch, value, run, requests, began>>

ClosePosition(m, id) ==
  /\ id \in positions[m]
  /\ positions' = [positions EXCEPT ![m] = @ \ {id}]
  /\ Changed /\ UNCHANGED orders

FillOrder(m, id) ==
  /\ id \in orders[m] /\ id \notin positions[m]
  /\ orders' = [orders EXCEPT ![m] = @ \ {id}]
  /\ positions' = [positions EXCEPT ![m] = @ \cup {id}]
  /\ Changed

\* The value was used; another request needs one of its own.
NextRequest ==
  /\ ~Running /\ value # Outdated /\ requests < MaxRequests
  /\ requests' = requests + 1
  /\ value' = Outdated
  /\ UNCHANGED <<positions, orders, work, batch, run, changes, quiet, began>>

------------------------------------------------------------------------------
(* get_work for a request without a value, nothing being awaited.          *)

NeedsWork == ~Running /\ value = Outdated

\* The markets are looked at in order, up to one that requires a reset; a
\* batch status before that is a failed assertion.
ResetFirst ==
  \E m \in Markets :
    /\ work[m].status = "ResetRequired"
    /\ \A k \in 1..m : work[k].status \notin Batched

\* check_balance_work looks for one that is not fresh the same way.
StaleFirst ==
  \E m \in Markets :
    /\ work[m].status # "NotStarted"
    /\ \A k \in 1..m : work[k].status \notin Batched

\* Mutant: only the statuses start anew.
ResetStatsKeepsCounts ==
  /\ NeedsWork /\ batch = NoWork
  /\ \/ ResetFirst
     \/ /\ \A m \in Markets : work[m].status \notin Batched \cup {"ResetRequired"}
        /\ StaleFirst
  /\ work' = [m \in Markets |-> [work[m] EXCEPT !.status = "NotStarted", !.after = 0]]
  /\ UNCHANGED <<positions, orders, batch, value, run, requests, changes, quiet, began>>

ResetStats ==
  /\ NeedsWork /\ batch = NoWork
  /\ \/ ResetFirst
     \/ /\ \A m \in Markets : work[m].status \notin Batched \cup {"ResetRequired"}
        /\ StaleFirst
  /\ work' = [m \in Markets |-> Fresh]
  /\ UNCHANGED <<positions, orders, batch, value, run, requests, changes, quiet, began>>

\* Mutant: goes on with the market after the one it stopped at.
FirstAfter(m) == m + 1

First(m) == IF m = 0 THEN 1 ELSE m

\* compute_lp_token_value, from the start or from where the batch left off.
ComputeStart ==
  /\ NeedsWork
  /\ batch = NoWork => \A m \in Markets : work[m].status = "NotStarted"
  /\ run' = [Idle EXCEPT !.phase = "positions", !.market = First(batch.process),
                         !.from = First(batch.validate)]
  /\ quiet' = IF batch = NoWork THEN TRUE ELSE quiet
  /\ began' = First(batch.validate)
  /\ UNCHANGED <<positions, orders, work, batch, value, requests, changes>>

------------------------------------------------------------------------------
(* process_single_market                                                   *)

TooMany(r) == r.queries > AllowedQueries

StopAt(b) == batch' = b /\ run' = Idle

\* One pair of queries for positions; a last query finds no more of them.
ProcessPositions ==
  LET m == run.market  w == work[m]
      page == NextOnes(positions[m], w.after, TokenPage)
      r == [run EXCEPT !.queries = @ + IF page = {} THEN 1 ELSE 2]
  IN
  /\ run.phase = "positions"
  /\ w.status \in {"NotStarted", "ProcessOpenPositions"}
  /\ work' = [work EXCEPT ![m] =
       [w EXCEPT !.status = "ProcessOpenPositions",
                 !.after = IF page = {} THEN @ ELSE Max(page),
                 !.active = @ + Cardinality(page),
                 !.positions = @ + Cardinality(page)]]
  /\ IF TooMany(r) THEN StopAt([process |-> m, validate |-> 0])
     ELSE /\ run' = [r EXCEPT !.phase = IF page = {} THEN "orders" ELSE "positions"]
          /\ UNCHANGED batch
  /\ UNCHANGED <<positions, orders, value, requests, changes, quiet, began>>

ProcessNoPositions ==
  /\ run.phase = "positions"
  /\ work[run.market].status \notin {"NotStarted", "ProcessOpenPositions"}
  /\ IF TooMany(run) THEN StopAt([process |-> run.market, validate |-> 0])
     ELSE run' = [run EXCEPT !.phase = "orders"] /\ UNCHANGED batch
  /\ UNCHANGED <<positions, orders, work, value, requests, changes, quiet, began>>

\* Mutant: the orders of a market are not added.
CountedWithoutOrders(w, m) ==
  [w EXCEPT !.status = "ValidateOpenPositions", !.after = 0, !.seen = 0,
            !.orders = @ + Cardinality(orders[m])]

\* The queries for orders are not counted here.
Counted(w, m) ==
  [w EXCEPT !.status = "ValidateOpenPositions", !.after = 0, !.seen = 0,
            !.active = @ + Cardinality(orders[m]),
            !.orders = @ + Cardinality(orders[m])]

ProcessOrders ==
  LET m == run.market IN
  /\ run.phase = "orders"
  /\ work' = IF work[m].status \in Validating THEN work
             ELSE [work EXCEPT ![m] = Counted(work[m], m)]
  /\ batch' = NoWork
  /\ run' = IF m < NumMarkets
              THEN [run EXCEPT !.market = m + 1, !.phase = "positions"]
              ELSE [run EXCEPT !.market = run.from, !.phase = "validate"]
  /\ UNCHANGED <<positions, orders, value, requests, changes, quiet, began>>

------------------------------------------------------------------------------
(* validate_single_market                                                  *)

\* Mutant: the market is not marked.
ValidationFailedUnmarked(m) == UNCHANGED work /\ StopAt(NoWork)

ValidationFailed(m) ==
  /\ work' = [work EXCEPT ![m].status = "ResetRequired"]
  /\ StopAt(NoWork)

ValidatePositions ==
  LET m == run.market  w == work[m]
      page == NextOnes(positions[m], w.after, TokenPage)
      seen == w.seen + Cardinality(page)
      r == [run EXCEPT !.queries = @ + IF page = {} THEN 1 ELSE 2]
      w2 == [w EXCEPT !.after = IF page = {} THEN @ ELSE Max(page), !.seen = seen]
  IN
  /\ run.phase = "validate" /\ w.status = "ValidateOpenPositions"
  /\ IF page = {} /\ seen # w.positions THEN ValidationFailed(m)
     ELSE IF TooMany(r)
       THEN work' = [work EXCEPT ![m] = w2] /\ StopAt([process |-> 0, validate |-> m])
     ELSE /\ run' = r /\ UNCHANGED batch
          /\ work' = [work EXCEPT ![m] =
               IF page # {} THEN w2
               ELSE [w EXCEPT !.status = "ValidateLimitOrder", !.after = 0, !.seen = 0]]
  /\ UNCHANGED <<positions, orders, value, requests, changes, quiet, began>>

\* The next market, or the value: the free collateral and what was added up.
Validated(r) ==
  IF r.market < NumMarkets
    THEN run' = [r EXCEPT !.market = @ + 1] /\ UNCHANGED value
    ELSE run' = Idle /\ value' = r.sum

SameOrders(w, seen) == seen = w.orders

ValidateOrders ==
  LET m == run.market  w == work[m]
      page == NextOnes(orders[m], w.after, OrderPage)
      seen == w.seen + Cardinality(page)
      last == page = {} \/ {x \in orders[m] : x > Max(page)} = {}
      r == [run EXCEPT !.queries = @ + 1]
  IN
  /\ run.phase = "validate" /\ w.status = "ValidateLimitOrder"
  /\ IF ~last
       THEN /\ work' = [work EXCEPT ![m] = [w EXCEPT !.after = Max(page), !.seen = seen]]
            /\ IF TooMany(r) THEN StopAt([process |-> 0, validate |-> m])
               ELSE run' = r /\ UNCHANGED batch
            /\ UNCHANGED value
     ELSE IF ~SameOrders(w, seen) THEN ValidationFailed(m) /\ UNCHANGED value
     ELSE /\ work' = [work EXCEPT ![m] = [w EXCEPT !.status = "Validated"]]
          /\ batch' = NoWork
          /\ Validated([r EXCEPT !.sum = @ + w.active])
  /\ UNCHANGED <<positions, orders, requests, changes, quiet, began>>

Compute ==
  \/ ComputeStart \/ ProcessPositions \/ ProcessNoPositions \/ ProcessOrders
  \/ ValidatePositions \/ ValidateOrders

Next ==
  \/ \E m \in Markets, id \in Ids : ClosePosition(m, id) \/ FillOrder(m, id)
  \/ NextRequest
  \/ ResetStats
  \/ Compute

\* Bots call DoWork while there is work, and a call runs to its end.
Fairness == WF_vars(ResetStats \/ Compute)

Spec == Init /\ [][Next]_vars /\ Fairness

------------------------------------------------------------------------------
(* Properties.                                                             *)

Info == [status : Batched \cup {"NotStarted", "ResetRequired", "Validated"},
         after : 0..MaxId, seen : Nat, active : Nat, positions : Nat, orders : Nat]

\* The stored state has its type.
TypeOK ==
  /\ positions \in [Markets -> SUBSET Ids] /\ orders \in [Markets -> SUBSET Ids]
  /\ work \in [Markets -> Info]
  /\ batch \in [process : 0..NumMarkets, validate : 0..NumMarkets]
  /\ value \in Nat \cup {Outdated}
  /\ run.market \in 0..NumMarkets /\ run.sum \in Nat /\ began \in Markets

Held(m) == Cardinality(positions[m]) + Cardinality(orders[m])

HeldFrom(m) == FoldSet(LAMBDA k, acc : acc + Held(k), 0, m..NumMarkets)

\* A value stored while the markets stood still counts every position and order
\* of every market exactly once (execute.rs:991).  It does not, over several
\* markets in several calls: the sum starts anew in every call, and a validation
\* that is resumed at a later market (execute.rs:1033) leaves the earlier ones out.
CountsEverything == value # Outdated /\ quiet => value = HeldFrom(1)

\* What holds however the computation is cut into calls: the value counts every
\* position and order of every market exactly once from the one the last call
\* validated from, which is the first one unless a validation was resumed later.
CountsFromWhereItBegan == value # Outdated /\ quiet => value = HeldFrom(began)

\* get_work asserts that "the status cannot be a batch operation" once no
\* batch work is left (work.rs:318): a computation that ended, well or not,
\* leaves no market half done.  One whose validation is resumed at a later market
\* does: process_single_market counts the orders of a validated market again and
\* puts it back to be validated (execute.rs:1274), which nobody does any more, and
\* the next request that needs a value meets the assertion.
NothingHalfDone ==
  ~Running /\ batch = NoWork /\ (value # Outdated \/ ~ResetFirst)
    => \A m \in Markets : work[m].status \notin Batched

\* What holds: only a computation resumed at a later market leaves one half done,
\* and none from there on if it ended well.
HalfDoneByResumption ==
  /\ began = 1 => NothingHalfDone
  /\ value # Outdated => \A m \in began..NumMarkets : work[m].status \notin Batched

\* A request that needs a value gets one: validation that fails because the
\* markets moved is started over, and every batch makes progress.  Unless one was
\* resumed at a later market, after which the assertion may stop the contract.
ValueComputed == \A n \in 1..MaxRequests : requests = n ~> value # Outdated \/ began > 1

==============================================================================

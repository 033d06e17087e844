------------------------- MODULE CopyTradingRebalance -------------------------
(***************************************************************************)
(* How the copy trading contract finds out where unbooked tokens come      *)
(* from.  When it holds more than its books say, rebalance walks over the  *)
(* closed positions of its markets, from a cursor per market, books what   *)
(* each one paid and the leader's commission on new profit, and takes what *)
(* is left for a gift.  A call may only make so many queries; it stores    *)
(* where to go on as CURRENT_BATCH_WORK and the next DoWork continues.     *)
(*                                                                         *)
(* The call is split into its queries: `run' is its local state, and       *)
(* nobody else acts while it is set, as calls are transactions.            *)
(***************************************************************************)
EXTENDS Integers, Sequences, FiniteSets, FiniteSetsExt, SequencesExt

CONSTANTS
  NumMarkets,       \* markets using the token, in the order of their ids
  NumPositions,     \* positions the leader has in every market
  Stake,            \* collateral of each
  Returns,          \* what they may pay when they close
  Gifts,            \* amounts somebody sends to the contract
  One, Rate,        \* the decimal 1, config.commission_rate
  PageSize,         \* closed positions per query (15)
  AllowedQueries,   \* config.allowed_rebalance_queries
  MaxTime, MaxGifts \* bounds: block time, number of gifts

Markets == 1..NumMarkets
Positions == 1..NumPositions

ConstantsOK ==
  /\ NumMarkets \in Nat \ {0} /\ NumPositions \in Nat
  /\ Stake \in Nat /\ Returns \subseteq Nat
  /\ Gifts \subseteq Nat \ {0} /\ One \in Nat \ {0} /\ Rate \in 0..One
  /\ PageSize \in Nat \ {0} /\ AllowedQueries \in Nat \ {0}
  /\ MaxTime \in Nat /\ MaxGifts \in Nat

VARIABLES
  now,              \* block time
  history,          \* CLOSED_POSITION_HISTORY of the contract, per market
  cursor,           \* LAST_CLOSED_POSITION_CURSOR
  hwm,              \* HIGH_WATER_MARK
  unclaimed,        \* LEADER_COMMISSION.unclaimed
  collateral,       \* TOTALS.collateral
  balance,          \* tokens the contract holds
  batch,            \* CURRENT_BATCH_WORK
  run,              \* the call in progress
  gains, gifts,     \* history: booked as gifts, and really given
  astray            \* history: how the walk may have lost a position

vars == <<now, history, cursor, hwm, unclaimed, collateral, balance, batch, run,
          gains, gifts, astray>>
books == <<cursor, hwm, unclaimed, collateral>>

NoWork == [from |-> 0, amount |-> 0]
Idle == [market |-> 0, amount |-> 0, seen |-> 0, queries |-> 0, early |-> FALSE]

Running == run # Idle
Gap == balance - collateral - unclaimed

------------------------------------------------------------------------------
(* Closed positions are keyed by close time and position id.               *)

Key(time, id) == time * (NumPositions + 1) + id
KeyOf(e) == Key(e.time, e.id)
Pnl(e) == e.paid - Stake

\* Those after the cursor, in ascending order (closed_positions_history).
After(m) ==
  SetToSortSeq({e \in history[m] : KeyOf(e) > cursor[m]},
               LAMBDA a, b : KeyOf(a) < KeyOf(b))

Page(m) == SubSeq(After(m), 1, IF Len(After(m)) < PageSize THEN Len(After(m)) ELSE PageSize)
MorePages(m) == Len(After(m)) > PageSize

\* Mutant: every profit earns a commission, whether or not it makes up a loss.
AddPnlAlways(h, pnl) ==
  LET current == h.current + pnl IN
  IF pnl <= 0 THEN [hwm |-> [h EXCEPT !.current = current], commission |-> 0]
  ELSE [hwm |-> [current |-> current, mark |-> IF current > h.mark THEN current ELSE h.mark],
        commission |-> (pnl * Rate) \div One]

\* Mutant: the mark follows the losses, too.
AddPnlFollows(h, pnl) ==
  LET current == h.current + pnl IN
  [hwm |-> [current |-> current, mark |-> current],
   commission |-> IF current <= h.mark THEN 0 ELSE ((current - h.mark) * Rate) \div One]

\* HighWaterMark::add_pnl
AddPnl(h, pnl) ==
  LET current == h.current + pnl IN
  IF current <= h.mark
    THEN [hwm |-> [h EXCEPT !.current = current], commission |-> 0]
    ELSE [hwm |-> [current |-> current, mark |-> current],
          commission |-> ((current - h.mark) * Rate) \div One]

\* Mutant: the commission stays in the totals.
HandlePositionGross(acc, e) ==
  LET r == AddPnl(acc.hwm, Pnl(e)) IN
  [hwm |-> r.hwm,
   unclaimed |-> acc.unclaimed + r.commission,
   collateral |-> acc.collateral + e.paid,
   seen |-> acc.seen + e.paid]

\* Mutant: only positions with a profit are looked at.
HandlePositionProfit(acc, e) ==
  LET r == AddPnl(acc.hwm, Pnl(e)) IN
  IF Pnl(e) <= 0 THEN acc
  ELSE [hwm |-> r.hwm, unclaimed |-> acc.unclaimed + r.commission,
        collateral |-> acc.collateral + e.paid - r.commission,
        seen |-> acc.seen + e.paid]

\* handle_leader_commission and what rebalance adds for it
HandlePosition(acc, e) ==
  LET r == AddPnl(acc.hwm, Pnl(e)) IN
  [hwm |-> r.hwm,
   unclaimed |-> acc.unclaimed + r.commission,
   collateral |-> acc.collateral + e.paid - r.commission,
   seen |-> acc.seen + e.paid]

------------------------------------------------------------------------------
Init ==
  /\ now = 1
  /\ history = [m \in Markets |-> {}]
  /\ cursor = [m \in Markets |-> 0]
  /\ hwm = [current |-> 0, mark |-> 0]
  /\ unclaimed = 0 /\ collateral = 0 /\ balance = 0
  /\ batch = NoWork /\ run = Idle
  /\ gains = 0 /\ gifts = <<>> /\ astray = {}

Tick ==
  /\ ~Running /\ now < MaxTime
  /\ now' = now + 1
  /\ UNCHANGED <<history, books, balance, batch, run, gains, gifts, astray>>

\* A market closes a position: it pays the contract and adds to the history.
ClosePosition(m, id, paid) ==
  /\ ~Running
  /\ id \notin {e.id : e \in history[m]}
  /\ history' = [history EXCEPT ![m] = @ \cup {[time |-> now, id |-> id, paid |-> paid]}]
  /\ balance' = balance + paid
  /\ astray' = IF Key(now, id) < cursor[m] THEN astray \cup {"passed by"} ELSE astray
  /\ UNCHANGED <<now, books, batch, run, gains, gifts>>

Donate(y) ==
  /\ ~Running /\ Len(gifts) < MaxGifts
  /\ balance' = balance + y
  /\ gifts' = Append(gifts, y)
  /\ UNCHANGED <<now, history, books, batch, run, gains, astray>>

\* get_work: unfinished batch work comes first, then a gap to rebalance.
RebalanceStart ==
  /\ ~Running
  /\ \/ /\ batch # NoWork
        /\ run' = [Idle EXCEPT !.market = batch.from, !.amount = batch.amount]
     \/ /\ batch = NoWork /\ Gap > 0
        /\ run' = [Idle EXCEPT !.market = 1, !.amount = Gap]
  /\ UNCHANGED <<now, history, books, balance, batch, gains, gifts, astray>>

\* What the loops do after a query: the next page, the next market, or the end.
Balanced(r) == r.seen = r.amount
EarlyExit(r) == ~Balanced(r) /\ MorePages(r.market) /\ r.queries >= AllowedQueries
SamePage(r) == ~Balanced(r) /\ MorePages(r.market) /\ r.queries < AllowedQueries
TooMany(r) == r.queries > AllowedQueries
LastMarket(r) == r.market = NumMarkets \/ Balanced(r) \/ TooMany(r)
\* The allowance is used up to the last query: the walk leaves the pages of this
\* market unread, and still goes on to the next one, which is stored.
Skips(r) == EarlyExit(r) /\ ~LastMarket(r)
\* More was found than was looked for.
FoundMore(r) == r.seen >= r.amount /\ r.seen # 0

\* Mutant: the whole amount is stored again, not what is left of it.
FinishWithAll(r, early) ==
  LET gain == IF r.seen < r.amount /\ ~early THEN r.amount - r.seen ELSE 0 IN
  /\ gains' = gains + gain
  /\ batch' = IF early THEN [from |-> r.market, amount |-> r.amount] ELSE NoWork
  /\ run' = Idle /\ UNCHANGED astray

\* After the loops: money nobody accounts for, and where to go on.
\* CURRENT_BATCH_WORK stays as it is when there is nothing left to find.
Finish(r, early) ==
  LET gain == IF r.seen < r.amount /\ ~early THEN r.amount - r.seen ELSE 0 IN
  /\ gains' = gains + gain
  /\ batch' = IF ~early THEN NoWork
              ELSE IF FoundMore(r) THEN batch
              ELSE [from |-> r.market, amount |-> r.amount - r.seen]
  /\ run' = Idle
  /\ astray' = IF early /\ FoundMore(r) /\ batch # NoWork
               THEN astray \cup {"old work kept"} ELSE astray

NewCursor(m) == IF Page(m) = <<>> THEN cursor[m] ELSE KeyOf(Last(Page(m)))

RebalanceQuery ==
  /\ Running
  /\ LET m == run.market
         acc == FoldLeft(HandlePosition,
                         [hwm |-> hwm, unclaimed |-> unclaimed,
                          collateral |-> collateral, seen |-> run.seen], Page(m))
         r == [run EXCEPT !.seen = acc.seen, !.queries = @ + 1]
         early == run.early \/ EarlyExit(r) \/ (~Balanced(r) /\ ~SamePage(r) /\ TooMany(r))
         ends == ~SamePage(r) /\ LastMarket(r)
     IN
       /\ cursor' = [cursor EXCEPT ![m] = NewCursor(m)]
       /\ hwm' = acc.hwm /\ unclaimed' = acc.unclaimed
       /\ IF ends
            THEN /\ Finish(r, early)
                 /\ collateral' = acc.collateral + (gains' - gains)
            ELSE /\ run' = [r EXCEPT !.early = early,
                                     !.market = IF SamePage(r) THEN m ELSE m + 1]
                 /\ collateral' = acc.collateral
                 /\ astray' = IF Skips(r) THEN astray \cup {"market skipped"} ELSE astray
                 /\ UNCHANGED <<batch, gains>>
  /\ UNCHANGED <<now, history, balance, gifts>>

Next ==
  \/ Tick
  \/ \E m \in Markets, id \in Positions, x \in Returns : ClosePosition(m, id, x)
  \/ \E y \in Gifts : Donate(y)
  \/ RebalanceStart
  \/ RebalanceQuery

Spec == Init /\ [][Next]_vars

------------------------------------------------------------------------------
(* Properties.                                                             *)

Closed == [time : Nat, id : Positions, paid : Returns]

\* The stored state has its type.
TypeOK ==
  /\ now \in Nat
  /\ \A m \in Markets : history[m] \subseteq Closed
  /\ cursor \in [Markets -> Nat]
  /\ hwm \in [current : Int, mark : Nat]
  /\ unclaimed \in Nat /\ collateral \in Nat /\ balance \in Nat
  /\ batch \in [from : 0..NumMarkets, amount : Nat]
  /\ run.market \in 0..NumMarkets /\ run.seen \in Nat
  /\ gains \in Nat

\* Every closed position is booked at most once, however the walk over markets
\* and pages is cut into calls and whatever closes in between: what the books
\* hold beyond gains is what the positions up to the cursors paid, but for those
\* that closed behind a cursor.
PaidUpToCursor(m) ==
  MapThenSumSet(LAMBDA e : e.paid, {e \in history[m] : KeyOf(e) <= cursor[m]})

BookedOnce ==
  LET booked == collateral + unclaimed - gains
      paid   == MapThenSumSet(PaidUpToCursor, Markets)
  IN booked <= paid /\ ("passed by" \notin astray => booked = paid)

\* The contract never books more than it holds: check_balance_work would fail
\* for good (work.rs:950).
NeverOverbooked == ~Running => collateral + unclaimed <= balance

\* rebalance says of what is left that "the money was sent by someone directly
\* to the contract" (execute.rs:749): collateral of closed positions, on which
\* the leader earns a commission, is never taken for a gift.
OnlyGiftsAreGains == ~Running => gains <= FoldLeft(LAMBDA a, y : a + y, 0, gifts)

\* Both hold of a walk over any number of markets, pages and calls, unless the
\* allowance was used up to the query and the walk left a market half read
\* (execute.rs:746), or a call that goes on with stored work found more than the
\* stored amount and left that work in place (:768).  The second does not hold
\* either when a position closed in the block of a rebalance with an id below the
\* cursor's (:698): no walk finds it, and what it paid is taken for a gift.
BooksBacked == astray \subseteq {"passed by"} => NeverOverbooked
GainsAreGifts == astray = {} => OnlyGiftsAreGains

\* The leader earns on new profit only: all commissions together stay within
\* the rate's share of the highest total the positions booked so far reached.
CommissionOfPeak ==
  /\ unclaimed * One <= Rate * hwm.mark
  /\ hwm.current <= hwm.mark

==============================================================================

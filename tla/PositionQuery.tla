---------------------------- MODULE PositionQuery ----------------------------
(***************************************************************************)
(* What the Positions query says of an open position, against what the     *)
(* market does with it.  The query does not settle the position: it        *)
(* estimates the fees since the last liquifunding, the delta neutrality    *)
(* fee of a close and the exposure to the current price, and answers with  *)
(* an open position or with one that is pending a close.                   *)
(*                                                                         *)
(* Collateral is the quote asset.  Rates and margins are parts of the      *)
(* notional, rounded down; the market has what it owes in funding.         *)
(***************************************************************************)
EXTENDS Integers

CONSTANTS
  Prices,                        \* prices of price points
  Sizes, Deposits, Counters,     \* of positions that are opened; short sizes are negative
  Borrowed, Funded,              \* fees of a period; negative funding is received
  Rates,                         \* delta neutrality fee rates of a close, in halves of the cap
  BorrowPart, FundingPart, CapPart, ExposurePart, CrankFee,  \* config
  MaxPeriods, MaxKept            \* bounds: periods without a liquifunding, liquifundings of a position

ConstantsOK ==
  /\ Prices \subseteq Nat \ {0} /\ Sizes \subseteq Int \ {0}
  /\ Deposits \subseteq Nat \ {0} /\ Counters \subseteq Nat \ {0}
  /\ Borrowed \subseteq Nat /\ Funded \subseteq Int /\ Rates \subseteq -2..2
  /\ {BorrowPart, FundingPart, CapPart, ExposurePart, CrankFee, MaxPeriods, MaxKept} \subseteq Nat \ {0}

VARIABLES
  price,   \* the current price point
  rate,    \* what the net open interest makes of the fee of a close
  pos,     \* the position as it was stored
  owed,    \* borrow fee and funding since then
  periods, \* how long that is
  kept,    \* how often it was liquifunded
  closed   \* the position as it was closed

vars == <<price, rate, pos, owed, periods, kept, closed>>

None == [size |-> 0]
Nothing == [borrow |-> 0, funding |-> 0]
Abs(x) == IF x < 0 THEN -x ELSE x
Least(a, b) == IF a < b THEN a ELSE b
Most(a, b) == IF a > b THEN a ELSE b
\* Division towards zero.
Quot(a, b) == IF a < 0 THEN -((-a) \div b) ELSE a \div b

Init ==
  /\ price \in Prices /\ rate \in Rates
  /\ pos = None /\ owed = Nothing /\ periods = 0 /\ kept = 0 /\ closed = None

----------------------------------------------------------------------------
\* liquidation_margin: funding and the fee of a close are for the highest
\* price the position can reach.
MarginOf(q) ==
  LET most == Abs(q.size) * price + (IF q.size > 0 THEN q.counter ELSE q.active)
  IN [borrow |-> (q.active + q.counter) \div BorrowPart, funding |-> most \div FundingPart,
      dnf |-> most \div CapPart, crank |-> CrankFee, exposure |-> (Abs(q.size) * price) \div ExposurePart]
Total(m) == m.borrow + m.funding + m.dnf + m.crank + m.exposure

\* calc_capped_borrow_fee_payment, calc_capped_funding_payment
Fees == Least(owed.borrow, pos.margin.borrow) + Least(owed.funding, pos.margin.funding)

\* calc_delta_neutrality_fee of giving the size back.
DnfOnClose(margin) == Least(Quot(rate * Abs(pos.size) * price, 2 * CapPart), margin.dnf)

\* get_price_exposure
Exposure == (price - pos.at) * pos.size

\* Mutant: a position is kept as long as the close can be paid.
SettleLate(crank) ==
  LET paid == [pos EXCEPT !.active = @ - Fees - Least(crank, pos.margin.crank)]
      low == pos.margin.dnf - paid.active
      moved == [paid EXCEPT !.active = @ + Exposure, !.counter = @ - Exposure, !.at = price]
  IN IF Exposure <= low
     THEN [reason |-> "liquidated", pos |-> paid, capped |-> low, extra |-> low - Exposure]
     ELSE IF Exposure >= pos.counter
     THEN [reason |-> "max gains", pos |-> paid, capped |-> pos.counter, extra |-> 0]
     ELSE [reason |-> "open", pos |-> [moved EXCEPT !.margin = MarginOf(moved)], capped |-> 0, extra |-> 0]

\* PositionLiquifund: fees, then exposure, then the margin of the next period.
Settle(crank) ==
  LET paid == [pos EXCEPT !.active = @ - Fees - Least(crank, pos.margin.crank)]
      low == pos.margin.dnf - paid.active
      moved == [paid EXCEPT !.active = @ + Exposure, !.counter = @ - Exposure, !.at = price]
  IN IF Exposure <= low
     THEN [reason |-> "liquidated", pos |-> paid, capped |-> low, extra |-> low - Exposure]
     ELSE IF Exposure >= pos.counter
     THEN [reason |-> "max gains", pos |-> paid, capped |-> pos.counter, extra |-> 0]
     ELSE IF moved.active <= Total(MarginOf(moved))
     THEN [reason |-> "liquidated", pos |-> moved, capped |-> 0, extra |-> 0]
     ELSE [reason |-> "open", pos |-> [moved EXCEPT !.margin = MarginOf(moved)], capped |-> 0, extra |-> 0]

\* Mutant: losses beyond the margin are not the trader's.
ClosedCapped(s) ==
  [size |-> pos.size, active |-> s.pos.active - DnfOnClose(s.pos.margin) + s.capped, reason |-> s.reason]

\* ClosePositionExec: the fee of the close, then what the losses leave.
Closed(s) ==
  LET active == s.pos.active - DnfOnClose(s.pos.margin)
  IN [size |-> pos.size, active |-> active + Most(s.capped - s.extra, -active), reason |-> s.reason]

----------------------------------------------------------------------------
(* The query.                                                              *)

\* pos_snapshot_for_open: the fees until now, by the approach asked for.
EstimatedActive(fees) ==
  pos.active - (IF fees = "none" THEN 0 ELSE Fees) - (IF fees = "all" THEN DnfOnClose(pos.margin) ELSE 0)

\* Mutant: every exposure is held against the counter collateral.
AnswerCounter(fees) ==
  LET active == EstimatedActive(fees) IN
  [open |-> Abs(Exposure) < pos.counter, active |-> active + Exposure]

\* into_query_response_extrapolate_exposure
Answer(fees) ==
  LET active == EstimatedActive(fees) IN
  IF Exposure > 0
     THEN [open |-> Exposure < pos.counter, active |-> active + Exposure]
     ELSE [open |-> active + Exposure > 0, active |-> Most(active + Exposure, 0)]

----------------------------------------------------------------------------
NewPrice(p) == p # price /\ price' = p /\ UNCHANGED <<rate, pos, owed, periods, kept, closed>>

OthersTrade(r) == r # rate /\ rate' = r /\ UNCHANGED <<price, pos, owed, periods, kept, closed>>

Period(b, f) ==
  /\ pos # None /\ periods < MaxPeriods /\ periods' = periods + 1
  /\ owed' = [borrow |-> owed.borrow + b, funding |-> owed.funding + f]
  /\ UNCHANGED <<price, rate, pos, kept, closed>>

Stored(q) ==
  /\ pos' = q /\ owed' = Nothing /\ periods' = 0 /\ UNCHANGED <<price, rate>>

\* A position is saved when it covers its margin.
Open(size, active, counter) ==
  /\ pos = None
  /\ LET q == [size |-> size, active |-> active, counter |-> counter, at |-> price, margin |-> 0]
     IN /\ active >= Total(MarginOf(q)) /\ (size < 0 => counter < price * Abs(size))
        /\ Stored([q EXCEPT !.margin = MarginOf(q)])
  /\ closed' = None /\ kept' = 0

\* The crank, for a position that is due or whose price was reached.
Liquifund ==
  /\ pos # None /\ kept < MaxKept /\ kept' = kept + 1
  /\ LET s == Settle(CrankFee)
     IN IF s.reason = "open" THEN Stored(s.pos) /\ closed' = closed
        ELSE Stored(None) /\ closed' = Closed(s)

\* A close that a trader asked for.
Close == pos # None /\ closed' = Closed(Settle(0)) /\ Stored(None) /\ kept' = 0

Next ==
  \/ \E p \in Prices : NewPrice(p)
  \/ \E r \in Rates : OthersTrade(r)
  \/ \E b \in Borrowed, f \in Funded : Period(b, f)
  \/ \E size \in Sizes, active \in Deposits, counter \in Counters : Open(size, active, counter)
  \/ Liquifund
  \/ Close

Spec == Init /\ [][Next]_vars

----------------------------------------------------------------------------
\* However late the crank is: the estimated fees and the fee of a close leave
\* active collateral.  The query treats the opposite as an impossible
\* situation.
QueryPossible == pos # None => pos.active - Fees - DnfOnClose(pos.margin) > 0

\* A position the market would keep open at this price is not reported as
\* pending a close.
KeptIsOpen ==
  pos # None /\ Settle(0).reason = "open" => \A fees \in {"accumulated", "all"} : Answer(fees).open

\* With all fees the query says what a close right now pays, unless the gains
\* are beyond the counter collateral.
AllFeesIsPayoutStep ==
  Close /\ Exposure < pos.counter => closed'.active = Answer("all").active
AllFeesIsPayout == [][AllFeesIsPayoutStep]_vars

\* The same whatever the gains.
PendingIsPayout == [][Close => closed'.active = Answer("all").active]_vars

\* A position that is reported as open is one the market would keep open.
OpenIsKept == pos # None /\ Answer("all").open => Settle(0).reason = "open"
=============================================================================

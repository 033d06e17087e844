------------------------------ MODULE History ------------------------------
(***************************************************************************)
(* The histories a market keeps (state/history/trade.rs and lp.rs): the     *)
(* actions on each position, those of each trader and of each provider of    *)
(* liquidity, the summaries, and the pages in which they are read.  Reading  *)
(* a history takes several queries in different blocks, between which it     *)
(* grows; the export of the companion server (endpoints/export.rs) reads a    *)
(* wallet's two histories and merges them.                                    *)
(***************************************************************************)
EXTENDS Integers, Sequences, SequencesExt, FiniteSetsExt

CONSTANTS
  Wallets, Positions,
  Providers,  \* the wallets that provide liquidity
  Reader,     \* the wallet whose history is read
  Orders,     \* and in which orders, "asc" or "desc"
  Amounts,    \* collateral
  Prices,     \* dollars per unit of collateral
  Limit,      \* actions of a page
  MaxActions, \* bound on actions in the market
  MaxTime     \* bound on the clock

ConstantsOK ==
  /\ Reader \in Wallets /\ Providers \subseteq Wallets /\ Orders \subseteq {"asc", "desc"}
  /\ Limit \in Nat \ {0} /\ MaxActions \in Nat /\ MaxTime \in Nat

NoId == -1

VARIABLES
  now, price,
  priceAt,    \* the price of every past price point
  pos,        \* the positions: owner, active collateral, deposits
  byPos,      \* TRADE_HISTORY_BY_POSITION
  byAddr,     \* TRADE_HISTORY_BY_ADDRESS
  pnl,        \* TRADE_HISTORY_SUMMARY.realized_pnl, in dollars
  lp,         \* LP_HISTORY_BY_ADDRESS
  lpSummary,  \* LP_HISTORY_SUMMARY
  reader      \* someone reading Reader's histories page by page

vars == <<now, price, priceAt, pos, byPos, byAddr, pnl, lp, lpSummary, reader>>
market == <<now, price, priceAt, pos, byPos, byAddr, pnl, lp, lpSummary>>

Idle == [phase |-> "idle", order |-> "asc", start |-> NoId, got |-> << >>, lp |-> << >>, size |-> 0]

Unopened == [status |-> "none", owner |-> Reader, active |-> 0, deposit |-> 0, depositUsd |-> 0]

Init ==
  /\ now = 0 /\ price \in Prices /\ priceAt = <<price>>
  /\ pos = [p \in Positions |-> Unopened]
  /\ byPos = [p \in Positions |-> << >>] /\ byAddr = [w \in Wallets |-> << >>]
  /\ pnl = [w \in Wallets |-> 0]
  /\ lp = [w \in Wallets |-> << >>]
  /\ lpSummary = [w \in Wallets |-> [deposit |-> 0, yield |-> 0]]
  /\ reader = Idle

Written ==
  MapThenSumSet(LAMBDA p : Len(byPos[p]), Positions) + MapThenSumSet(LAMBDA w : Len(lp[w]), Wallets)

Tick(p) ==
  /\ now < MaxTime
  /\ now' = now + 1 /\ price' = p /\ priceAt' = Append(priceAt, p)
  /\ UNCHANGED <<pos, byPos, byAddr, pnl, lp, lpSummary, reader>>

----------------------------------------------------------------------------
(* Positions *)

\* A PositionAction; price_timestamp is missing for a transfer.
Action(p, kind, transfer) == [id |-> p, kind |-> kind, at |-> now, transfer |-> transfer]

\* push_to_monotonic_multilevel_map: the next number of this key.
Record(p, owner, action) ==
  /\ byPos' = [byPos EXCEPT ![p] = Append(@, action)]
  /\ byAddr' = [byAddr EXCEPT ![owner] = Append(@, action)]

OpenPosition(p, w, a) ==
  /\ pos[p].status = "none" /\ Written < MaxActions
  /\ pos' = [pos EXCEPT ![p] = [status |-> "open", owner |-> w, active |-> a,
                                deposit |-> a, depositUsd |-> a * price]]
  /\ Record(p, w, Action(p, "open", a))
  /\ UNCHANGED <<now, price, priceAt, pnl, lp, lpSummary, reader>>

\* Mutant: deposits are not corrected for what an update returns.
UpdatePositionDeposit(p, delta) ==
  /\ pos[p].status = "open" /\ Written < MaxActions /\ pos[p].active + delta > 0
  /\ pos' = [pos EXCEPT ![p].active = @ + delta,
                        ![p].deposit = IF delta > 0 THEN @ + delta ELSE @,
                        ![p].depositUsd = IF delta > 0 THEN @ + delta * price ELSE @]
  /\ Record(p, pos[p].owner, Action(p, "update", delta))
  /\ UNCHANGED <<now, price, priceAt, pnl, lp, lpSummary, reader>>

\* An update that adds or returns collateral, or neither.
UpdatePosition(p, delta) ==
  /\ pos[p].status = "open" /\ Written < MaxActions /\ pos[p].active + delta > 0
  /\ pos' = [pos EXCEPT ![p].active = @ + delta, ![p].deposit = @ + delta,
                        ![p].depositUsd = @ + delta * price]
  /\ Record(p, pos[p].owner, Action(p, "update", delta))
  /\ UNCHANGED <<now, price, priceAt, pnl, lp, lpSummary, reader>>

\* Fees and price movements change the active collateral without a record.
Settle(p, active) ==
  /\ pos[p].status = "open" /\ active # pos[p].active
  /\ pos' = [pos EXCEPT ![p].active = active]
  /\ UNCHANGED <<now, price, priceAt, byPos, byAddr, pnl, lp, lpSummary, reader>>

Negated(action) == [action EXCEPT !.transfer = -@]

\* Mutant: the sender's history is not told.
TransferPositionQuiet(p, to) ==
  /\ pos[p].status = "open" /\ Written < MaxActions
  /\ pos' = [pos EXCEPT ![p].owner = to]
  /\ Record(p, to, Action(p, "transfer", pos[p].active))
  /\ UNCHANGED <<now, price, priceAt, pnl, lp, lpSummary, reader>>

\* position_history_add_transfer: the new owner's record first, then the old
\* owner's with the opposite sign; they may be the same.
TransferPosition(p, to) ==
  LET action == Action(p, "transfer", pos[p].active)
  IN /\ pos[p].status = "open" /\ Written < MaxActions
     /\ pos' = [pos EXCEPT ![p].owner = to]
     /\ byPos' = [byPos EXCEPT ![p] = Append(@, action)]
     /\ byAddr' = [[byAddr EXCEPT ![to] = Append(@, action)]
                     EXCEPT ![pos[p].owner] = Append(@, Negated(action))]
     /\ UNCHANGED <<now, price, priceAt, pnl, lp, lpSummary, reader>>

\* position_history_add_close, and the profit of the last owner: what is
\* returned less all deposits, each in dollars of its own time.
ClosePosition(p) ==
  /\ pos[p].status = "open" /\ Written < MaxActions
  /\ pos' = [pos EXCEPT ![p].status = "closed"]
  /\ Record(p, pos[p].owner, Action(p, "close", pos[p].active))
  /\ pnl' = [pnl EXCEPT ![pos[p].owner] = @ + pos[p].active * price - pos[p].depositUsd]
  /\ UNCHANGED <<now, price, priceAt, lp, lpSummary, reader>>

----------------------------------------------------------------------------
(* Liquidity providers *)

LpAction(kind, amount) == [kind |-> kind, at |-> now, collateral |-> amount]

LpRecord(w, actions, deposit, yield) ==
  /\ Written < MaxActions
  /\ lp' = [lp EXCEPT ![w] = @ \o actions]
  /\ lpSummary' = [lpSummary EXCEPT ![w] = [deposit |-> @.deposit + deposit, yield |-> @.yield + yield]]
  /\ UNCHANGED <<now, price, priceAt, pos, byPos, byAddr, pnl, reader>>

\* liquidity_deposit, liquidity_claim_yield
Deposit(w, a) == LpRecord(w, <<LpAction("deposit", a)>>, a, 0)
ClaimYield(w, y) == LpRecord(w, <<LpAction("claim", y)>>, 0, y)

\* Mutant: the whole yield counts as claimed.
ReinvestYieldWhole(w, y, a) ==
  /\ a <= y
  /\ LpRecord(w, (IF y > a THEN <<LpAction("claim", y - a)>> ELSE << >>)
                   \o <<LpAction("reinvest", a)>>, 0, y)

\* reinvest_yield: the rest of the yield is sent, and recorded as claimed.
ReinvestYield(w, y, a) ==
  /\ a <= y
  /\ LpRecord(w, (IF y > a THEN <<LpAction("claim", y - a)>> ELSE << >>)
                   \o <<LpAction("reinvest", a)>>, 0, y - a)

\* Withdrawal, start of an unstaking, collection of unstaked LP.
OtherLpAction(w, kind, a) == LpRecord(w, <<LpAction(kind, a)>>, 0, 0)

----------------------------------------------------------------------------
(* Reading *)

\* Mutant: the start is included.
PageInclusive(history, order, start, limit) ==
  LET low == IF start = NoId THEN 0 ELSE start
      high == IF start = NoId THEN Len(history) ELSE start + 1
      ids == IF order = "asc" THEN [i \in 1..(Len(history) - low) |-> low + i - 1]
             ELSE [i \in 1..high |-> high - i]
      n == IF limit < Len(ids) THEN limit ELSE Len(ids)
  IN [actions |-> [i \in 1..n |-> history[ids[i] + 1]],
      next |-> IF n = Len(ids) THEN NoId ELSE ids[n]]

\* get_history_helper: up to limit actions after (or before) the start, and
\* where to continue, unless nothing is left.  Numbers are from 0.
Page(history, order, start, limit) ==
  LET ids == IF order = "asc" THEN [i \in 1..(Len(history) - start - 1) |-> start + i]
             ELSE LET from == IF start = NoId THEN Len(history) ELSE start
                  IN [i \in 1..from |-> from - i]
      n == IF limit < Len(ids) THEN limit ELSE Len(ids)
  IN [actions |-> [i \in 1..n |-> history[ids[i] + 1]],
      next |-> IF n = Len(ids) THEN NoId ELSE ids[n]]

\* The export reads ascending; other clients may read descending.
StartReading(order) ==
  /\ reader.phase = "idle"
  /\ reader' = [Idle EXCEPT !.phase = "actions", !.order = order, !.size = Len(byAddr[Reader])]
  /\ UNCHANGED market

\* query_position_actions, then query_lp_actions
ReadActions ==
  /\ reader.phase = "actions"
  /\ LET page == Page(byAddr[Reader], reader.order, reader.start, Limit)
     IN reader' = [reader EXCEPT !.got = @ \o page.actions, !.start = page.next,
                                 !.size = IF reader.start = NoId THEN Len(byAddr[Reader]) ELSE @,
                                 !.phase = IF page.next = NoId THEN "lp" ELSE @]
  /\ UNCHANGED market

ReadLpActions ==
  /\ reader.phase = "lp"
  /\ LET page == Page(lp[Reader], reader.order, reader.start, Limit)
     IN reader' = [reader EXCEPT !.lp = @ \o page.actions, !.start = page.next,
                                 !.phase = IF page.next = NoId THEN "done" ELSE @]
  /\ UNCHANGED market

ReadAgain == reader.phase = "done" /\ reader' = Idle /\ UNCHANGED market

\* Mutant: the histories one after the other.
ExportedApart(actions, lpActions) ==
  LET trades == SelectSeq(actions, LAMBDA a : a.transfer # 0)
      stakes == SelectSeq(lpActions, LAMBDA a : a.kind # "unstake")
  IN trades \o stakes

\* get_action_records: the merge of the two histories by time, those of
\* positions first, without actions that moved no collateral and without
\* unstakings.
Exported(actions, lpActions) ==
  LET trades == SelectSeq(actions, LAMBDA a : a.transfer # 0)
      stakes == SelectSeq(lpActions, LAMBDA a : a.kind # "unstake")
      merge[i \in 0..Len(trades), j \in 0..Len(stakes)] ==
        IF i = 0 THEN SubSeq(stakes, 1, j)
        ELSE IF j = 0 THEN SubSeq(trades, 1, i)
        ELSE IF stakes[j].at >= trades[i].at THEN Append(merge[i, j - 1], stakes[j])
        ELSE Append(merge[i - 1, j], trades[i])
  IN merge[Len(trades), Len(stakes)]

----------------------------------------------------------------------------
Next ==
  \/ \E p \in Prices : Tick(p)
  \/ \E p \in Positions :
       \/ \E w \in Wallets, a \in Amounts : OpenPosition(p, w, a)
       \/ \E d \in Amounts \cup {-a : a \in Amounts} \cup {0} : UpdatePosition(p, d)
       \/ \E a \in Amounts \cup {0} : Settle(p, a)
       \/ \E w \in Wallets : TransferPosition(p, w)
       \/ ClosePosition(p)
  \/ \E w \in Providers, a \in Amounts :
       \/ Deposit(w, a) \/ ClaimYield(w, a)
       \/ \E y \in Amounts : ReinvestYield(w, y, a)
       \/ \E kind \in {"withdraw", "unstake", "collect"} : OtherLpAction(w, kind, a)
  \/ \E o \in Orders : StartReading(o)
  \/ ReadActions \/ ReadLpActions \/ ReadAgain

Spec == Init /\ [][Next]_vars

----------------------------------------------------------------------------
\* Whatever is recorded between two pages, a reader in ascending order ends
\* with the whole history as it is at the last page, one in descending order
\* with the history as it was at the first page, each action once.
PagesExactStep ==
  reader.phase = "actions" /\ reader'.phase = "lp" =>
    reader'.got = IF reader.order = "asc" THEN byAddr[Reader]
                  ELSE Reverse(SubSeq(byAddr[Reader], 1, reader'.size))
PagesExact == [][PagesExactStep]_vars

\* The export lists actions in the order of time and leaves out none that
\* moved collateral.
ExportInOrder ==
  reader.phase = "done" /\ reader.order = "asc" =>
    LET all == Exported(reader.got, reader.lp)
    IN /\ \A i \in 1..(Len(all) - 1) : all[i].at <= all[i + 1].at
       /\ Len(all) = Len(SelectSeq(reader.got, LAMBDA a : a.transfer # 0))
                       + Len(SelectSeq(reader.lp, LAMBDA a : a.kind # "unstake"))

TransfersUsd(p) ==
  FoldLeft(LAMBDA sum, a :
             LET usd == a.transfer * priceAt[a.at + 1]
             IN CASE a.kind = "transfer" -> sum [] a.kind = "close" -> sum + usd [] OTHER -> sum - usd,
           0, byPos[p])

\* The profits of all traders are what the histories of the closed positions
\* say: the collateral returned less the collateral paid in, in dollars of
\* the time, whoever owned the positions.
PnlFromHistory ==
  MapThenSumSet(LAMBDA w : pnl[w], Wallets)
    = MapThenSumSet(TransfersUsd, {p \in Positions : pos[p].status = "closed"})

\* A change of owner moves collateral between two wallets' histories and
\* adds none: over all wallets the records of changes of owner cancel out.
OwnersCancel ==
  MapThenSumSet(LAMBDA w : FoldLeft(LAMBDA sum, a : IF a.kind = "transfer" THEN sum + a.transfer ELSE sum,
                                    0, byAddr[w]), Wallets) = 0

\* The summary of a provider agrees with the list of its actions.
LpSummaryFromHistory ==
  \A w \in Wallets :
    LET total(kind) == FoldLeft(LAMBDA sum, a : IF a.kind = kind THEN sum + a.collateral ELSE sum, 0, lp[w])
    IN lpSummary[w] = [deposit |-> total("deposit"), yield |-> total("claim")]
=============================================================================

----------------------------- MODULE CounterTrade -----------------------------
(***************************************************************************)
(* The countertrade contract: wallets deposit collateral for shares, and   *)
(* the contract holds at most one position, on the unpopular side of its   *)
(* market.  Anybody may call DoWork.  Its messages to the market are       *)
(* executed later; until then the contract waits for the deferred          *)
(* execution in its totals and refuses deposits and withdrawals.           *)
(*                                                                         *)
(* What the strategy decides is a choice here: CounterTradeTarget is about *)
(* it.  A call that fails reverts, so that its failing paths are no steps. *)
(***************************************************************************)
EXTENDS Integers, Sequences, FiniteSets, FiniteSetsExt

CONSTANTS
  Wallets,          \* depositors
  One,              \* the decimal 1, in atoms
  Unit,             \* the token's smallest amount on the chain, in atoms
  Deposits,         \* collateral amounts wallets send
  Redeems,          \* share amounts they ask to withdraw
  Stakes,           \* collateral the strategy opens, adds or removes
  Payouts,          \* what the market pays for a position it closes
  Gifts,            \* amounts or positions somebody sends to the contract
  CrankFee,         \* estimate_crank_fee
  MaxExecs,         \* bound: messages to the market
  MaxBalance        \* bound: tokens held by the contract

ConstantsOK ==
  /\ One \in Nat \ {0} /\ Unit \in Nat \ {0} /\ CrankFee \in Nat
  /\ Deposits \subseteq Nat \ {0} /\ Redeems \subseteq Nat \ {0}
  /\ Stakes \subseteq Nat \ {0} /\ Payouts \subseteq Nat /\ Gifts \subseteq Nat \ {0}
  /\ MaxExecs \in Nat /\ MaxBalance \in Nat

VARIABLES
  shares,           \* SHARES
  total,            \* TOTALS.shares
  slot,             \* TOTALS.deferred_exec
  balance,          \* tokens the contract holds
  positions,        \* active collateral of its positions, oldest first (external)
  execs             \* deferred executions in the market (external)

vars == <<shares, total, slot, balance, positions, execs>>
marketVars == <<positions, execs>>

NoExec == 0

Mul(a, b) == (a * b) \div One
Div(a, b) == (a * One) \div b
OnChain(x) == (x \div Unit) * Unit

Init ==
  /\ shares = [w \in Wallets |-> 0] /\ total = 0
  /\ slot = NoExec /\ balance = 0
  /\ positions = <<>> /\ execs = <<>>

------------------------------------------------------------------------------
(* Shares.  With two positions their value cannot be told.                 *)

OnePosition == Len(positions) <= 1
Active == IF positions = <<>> THEN 0 ELSE positions[1]
Value == balance + Active

\* Mutant: does not look at the slot.
NotWaitingEver == TRUE

NotWaiting == slot = NoExec

\* Mutant: the collateral in the position is left out.
NewSharesFree(x) == IF total = 0 THEN x ELSE Mul(Div(x, IF balance = 0 THEN x ELSE balance), total)

\* Totals::add_collateral; the balance already has the funds in the code.
NewShares(x) == IF total = 0 THEN x ELSE Mul(Div(x, Value), total)

\* Funds without shares, or shares without funds, make it fail.
Deposit(w, x) ==
  /\ NotWaiting /\ OnePosition
  /\ balance + x <= MaxBalance
  /\ total = 0 <=> Value = 0
  /\ NewShares(x) > 0
  /\ shares' = [shares EXCEPT ![w] = @ + NewShares(x)]
  /\ total' = total + NewShares(x)
  /\ balance' = balance + x
  /\ UNCHANGED <<slot, marketVars>>

\* Mutant: only the collateral is checked.
MayRedeemAnything(w, s) == s <= total

MayRedeem(w, s) == s <= shares[w]

\* withdraw, Totals::remove_collateral
Withdraw(w, s) ==
  /\ NotWaiting /\ OnePosition
  /\ MayRedeem(w, s)
  /\ LET funds == Mul(s, Div(Value, total)) IN
       /\ funds <= balance /\ OnChain(funds) > 0
       /\ balance' = balance - OnChain(funds)
  /\ shares' = [shares EXCEPT ![w] = @ - s]
  /\ total' = total - s
  /\ UNCHANGED <<slot, marketVars>>

------------------------------------------------------------------------------
(* DoWork.                                                                 *)

Work ==
  IF total = 0 THEN "none"
  ELSE IF slot # NoExec
    THEN IF execs[slot].status = "pending" THEN "none" ELSE "clear"
  ELSE IF ~OnePosition THEN "close"
  ELSE IF balance > 0 THEN "strategy"
  ELSE IF positions = <<>> THEN "reset" ELSE "none"

\* Mutant: the wallets keep their shares.
ResetSharesTotalOnly ==
  /\ Work = "reset"
  /\ total' = 0
  /\ UNCHANGED <<shares, slot, balance, marketVars>>

ResetShares ==
  /\ Work = "reset"
  /\ shares' = [w \in Wallets |-> 0] /\ total' = 0
  /\ UNCHANGED <<slot, balance, marketVars>>

\* Mutant: waits for a success.
ClearDeferredExecOnSuccess ==
  /\ Work = "clear" /\ execs[slot].status = "success"
  /\ slot' = NoExec
  /\ UNCHANGED <<shares, total, balance, marketVars>>

ClearDeferredExec ==
  /\ Work = "clear"
  /\ slot' = NoExec
  /\ UNCHANGED <<shares, total, balance, marketVars>>

\* The message is sent and the reply stores the id of its deferred execution.
SendToMarket(kind, amount, funds) ==
  /\ Len(execs) < MaxExecs
  /\ funds <= balance
  /\ balance' = balance - funds
  /\ execs' = Append(execs, [kind |-> kind, amount |-> amount, status |-> "pending"])
  /\ slot' = Len(execs) + 1
  /\ UNCHANGED <<shares, total, positions>>

CloseExtra == Work = "close" /\ SendToMarket("close", 0, 0)

\* What get_work_for may decide when there is a balance to work with.
FollowStrategy ==
  /\ Work = "strategy"
  /\ \/ positions = <<>> /\ \E x \in Stakes : SendToMarket("open", x, x)
     \/ positions # <<>> /\ \E x \in Stakes : SendToMarket("add", x, x)
     \/ positions # <<>> /\ \E x \in Stakes : SendToMarket("remove", x, CrankFee)
     \/ positions # <<>> /\ SendToMarket("close", 0, 0)

DoWork == ResetShares \/ ClearDeferredExec \/ CloseExtra \/ FollowStrategy

------------------------------------------------------------------------------
(* The market.                                                             *)

Applied(e) ==
  CASE e.kind = "open" ->
         positions' = Append(positions, e.amount) /\ UNCHANGED balance
    [] e.kind = "add" ->
         /\ positions # <<>>
         /\ positions' = [positions EXCEPT ![1] = @ + e.amount] /\ UNCHANGED balance
    [] e.kind = "remove" ->
         /\ positions # <<>> /\ positions[1] > e.amount
         /\ positions' = [positions EXCEPT ![1] = @ - e.amount]
         /\ balance' = balance + e.amount
    [] OTHER ->
         /\ positions # <<>>
         /\ \E y \in Payouts : balance' = balance + y
         /\ positions' = Tail(positions)

\* A failure returns the collateral that came with the message.
MarketExecutes(id) ==
  LET e == execs[id] IN
  /\ e.status = "pending"
  /\ \/ execs' = [execs EXCEPT ![id].status = "success"] /\ Applied(e)
     \/ /\ execs' = [execs EXCEPT ![id].status = "failure"]
        /\ balance' = balance + (IF e.kind \in {"open", "add"} THEN e.amount ELSE 0)
        /\ UNCHANGED positions
  /\ UNCHANGED <<shares, total, slot>>

\* Liquidation, take profit or stop loss.
MarketCloses(y) ==
  /\ positions # <<>> /\ balance + y <= MaxBalance
  /\ positions' = Tail(positions)
  /\ balance' = balance + y
  /\ UNCHANGED <<shares, total, slot, execs>>

Donate(y) ==
  /\ balance + y <= MaxBalance
  /\ \/ balance' = balance + y /\ UNCHANGED positions
     \/ /\ Len(positions) < 2
        /\ positions' = Append(positions, y) /\ UNCHANGED balance
  /\ UNCHANGED <<shares, total, slot, execs>>

Next ==
  \/ \E w \in Wallets, x \in Deposits : Deposit(w, x)
  \/ \E w \in Wallets, s \in Redeems : Withdraw(w, s)
  \/ DoWork
  \/ \E id \in DOMAIN execs : MarketExecutes(id)
  \/ \E y \in Payouts : MarketCloses(y)
  \/ \E y \in Gifts : Donate(y)

Spec == Init /\ [][Next]_vars

\* Bots call DoWork while there is work, and crank the market.
Fairness ==
  /\ WF_vars(ResetShares \/ ClearDeferredExec)
  /\ WF_vars(\E id \in DOMAIN execs : MarketExecutes(id))

FairSpec == Spec /\ Fairness

------------------------------------------------------------------------------
(* Properties.                                                             *)

\* The stored state has its type.
TypeOK ==
  /\ shares \in [Wallets -> Nat] /\ total \in Nat
  /\ slot \in 0..Len(execs)
  /\ balance \in Nat /\ positions \in Seq(Nat)

\* Shares are counted by wallet and in total, at different lines, and wiped
\* when everything is lost (work.rs:905).
SharesAddUp == total = FoldSet(LAMBDA w, acc : acc + shares[w], 0, Wallets)

\* get_work_for looks for shares before it looks at the slot (work.rs:26): if
\* the last shares could go while the contract waits, nothing would ever free
\* the slot, and deposits would be refused for ever.
SharesWhileWaiting == slot # NoExec => total > 0

\* Rounding, the open position and what was just paid in: no deposit and no
\* withdrawal lowers what a share of the others is worth (common.rs:90).
NoDilutionStep ==
  total # total' /\ total > 0 /\ total' > 0 => Value * total' <= Value' * total
NoDilution == [][NoDilutionStep]_vars

\* The slot is always freed: whatever becomes of the message, deposits and
\* withdrawals are accepted again (execute.rs:140).
WaitingEnds == slot # NoExec ~> slot = NoExec

\* The contract "allows permissionless deposit of funds" (README.md): without
\* a position, and nothing being awaited, it never holds collateral without
\* shares, for which add_collateral refuses every deposit (common.rs:120).
DepositsGoOn == NotWaiting /\ positions = <<>> => (total = 0 => balance = 0)

==============================================================================

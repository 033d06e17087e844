----------------------------- MODULE CopyTrading -----------------------------
(***************************************************************************)
(* The copy trading contract: followers deposit collateral for shares, a   *)
(* leader trades with it.  Every request is first put into one of two      *)
(* queues, one of requests that increase the free collateral (deposits,    *)
(* closing a position) and one of requests that decrease it (withdrawals,  *)
(* opening a position).  Anybody may call DoWork, which works out from the *)
(* stored state what has to be done next and does one piece of it.         *)
(*                                                                         *)
(* A market executes the leader's requests later, as deferred executions:  *)
(* the contract keeps the id of the one it waits for in a single slot,     *)
(* REPLY_DEFERRED_EXEC_ID.  Shares are only issued and redeemed at an LP   *)
(* token value that was computed for the very request at the head.         *)
(*                                                                         *)
(* One collateral token; the markets using it are one environment.  The    *)
(* query allowances are taken to be large enough for one call:             *)
(* CopyTradingRebalance and CopyTradingValue are about the batches.        *)
(* A call that fails reverts, so that its failing paths are no steps.      *)
(***************************************************************************)
EXTENDS Integers, Sequences, FiniteSets, FiniteSetsExt, SequenceTheorems, FiniteSums

CONSTANTS
  Wallets,          \* followers
  One,              \* the decimal 1, in atoms
  Unit,             \* the token's smallest amount on the chain, in atoms
  Tolerance,        \* check_balance_work: a smaller gap is not rebalanced
  Deposits,         \* collateral amounts followers send
  Redeems,          \* share amounts followers ask to withdraw
  Stakes,           \* collateral amounts the leader trades with
  Payouts,          \* what a market pays when a position is closed
  Gifts,            \* amounts somebody sends to the contract for nothing
  CrankFee,         \* estimate_crank_fee
  Rate,             \* config.commission_rate, in atoms
  MaxInc, MaxDec,   \* bound: requests per queue
  MaxBalance        \* bound: tokens held by the contract

ConstantsOK ==
  /\ IsFiniteSet(Wallets)
  /\ One \in Nat \ {0} /\ Unit \in Nat \ {0} /\ Tolerance \in Nat
  /\ Rate \in 0..One /\ CrankFee \in Nat
  /\ Deposits \subseteq Nat \ {0} /\ Redeems \subseteq Nat \ {0}
  /\ Stakes \subseteq Nat \ {0} /\ Payouts \subseteq Nat
  /\ Gifts \subseteq Nat \ {0}
  /\ MaxInc \in Nat /\ MaxDec \in Nat /\ MaxBalance \in Nat

ASSUME CopyConstants == ConstantsOK

VARIABLES
  inc, dec,         \* COLLATERAL_INCREASE_QUEUE, COLLATERAL_DECREASE_QUEUE
  lastInc, lastDec, \* LAST_PROCESSED_INC_QUEUE_ID, LAST_PROCESSED_DEC_QUEUE_ID
  totals,           \* TOTALS: free collateral and all shares
  shares,           \* SHARES
  pending,          \* PENDING_DEPOSITS
  lpValue,          \* LP_TOKEN_VALUE
  stats,            \* MARKET_WORK_INFO: do old statistics have to be reset?
  slot,             \* REPLY_DEFERRED_EXEC_ID
  commission,       \* LEADER_COMMISSION
  balance,          \* tokens the contract holds
  execs,            \* deferred executions in the markets (external)
  active,           \* active collateral in the markets (external)
  valuedAt          \* history: executions sent when the value was computed

queueVars == <<inc, dec, lastInc, lastDec>>
marketVars == <<execs, active, valuedAt>>
vars == <<inc, dec, lastInc, lastDec, totals, shares, pending, lpValue, stats,
          slot, commission, balance, execs, active, valuedAt>>

------------------------------------------------------------------------------
(* Requests.  "close" stands for ClosePosition and CancelLimitOrder,       *)
(* "remove" for the requests to take collateral out of a position, "open"  *)
(* for those that send collateral along (open, place an order, add) and    *)
(* "update" for those that only pay a crank fee (leverage, triggers).      *)

IncKinds == {"deposit", "close", "remove"}
DecKinds == {"withdraw", "open", "update"}
Statuses == {"NotProcessed", "InProgress", "Finished", "Failed"}

NoWallet == "leader"
Item(kind, amount, wallet) ==
  [kind |-> kind, amount |-> amount, wallet |-> wallet, status |-> "NotProcessed"]

NoExec == 0
NoValue == [value |-> 0, for |-> <<"unset", 0>>]
Outdated == <<"outdated", 0>>

RequiresToken(item) == item.kind \in {"deposit", "withdraw"}

\* The messages to a market that carry collateral, and those that only pay
\* the market's crank fee.
SendsCollateral(item) == item.kind = "open"
PaysCrankFee(item) == item.kind \in {"remove", "update"}

\* What process_*_queue takes from the totals for the market.
Cost(item) ==
  CASE SendsCollateral(item) -> item.amount
    [] PaysCrankFee(item) -> CrankFee
    [] OTHER -> 0

Mul(a, b) == (a * b) \div One
Div(a, b) == (a * One) \div b
\* into_transfer_msg sends whole units of the chain's token.
OnChain(x) == (x \div Unit) * Unit

------------------------------------------------------------------------------
(* The heads of the queues and the work to do.                             *)

HasInc == lastInc < Len(inc)
HasDec == lastDec < Len(dec)

\* get_current_queue_element: the inc queue goes first.
Current == IF HasInc THEN <<"inc", lastInc + 1>> ELSE <<"dec", lastDec + 1>>
HeadItem == IF HasInc THEN inc[lastInc + 1] ELSE dec[lastDec + 1]

\* What the contract's books say it holds.
Booked == totals.collateral + pending + commission.unclaimed
Gap == balance - Booked

CheckBalanceWork ==
  IF Gap \in -Tolerance..Tolerance
    THEN IF stats = "NotStarted" THEN "compute" ELSE "reset"
    ELSE IF Gap < 0 THEN "error" ELSE "rebalance"

\* get_inc_deferred_work, get_dec_deferred_work
DeferredWork ==
  IF RequiresToken(HeadItem) THEN "error"
  ELSE IF execs[slot].status = "pending" THEN "none" ELSE "handle"

\* get_work for a request that needs the LP token value.
TokenWork ==
  IF lpValue = NoValue THEN CheckBalanceWork
  ELSE IF lpValue.for = Current THEN "process"
  ELSE IF slot # NoExec THEN DeferredWork ELSE CheckBalanceWork

MarketWork ==
  IF HeadItem.status = "InProgress" /\ slot # NoExec THEN DeferredWork ELSE "process"

Work ==
  IF ~HasInc /\ ~HasDec THEN "none"
  ELSE IF RequiresToken(HeadItem) THEN TokenWork ELSE MarketWork

------------------------------------------------------------------------------
Init ==
  /\ inc = <<>> /\ dec = <<>> /\ lastInc = 0 /\ lastDec = 0
  /\ totals = [collateral |-> 0, shares |-> 0]
  /\ shares = [w \in Wallets |-> 0]
  /\ pending = 0 /\ lpValue = NoValue /\ stats = "NotStarted"
  /\ slot = NoExec /\ commission = [unclaimed |-> 0, claimed |-> 0]
  /\ balance = 0 /\ execs = <<>> /\ active = 0 /\ valuedAt = 0

Deposit(w, x) ==
  /\ Len(inc) < MaxInc /\ balance + x <= MaxBalance
  /\ inc' = Append(inc, Item("deposit", x, w))
  /\ pending' = pending + x
  /\ balance' = balance + x
  /\ UNCHANGED <<dec, lastInc, lastDec, totals, shares, lpValue, stats, slot,
                 commission, marketVars>>

\* withdraw: the shares are checked now and again when it is processed.
Withdraw(w, s) ==
  /\ Len(dec) < MaxDec
  /\ s <= shares[w]
  /\ dec' = Append(dec, Item("withdraw", s, w))
  /\ UNCHANGED <<inc, lastInc, lastDec, totals, shares, pending, lpValue, stats,
                 slot, commission, balance, marketVars>>

\* execute_leader_msg
LeaderIncrease(kind) ==
  /\ Len(inc) < MaxInc
  /\ inc' = Append(inc, Item(kind, 0, NoWallet))
  /\ UNCHANGED <<dec, lastInc, lastDec, totals, shares, pending, lpValue, stats,
                 slot, commission, balance, marketVars>>

LeaderDecrease(kind, x) ==
  /\ Len(dec) < MaxDec
  /\ kind = "open" => x <= totals.collateral
  /\ dec' = Append(dec, Item(kind, x, NoWallet))
  /\ UNCHANGED <<inc, lastInc, lastDec, totals, shares, pending, lpValue, stats,
                 slot, commission, balance, marketVars>>

\* leader_withdrawal of all the unclaimed commission
LeaderWithdrawal ==
  /\ OnChain(commission.unclaimed) > 0
  /\ commission' = [unclaimed |-> 0,
                    claimed |-> commission.claimed + commission.unclaimed]
  /\ balance' = balance - OnChain(commission.unclaimed)
  /\ UNCHANGED <<queueVars, totals, shares, pending, lpValue, stats, slot, marketVars>>

------------------------------------------------------------------------------
(* DoWork.                                                                 *)

ResetStats ==
  /\ Work = "reset"
  /\ stats' = "NotStarted"
  /\ UNCHANGED <<queueVars, totals, shares, pending, lpValue, slot, commission,
                 balance, marketVars>>

ShareValue ==
  IF totals.shares = 0 \/ totals.collateral + active = 0 THEN One
  ELSE Div(totals.collateral + active, totals.shares)

\* compute_lp_token_value; the first value is one, without looking at markets.
ComputeLpTokenValue ==
  /\ Work = "compute"
  /\ IF lpValue = NoValue
       THEN lpValue' = [value |-> One, for |-> Current] /\ UNCHANGED stats
       ELSE /\ lpValue' = [value |-> ShareValue, for |-> Current]
            /\ stats' = "Validated"
  /\ valuedAt' = Len(execs)
  /\ UNCHANGED <<queueVars, totals, shares, pending, slot, commission, balance,
                 execs, active>>

\* Mutant: the commission is booked, and stays in the totals.
RebalanceKeeping ==
  /\ Work = "rebalance"
  /\ \E c \in 0..Mul(Rate, Gap) :
       /\ commission' = [commission EXCEPT !.unclaimed = @ + c]
       /\ totals' = [totals EXCEPT !.collateral = @ + Gap]
  /\ UNCHANGED <<queueVars, shares, pending, lpValue, stats, slot, balance, marketVars>>

\* rebalance: the leader's commission is at most Rate of what came in.
Rebalance ==
  /\ Work = "rebalance"
  /\ \E c \in 0..Mul(Rate, Gap) :
       /\ commission' = [commission EXCEPT !.unclaimed = @ + c]
       /\ totals' = [totals EXCEPT !.collateral = @ + Gap - c]
  /\ UNCHANGED <<queueVars, shares, pending, lpValue, stats, slot, balance, marketVars>>

\* The head is settled: its status is stored and it is the last processed one.
SettleInc(status) ==
  /\ inc' = [inc EXCEPT ![lastInc + 1].status = status]
  /\ lastInc' = lastInc + 1
  /\ UNCHANGED <<dec, lastDec>>

\* Mutant: the id of the processed request is not stored after a failure.
SettleDecStill(status) ==
  /\ dec' = [dec EXCEPT ![lastDec + 1].status = status]
  /\ lastDec' = IF status = "Failed" THEN lastDec ELSE lastDec + 1
  /\ UNCHANGED <<inc, lastInc>>

SettleDec(status) ==
  /\ dec' = [dec EXCEPT ![lastDec + 1].status = status]
  /\ lastDec' = lastDec + 1
  /\ UNCHANGED <<inc, lastInc>>

Settle(status) == IF HasInc THEN SettleInc(status) ELSE SettleDec(status)

NewShares(item) == Div(item.amount, lpValue.value)

\* Mutant: the new shares replace the old ones.
ProcessDepositAnew ==
  /\ Work = "process" /\ HeadItem.kind = "deposit"
  /\ lpValue.value > 0 /\ NewShares(HeadItem) > 0
  /\ LET d == HeadItem  n == NewShares(HeadItem) IN
       /\ totals' = [collateral |-> totals.collateral + d.amount,
                     shares |-> totals.shares + n]
       /\ shares' = [shares EXCEPT ![d.wallet] = n]
       /\ pending' = pending - d.amount
  /\ Settle("Finished")
  /\ UNCHANGED <<lpValue, stats, slot, commission, balance, marketVars>>

\* process_queue_item, Deposit.  No shares for the funds is an error.
ProcessDeposit ==
  /\ Work = "process" /\ HeadItem.kind = "deposit"
  /\ lpValue.value > 0 /\ NewShares(HeadItem) > 0
  /\ LET d == HeadItem  n == NewShares(HeadItem) IN
       /\ totals' = [collateral |-> totals.collateral + d.amount,
                     shares |-> totals.shares + n]
       /\ shares' = [shares EXCEPT ![d.wallet] = @ + n]
       /\ pending' = pending - d.amount
  /\ Settle("Finished")
  /\ UNCHANGED <<lpValue, stats, slot, commission, balance, marketVars>>

\* Mutant: the shares are not checked again.
WithdrawalFailsNever(item, funds) == funds > totals.collateral \/ OnChain(funds) = 0

\* NotEnoughShares, NotEnoughCollateral, FundLessThanMinChain
WithdrawalFails(item, funds) ==
  \/ item.amount > shares[item.wallet]
  \/ funds > totals.collateral
  \/ OnChain(funds) = 0

\* process_queue_item, Withdrawal.  Shares worth nothing are an error, unless
\* the wallet has too few of them.
ProcessWithdrawal ==
  /\ Work = "process" /\ HeadItem.kind = "withdraw"
  /\ LET d == HeadItem  funds == Mul(lpValue.value, HeadItem.amount) IN
       /\ d.amount > shares[d.wallet] \/ funds > 0
       /\ IF WithdrawalFails(d, funds)
            THEN Settle("Failed") /\ UNCHANGED <<totals, shares, balance>>
            ELSE /\ totals' = [collateral |-> totals.collateral - funds,
                               shares |-> totals.shares - d.amount]
                 /\ shares' = [shares EXCEPT ![d.wallet] = @ - d.amount]
                 /\ balance' = balance - OnChain(funds)
                 /\ Settle("Finished")
  /\ UNCHANGED <<pending, lpValue, stats, slot, commission, marketVars>>

\* process_dec_queue, process_dec_crank_queue, process_inc_queue: TOTALS and
\* LP_TOKEN_VALUE have to be there, or the call fails.
Processable ==
  /\ Work = "process" /\ ~RequiresToken(HeadItem)
  /\ lpValue # NoValue

MarketItemUnaffordable ==
  /\ Processable
  /\ Cost(HeadItem) > totals.collateral
  /\ Settle("Failed")
  /\ UNCHANGED <<totals, shares, pending, lpValue, stats, slot, commission,
                 balance, marketVars>>

InProgress ==
  /\ inc' = IF HasInc THEN [inc EXCEPT ![lastInc + 1].status = "InProgress"] ELSE inc
  /\ dec' = IF HasInc THEN dec ELSE [dec EXCEPT ![lastDec + 1].status = "InProgress"]
  /\ UNCHANGED <<lastInc, lastDec>>

\* Mutant: the value stays good while the market holds the collateral.
MarketItemAcceptedValid ==
  /\ Processable
  /\ Cost(HeadItem) <= totals.collateral
  /\ slot = NoExec
  /\ InProgress
  /\ totals' = [totals EXCEPT !.collateral = @ - Cost(HeadItem)]
  /\ balance' = balance - Cost(HeadItem)
  /\ execs' = Append(execs, [status |-> "pending", kind |-> HeadItem.kind,
                             amount |-> HeadItem.amount])
  /\ slot' = Len(execs) + 1
  /\ UNCHANGED <<lpValue, shares, pending, stats, commission, active, valuedAt>>

\* The market takes the message, and handle_sucess stores the deferred id;
\* it fails, and with it the call, when the slot is taken.
MarketItemAccepted ==
  /\ Processable
  /\ Cost(HeadItem) <= totals.collateral
  /\ slot = NoExec
  /\ InProgress
  /\ totals' = [totals EXCEPT !.collateral = @ - Cost(HeadItem)]
  /\ lpValue' = [lpValue EXCEPT !.for = Outdated]
  /\ balance' = balance - Cost(HeadItem)
  /\ execs' = Append(execs, [status |-> "pending", kind |-> HeadItem.kind,
                             amount |-> HeadItem.amount])
  /\ slot' = Len(execs) + 1
  /\ UNCHANGED <<shares, pending, stats, commission, active, valuedAt>>

\* The market refuses, the funds stay.  The *_failure handlers of the reply
\* give the collateral back to the totals, not a crank fee.
Returned(item) == IF item.kind = "open" THEN item.amount ELSE 0

MarketItemRejected ==
  /\ Processable
  /\ Cost(HeadItem) <= totals.collateral
  /\ Settle("Failed")
  /\ totals' = [totals EXCEPT !.collateral = @ - Cost(HeadItem) + Returned(HeadItem)]
  /\ lpValue' = [lpValue EXCEPT !.for = Outdated]
  /\ UNCHANGED <<shares, pending, stats, slot, commission, balance, marketVars>>

\* Mutant: the slot is not freed after a failure.
HandleDeferredExecIdKeeping ==
  /\ Work = "handle"
  /\ HeadItem.status = "InProgress"
  /\ Settle(IF execs[slot].status = "success" THEN "Finished" ELSE "Failed")
  /\ slot' = IF execs[slot].status = "success" THEN NoExec ELSE slot
  /\ UNCHANGED <<totals, shares, pending, lpValue, stats, commission, balance,
                 marketVars>>

HandleDeferredExecId ==
  /\ Work = "handle"
  /\ HeadItem.status = "InProgress"
  /\ Settle(IF execs[slot].status = "success" THEN "Finished" ELSE "Failed")
  /\ slot' = NoExec
  /\ UNCHANGED <<totals, shares, pending, lpValue, stats, commission, balance,
                 marketVars>>

DoWork ==
  \/ ResetStats \/ ComputeLpTokenValue \/ Rebalance
  \/ ProcessDeposit \/ ProcessWithdrawal
  \/ MarketItemUnaffordable \/ MarketItemAccepted \/ MarketItemRejected
  \/ HandleDeferredExecId

------------------------------------------------------------------------------
(* The markets: deferred executions, positions that close by themselves.   *)

Pays(x, y) == active >= x /\ balance + y <= MaxBalance
              /\ active' = active - x /\ balance' = balance + y

\* A success moves the collateral; a failure returns what "open" had sent.
MarketExecutes(id) ==
  /\ execs[id].status = "pending"
  /\ \/ /\ execs' = [execs EXCEPT ![id].status = "success"]
        /\ CASE execs[id].kind = "open" ->
                  active' = active + execs[id].amount /\ UNCHANGED balance
             [] execs[id].kind = "close" ->
                  \E x \in Stakes, y \in Payouts : Pays(x, y)
             [] execs[id].kind = "remove" -> \E x \in Stakes : Pays(x, x)
             [] OTHER -> UNCHANGED <<active, balance>>
     \/ /\ execs' = [execs EXCEPT ![id].status = "failure"]
        /\ balance' = balance + (IF execs[id].kind = "open" THEN execs[id].amount ELSE 0)
        /\ UNCHANGED active
  /\ UNCHANGED <<queueVars, totals, shares, pending, lpValue, stats, slot, commission,
                 valuedAt>>

\* Liquidation, take profit or stop loss of a position.
MarketCloses(x, y) ==
  /\ Pays(x, y)
  /\ UNCHANGED <<queueVars, totals, shares, pending, lpValue, stats, slot,
                 commission, execs, valuedAt>>

\* Somebody sends tokens to the contract.
Donate(y) ==
  /\ balance + y <= MaxBalance
  /\ balance' = balance + y
  /\ UNCHANGED <<queueVars, totals, shares, pending, lpValue, stats, slot,
                 commission, marketVars>>

Next ==
  \/ \E w \in Wallets, x \in Deposits : Deposit(w, x)
  \/ \E w \in Wallets, s \in Redeems : Withdraw(w, s)
  \/ \E k \in {"close", "remove"} : LeaderIncrease(k)
  \/ \E x \in Stakes : LeaderDecrease("open", x)
  \/ LeaderDecrease("update", 0)
  \/ LeaderWithdrawal
  \/ DoWork
  \/ \E id \in DOMAIN execs : MarketExecutes(id)
  \/ \E x \in Stakes, y \in Payouts : MarketCloses(x, y)
  \/ \E y \in Gifts : Donate(y)

Spec == Init /\ [][Next]_vars

\* The head of the inc queue came while a market executes a request of the dec
\* queue, and waits for the same slot.
SlotTaken == HasInc /\ slot # NoExec /\ inc[lastInc + 1].status # "InProgress"

\* Bots call DoWork while get_work reports work, and crank the markets, which
\* settles every deferred execution.  No market is made to refuse a message
\* because the slot is taken.
Fairness ==
  /\ WF_vars(~SlotTaken /\ DoWork)
  /\ WF_vars(\E id \in DOMAIN execs : MarketExecutes(id))

FairSpec == Spec /\ Fairness

------------------------------------------------------------------------------
(* Properties.                                                             *)

Items(kinds) == [kind : kinds, amount : Nat, wallet : Wallets \cup {NoWallet},
                 status : Statuses]

\* The stored state has its type; the processed ids are ids of requests.
TypeOK ==
  /\ inc \in Seq(Items(IncKinds)) /\ dec \in Seq(Items(DecKinds))
  /\ lastInc \in 0..Len(inc) /\ lastDec \in 0..Len(dec)
  /\ totals \in [collateral : Nat, shares : Nat]
  /\ shares \in [Wallets -> Nat] /\ pending \in Nat
  /\ lpValue \in [value : Nat, for : {"unset", "outdated", "inc", "dec"} \X Nat]
  /\ stats \in {"NotStarted", "Validated"}
  /\ slot \in 0..Len(execs)
  /\ commission \in [unclaimed : Nat, claimed : Nat]
  /\ balance \in Nat /\ active \in Nat /\ valuedAt \in 0..Len(execs)

\* check_balance_work (work.rs:913) subtracts the books from the balance and
\* fails for good when they are larger.  The books are spread over totals,
\* pending deposits and commission, and a request moves collateral between
\* them and the markets in several calls and replies.
BalanceCovers == Booked <= balance

\* Pending deposits are those of the requests not yet worked off, no more and
\* no less: the deposit handler adds them, process_queue_item takes them off.
Waiting(q, last) ==
  [n \in DOMAIN q |-> IF n > last /\ q[n].kind = "deposit" THEN q[n].amount ELSE 0]
PendingIsQueued == pending = Total(Waiting(inc, lastInc), DOMAIN inc)

\* Shares are issued and redeemed by wallet and in total, at different lines;
\* a withdrawal is checked when it is queued and again when it is processed.
SharesAddUp == totals.shares = Total(shares, Wallets)

\* What the contract owes to followers and leader is held by it between any
\* two messages, and its three books say the same as the queue and the shares
\* by wallet do.
BooksBacked == TypeOK /\ BalanceCovers /\ PendingIsQueued /\ SharesAddUp

\* Shares are issued and redeemed at a value computed after every request the
\* markets were sent (work.rs:126): never while the collateral of one is in
\* neither the totals nor a position, and never at a value that has not seen
\* what a request of the other queue did in between.
FreshValue ==
  /\ HasInc \/ HasDec
  /\ lpValue.for = Current
  => slot = NoExec /\ valuedAt = Len(execs)

\* The slot belongs to the only request in progress, and that is the head of
\* its queue (execute.rs:838 attributes the result to a head).
SlotBelongsToHead ==
  LET busyInc == {n \in DOMAIN inc : inc[n].status = "InProgress"}
      busyDec == {n \in DOMAIN dec : dec[n].status = "InProgress"} IN
  /\ busyInc \subseteq {lastInc + 1}
  /\ busyDec \subseteq {lastDec + 1}
  /\ Cardinality(busyInc) + Cardinality(busyDec) = (IF slot = NoExec THEN 0 ELSE 1)

\* What sanity() asserts on every call: the requests up to the last processed
\* one, and only these, are Finished or Failed, so that both queues are worked
\* off in order and a settled request never runs again.
WorkedInOrder ==
  /\ \A n \in DOMAIN inc : n <= lastInc <=> inc[n].status \in {"Finished", "Failed"}
  /\ \A n \in DOMAIN dec : n <= lastDec <=> dec[n].status \in {"Finished", "Failed"}

\* Requests are worked on one at a time in their order: the slot for a
\* deferred execution belongs to the head of its queue, and shares are priced
\* at a value that no trade has outdated.
WorkInOrder == FreshValue /\ SlotBelongsToHead /\ WorkedInOrder

\* A request for a market before any share value was computed.
TooEarly == (HasInc \/ HasDec) /\ ~RequiresToken(HeadItem) /\ lpValue = NoValue

\* A deposit that buys no shares, a withdrawal of shares that are worth nothing.
WorthNothing ==
  /\ Work = "process"
  /\ \/ HeadItem.kind = "deposit" /\ (lpValue.value = 0 \/ NewShares(HeadItem) = 0)
     \/ /\ HeadItem.kind = "withdraw" /\ HeadItem.amount <= shares[HeadItem.wallet]
        /\ Mul(lpValue.value, HeadItem.amount) = 0

\* Every request is settled: with bots working and the market cranked no
\* request waits for ever (execute.rs:619, do_work).  There are exceptions.
EveryRequestSettles ==
  /\ \A n \in 1..MaxInc : Len(inc) >= n ~> lastInc >= n
  /\ \A n \in 1..MaxDec : Len(dec) >= n ~> lastDec >= n

\* What holds: requests wait for ever only if the contract stops for good, at a
\* head that finds the slot taken (work.rs:73, reply.rs:39), that is a leader's
\* before the first value (work.rs:1067), or that deals in nothing (types.rs:226,
\* :234).
SettlesUnlessStopped ==
  <>[](SlotTaken \/ TooEarly \/ WorthNothing) \/ EveryRequestSettles

\* get_work calls what it meets here impossible (work.rs:71): the slot is
\* taken, and the head of the inc queue is not a request for a market.
NotImpossible == Work # "error"
------------------------------------------------------------------------------
(* The inductive invariant.                                                *)

Settled == {"Finished", "Failed"}

\* A queue and the last processed one of its requests.
Busy(q, last) == last < Len(q) /\ q[last + 1].status = "InProgress"
QueueInv(q, last, kinds) ==
  /\ q \in Seq(Items(kinds)) /\ last \in 0..Len(q)
  /\ \A n \in 1..Len(q) :
       /\ RequiresToken(q[n]) => q[n].wallet \in Wallets
       /\ n <= last <=> q[n].status \in Settled
       /\ q[n].status = "InProgress" => n = last + 1

QueuesInv ==
  /\ QueueInv(inc, lastInc, IncKinds)
  /\ QueueInv(dec, lastDec, DecKinds)

\* The slot is taken while one of the two heads is in progress, not both.
SlotInv ==
  /\ slot # NoExec <=> Busy(inc, lastInc) \/ Busy(dec, lastDec)
  /\ ~(Busy(inc, lastInc) /\ Busy(dec, lastDec))

Execs == [status : {"pending", "success", "failure"}, kind : IncKinds \cup DecKinds,
          amount : Nat]
Values == [value : Nat, for : {"unset", "outdated", "inc", "dec"} \X Nat]

\* A value for a request is as recent as the last message to a market, and
\* there has been none before the first value.
ValueInv ==
  /\ execs \in Seq(Execs) /\ slot \in 0..Len(execs) /\ valuedAt \in 0..Len(execs)
  /\ lpValue \in Values
  /\ lpValue = NoValue => slot = NoExec
  /\ lpValue.for[1] \in {"inc", "dec"} => slot = NoExec /\ valuedAt = Len(execs)

BooksInv ==
  /\ totals \in [collateral : Nat, shares : Nat]
  /\ shares \in [Wallets -> Nat] /\ pending \in Nat
  /\ stats \in {"NotStarted", "Validated"}
  /\ commission \in [unclaimed : Nat, claimed : Nat]
  /\ balance \in Nat /\ active \in Nat
  /\ BalanceCovers /\ SharesAddUp

CopyInv == QueuesInv /\ SlotInv /\ ValueInv /\ BooksInv /\ PendingIsQueued
------------------------------------------------------------------------------
(* Queues: a request is added, its head goes in progress or is settled.    *)

LEMMA CopyNumbers ==
  /\ IsFiniteSet(Wallets)
  /\ One \in Nat /\ One > 0 /\ Unit \in Nat /\ Unit > 0 /\ Tolerance \in Nat
  /\ Rate \in Nat /\ Rate <= One /\ CrankFee \in Nat
  /\ \A x \in Deposits \cup Redeems \cup Stakes \cup Gifts : x \in Nat /\ x > 0
  /\ \A y \in Payouts : y \in Nat
BY CopyConstants DEF ConstantsOK

\* Appending to a sequence.
LEMMA Appended ==
  ASSUME NEW S, NEW q \in Seq(S), NEW x \in S
  PROVE  /\ Append(q, x) \in Seq(S)
         /\ Len(q) \in Nat /\ Len(Append(q, x)) = Len(q) + 1
         /\ \A n \in 1..Len(q) : Append(q, x)[n] = q[n]
         /\ Append(q, x)[Len(q) + 1] = x
  OBVIOUS

\* A new request waits at the end.
LEMMA AppendStep ==
  ASSUME NEW q, NEW last, NEW kinds, QueueInv(q, last, kinds),
         NEW it \in Items(kinds), it.status = "NotProcessed",
         RequiresToken(it) => it.wallet \in Wallets
  PROVE  /\ QueueInv(Append(q, it), last, kinds)
         /\ Busy(Append(q, it), last) <=> Busy(q, last)
<1>1. /\ q \in Seq(Items(kinds)) /\ last \in 0..Len(q) /\ Len(q) \in Nat
  BY DEF QueueInv
<1>2. /\ Append(q, it) \in Seq(Items(kinds)) /\ Len(Append(q, it)) = Len(q) + 1
      /\ \A n \in 1..Len(q) : Append(q, it)[n] = q[n]
      /\ Append(q, it)[Len(q) + 1] = it
  BY <1>1, Appended
<1>3. ASSUME NEW n \in 1 .. Len(Append(q, it))
      PROVE  /\ RequiresToken(Append(q, it)[n]) => Append(q, it)[n].wallet \in Wallets
             /\ n <= last <=> Append(q, it)[n].status \in Settled
             /\ Append(q, it)[n].status = "InProgress" => n = last + 1
  <2>1. CASE n \in 1..Len(q)
    BY <1>2, <2>1 DEF QueueInv
  <2>2. CASE n = Len(q) + 1
    BY <1>1, <1>2, <2>2 DEF Settled
  <2> QED BY <1>1, <1>2, <2>1, <2>2
<1>4. Busy(Append(q, it), last) <=> Busy(q, last)
  <2>1. CASE last < Len(q)
    BY <1>1, <1>2, <2>1 DEF Busy
  <2>2. CASE last = Len(q)
    BY <1>1, <1>2, <2>2 DEF Busy
  <2> QED BY <1>1, <2>1, <2>2
<1> QED BY <1>1, <1>2, <1>3, <1>4 DEF QueueInv

\* Another status for the head, and nothing else.
WithStatus(q, last, status) == [q EXCEPT ![last + 1].status = status]

LEMMA StatusSet ==
  ASSUME NEW q, NEW last, NEW kinds, QueueInv(q, last, kinds), last < Len(q),
         NEW status \in Statuses
  PROVE  LET r == WithStatus(q, last, status) IN
         /\ r \in Seq(Items(kinds)) /\ Len(r) = Len(q)
         /\ \A n \in 1..Len(q) : n # last + 1 => r[n] = q[n]
         /\ r[last + 1].kind = q[last + 1].kind
         /\ r[last + 1].amount = q[last + 1].amount
         /\ r[last + 1].wallet = q[last + 1].wallet
         /\ r[last + 1].status = status
<1> DEFINE e == [q[last + 1] EXCEPT !.status = status]
<1>1. /\ q \in Seq(Items(kinds)) /\ last \in 0..Len(q) /\ Len(q) \in Nat
      /\ last + 1 \in 1..Len(q)
  BY DEF QueueInv
<1>2. q[last + 1] \in Items(kinds)
  BY <1>1, ElementOfSeq
<1>3. /\ e \in Items(kinds) /\ e.kind = q[last + 1].kind
      /\ e.amount = q[last + 1].amount /\ e.wallet = q[last + 1].wallet
      /\ e.status = status
  BY <1>2 DEF Items
<1>4. WithStatus(q, last, status) = [q EXCEPT ![last + 1] = e]
  BY DEF WithStatus
<1> HIDE DEF e
<1>5. /\ [q EXCEPT ![last + 1] = e] \in Seq(Items(kinds))
      /\ Len([q EXCEPT ![last + 1] = e]) = Len(q)
      /\ \A n \in 1..Len(q) :
           [q EXCEPT ![last + 1] = e][n] = IF n = last + 1 THEN e ELSE q[n]
  BY <1>1, <1>3, ExceptSeq
<1> QED BY <1>1, <1>3, <1>4, <1>5

LEMMA ProgressStep ==
  ASSUME NEW q, NEW last, NEW kinds, QueueInv(q, last, kinds), last < Len(q)
  PROVE  LET r == WithStatus(q, last, "InProgress") IN
         QueueInv(r, last, kinds) /\ Busy(r, last)
<1> DEFINE r == WithStatus(q, last, "InProgress")
<1>1. /\ q \in Seq(Items(kinds)) /\ last \in 0..Len(q) /\ Len(q) \in Nat
      /\ last + 1 \in 1..Len(q)
  BY DEF QueueInv
<1>2. /\ r \in Seq(Items(kinds)) /\ Len(r) = Len(q)
      /\ \A n \in 1..Len(q) : n # last + 1 => r[n] = q[n]
      /\ r[last + 1].kind = q[last + 1].kind
      /\ r[last + 1].wallet = q[last + 1].wallet
      /\ r[last + 1].status = "InProgress"
  BY StatusSet, "InProgress" \in Statuses DEF Statuses
<1> HIDE DEF r
<1>3. ASSUME NEW n \in 1..Len(q)
      PROVE  /\ RequiresToken(r[n]) => r[n].wallet \in Wallets
             /\ n <= last <=> r[n].status \in Settled
             /\ r[n].status = "InProgress" => n = last + 1
  <2>1. CASE n = last + 1
    BY <1>1, <1>2, <2>1 DEF QueueInv, RequiresToken, Settled
  <2>2. CASE n # last + 1
    BY <1>2, <2>2 DEF QueueInv
  <2> QED BY <2>1, <2>2
<1>4. QueueInv(r, last, kinds) /\ Busy(r, last)
  BY <1>1, <1>2, <1>3 DEF QueueInv, Busy
<1> QED BY <1>4 DEF r

LEMMA SettledStep ==
  ASSUME NEW q, NEW last, NEW kinds, QueueInv(q, last, kinds), last < Len(q),
         NEW status \in Settled
  PROVE  LET r == WithStatus(q, last, status) IN
         QueueInv(r, last + 1, kinds) /\ ~Busy(r, last + 1)
<1> DEFINE r == WithStatus(q, last, status)
<1>1. /\ q \in Seq(Items(kinds)) /\ last \in 0..Len(q) /\ Len(q) \in Nat
      /\ last + 1 \in 1..Len(q) /\ last \in Nat
  BY DEF QueueInv
<1>2. /\ r \in Seq(Items(kinds)) /\ Len(r) = Len(q)
      /\ \A n \in 1..Len(q) : n # last + 1 => r[n] = q[n]
      /\ r[last + 1].kind = q[last + 1].kind
      /\ r[last + 1].wallet = q[last + 1].wallet
      /\ r[last + 1].status = status
  BY StatusSet, status \in Statuses DEF Statuses, Settled
<1> HIDE DEF r
<1>3. ASSUME NEW n \in 1..Len(q)
      PROVE  /\ RequiresToken(r[n]) => r[n].wallet \in Wallets
             /\ n <= last + 1 <=> r[n].status \in Settled
             /\ r[n].status # "InProgress"
  <2>1. CASE n = last + 1
    BY <1>1, <1>2, <2>1 DEF QueueInv, RequiresToken, Settled
  <2>2. CASE n # last + 1
    BY <1>1, <1>2, <2>2 DEF QueueInv
  <2> QED BY <2>1, <2>2
<1>4. QueueInv(r, last + 1, kinds)
  BY <1>1, <1>2, <1>3 DEF QueueInv
<1>5. ~Busy(r, last + 1)
  BY <1>1, <1>2, <1>3 DEF Busy
<1> QED BY <1>4, <1>5 DEF r
------------------------------------------------------------------------------
(* Pending deposits.                                                       *)

Due(q, last) == Total(Waiting(q, last), DOMAIN q)

LEMMA WaitingAre ==
  ASSUME NEW q, NEW last, QueueInv(q, last, IncKinds)
  PROVE  /\ DOMAIN q = 1..Len(q) /\ IsFiniteSet(DOMAIN q) /\ Len(q) \in Nat
         /\ last \in Nat
         /\ \A n \in 1..Len(q) :
              /\ q[n].amount \in Nat
              /\ Waiting(q, last)[n] =
                   IF n > last /\ q[n].kind = "deposit" THEN q[n].amount ELSE 0
              /\ Waiting(q, last)[n] \in Nat
<1>1. /\ q \in Seq(Items(IncKinds)) /\ last \in Nat /\ Len(q) \in Nat
      /\ DOMAIN q = 1..Len(q)
  BY DEF QueueInv
<1>2. IsFiniteSet(DOMAIN q)
  BY <1>1, FS_Interval
<1>3. \A n \in 1..Len(q) : q[n] \in Items(IncKinds)
  BY <1>1, ElementOfSeq
<1>4. \A n \in 1..Len(q) : q[n].amount \in Nat
  BY <1>3 DEF Items
<1>5. \A n \in 1..Len(q) :
        Waiting(q, last)[n] =
          IF n > last /\ q[n].kind = "deposit" THEN q[n].amount ELSE 0
  BY <1>1 DEF Waiting
<1> QED BY <1>1, <1>2, <1>4, <1>5

LEMMA DueType ==
  ASSUME NEW q, NEW last, QueueInv(q, last, IncKinds)
  PROVE  Due(q, last) \in Nat
<1>1. \A n \in DOMAIN q : Waiting(q, last)[n] \in Nat
  BY WaitingAre
<1> QED BY <1>1, WaitingAre, TotalType DEF Due

\* A deposit that joins the queue is due.
LEMMA DueAppended ==
  ASSUME NEW q, NEW last, QueueInv(q, last, IncKinds), NEW it \in Items(IncKinds),
         QueueInv(Append(q, it), last, IncKinds)
  PROVE  Due(Append(q, it), last) =
           Due(q, last) + (IF it.kind = "deposit" THEN it.amount ELSE 0)
<1> DEFINE r == Append(q, it)
           f == Waiting(q, last)
           g == Waiting(r, last)
           y == Len(q) + 1
<1>1. /\ q \in Seq(Items(IncKinds)) /\ Len(q) \in Nat /\ last \in Nat /\ last <= Len(q)
      /\ DOMAIN q = 1..Len(q) /\ IsFiniteSet(DOMAIN q)
  BY WaitingAre DEF QueueInv
<1>2. /\ r \in Seq(Items(IncKinds)) /\ Len(r) = Len(q) + 1
      /\ \A n \in 1..Len(q) : r[n] = q[n]
      /\ r[Len(q) + 1] = it
  BY <1>1, Appended
<1>3. /\ DOMAIN r = 1..Len(r)
      /\ \A n \in 1..Len(r) :
           /\ g[n] = IF n > last /\ r[n].kind = "deposit" THEN r[n].amount ELSE 0
           /\ g[n] \in Nat
  BY WaitingAre
<1>4. \A n \in 1..Len(q) :
        f[n] = IF n > last /\ q[n].kind = "deposit" THEN q[n].amount ELSE 0
  BY WaitingAre
<1> HIDE DEF r, f, g
<1>5. DOMAIN r = DOMAIN q \cup {y} /\ y \notin DOMAIN q
  BY <1>1, <1>2, <1>3
<1>6. g[y] = IF it.kind = "deposit" THEN it.amount ELSE 0
  BY <1>1, <1>2, <1>3
<1>7. \A n \in DOMAIN q : f[n] = g[n]
  BY <1>1, <1>2, <1>3, <1>4
<1>8. \A n \in DOMAIN q \cup {y} : g[n] \in Nat
  BY <1>3, <1>5
<1>9. Total(f, DOMAIN q) = Total(g, DOMAIN q)
  BY <1>1, <1>7, TotalSame
<1> HIDE DEF y
<1>10. Total(g, DOMAIN q \cup {y}) = g[y] + Total(g, DOMAIN q)
  BY <1>1, <1>5, <1>8, TotalAdd
<1>11. Total(g, DOMAIN q) \in Nat /\ g[y] \in Nat
  BY <1>1, <1>8, TotalType
<1>12. Total(g, DOMAIN r) = Total(f, DOMAIN q) + g[y]
  BY <1>5, <1>9, <1>10, <1>11
<1> QED BY <1>6, <1>12 DEF Due, r, f, g

\* A head in progress does not change what is due.
LEMMA DueInProgress ==
  ASSUME NEW q, NEW last, QueueInv(q, last, IncKinds), last < Len(q)
  PROVE  Due(WithStatus(q, last, "InProgress"), last) = Due(q, last)
<1> DEFINE r == WithStatus(q, last, "InProgress")
           f == Waiting(q, last)
           g == Waiting(r, last)
<1>1. /\ Len(q) \in Nat /\ last \in Nat
      /\ DOMAIN q = 1..Len(q) /\ IsFiniteSet(DOMAIN q)
      /\ \A n \in 1..Len(q) :
           f[n] = IF n > last /\ q[n].kind = "deposit" THEN q[n].amount ELSE 0
  BY WaitingAre
<1>2. /\ r \in Seq(Items(IncKinds)) /\ Len(r) = Len(q)
      /\ \A n \in 1..Len(q) : n # last + 1 => r[n] = q[n]
      /\ r[last + 1].kind = q[last + 1].kind
      /\ r[last + 1].amount = q[last + 1].amount
  BY StatusSet, "InProgress" \in Statuses DEF Statuses
<1>3. QueueInv(r, last, IncKinds)
  BY ProgressStep
<1>4. /\ DOMAIN r = 1..Len(r)
      /\ \A n \in 1..Len(r) :
           g[n] = IF n > last /\ r[n].kind = "deposit" THEN r[n].amount ELSE 0
  BY <1>3, WaitingAre
<1> HIDE DEF r, f, g
<1>5. \A n \in DOMAIN q : f[n] = g[n]
  BY <1>1, <1>2, <1>4
<1>6. Total(f, DOMAIN q) = Total(g, DOMAIN q)
  BY <1>1, <1>5, TotalSame
<1> QED BY <1>1, <1>2, <1>4, <1>6 DEF Due, r, f, g

\* A deposit that is settled is not due any more.
LEMMA DueSettled ==
  ASSUME NEW q, NEW last, QueueInv(q, last, IncKinds), last < Len(q),
         NEW status \in Settled
  PROVE  Due(WithStatus(q, last, status), last + 1) =
           Due(q, last)
             - (IF q[last + 1].kind = "deposit" THEN q[last + 1].amount ELSE 0)
<1> DEFINE r == WithStatus(q, last, status)
           f == Waiting(q, last)
           g == Waiting(r, last + 1)
           y == last + 1
<1>1. /\ Len(q) \in Nat /\ last \in Nat
      /\ DOMAIN q = 1..Len(q) /\ IsFiniteSet(DOMAIN q)
      /\ \A n \in 1..Len(q) :
           /\ f[n] = IF n > last /\ q[n].kind = "deposit" THEN q[n].amount ELSE 0
           /\ f[n] \in Nat
  BY WaitingAre
<1>2. /\ r \in Seq(Items(IncKinds)) /\ Len(r) = Len(q)
      /\ \A n \in 1..Len(q) : n # last + 1 => r[n] = q[n]
  BY StatusSet, status \in Statuses DEF Statuses, Settled
<1>3. QueueInv(r, last + 1, IncKinds)
  BY SettledStep
<1>4. /\ DOMAIN r = 1..Len(r)
      /\ \A n \in 1..Len(r) :
           /\ g[n] = IF n > last + 1 /\ r[n].kind = "deposit" THEN r[n].amount ELSE 0
           /\ g[n] \in Nat
  BY <1>3, WaitingAre
<1> HIDE DEF r, f, g
<1>5. /\ y \in DOMAIN q /\ g[y] = 0
      /\ f[y] = IF q[last + 1].kind = "deposit" THEN q[last + 1].amount ELSE 0
  BY <1>1, <1>2, <1>4
<1>6. \A n \in DOMAIN q : f[n] \in Int /\ g[n] \in Int
  BY <1>1, <1>2, <1>4
<1>7. \A n \in DOMAIN q : n # y => g[n] = f[n]
  BY <1>1, <1>2, <1>4
<1>8. /\ Total(f, DOMAIN q) \in Int
      /\ Total(g, DOMAIN q) = Total(f, DOMAIN q) - f[y] + g[y]
  <2> DEFINE D == DOMAIN q
  <2>1. IsFiniteSet(D) /\ y \in D
    BY <1>1, <1>5
  <2>2. \A n \in D : f[n] \in Int /\ g[n] \in Int
    BY <1>6
  <2>3. \A n \in D : n # y => g[n] = f[n]
    BY <1>7
  <2> HIDE DEF D, y
  <2>4. Total(f, D) \in Int /\ Total(g, D) = Total(f, D) - f[y] + g[y]
    BY <2>1, <2>2, <2>3, TotalChange
  <2> QED BY <2>4 DEF D
<1>9. DOMAIN r = DOMAIN q
  BY <1>1, <1>2, <1>4
<1>10. f[y] \in Int /\ g[y] = 0
  BY <1>5, <1>6
<1>11. Total(g, DOMAIN q) = Total(f, DOMAIN q) - f[y]
  BY <1>8, <1>10
<1> QED BY <1>5, <1>9, <1>11 DEF Due, r, f, g, y

------------------------------------------------------------------------------
(* The work to do.                                                         *)

LEMMA HeadFacts ==
  ASSUME CopyInv
  PROVE  /\ Len(inc) \in Nat /\ Len(dec) \in Nat /\ lastInc \in Nat /\ lastDec \in Nat
         /\ HasInc => HeadItem = inc[lastInc + 1] /\ HeadItem \in Items(IncKinds)
         /\ ~HasInc /\ HasDec => HeadItem = dec[lastDec + 1] /\ HeadItem \in Items(DecKinds)
         /\ HasInc \/ HasDec =>
              (RequiresToken(HeadItem) => HeadItem.wallet \in Wallets)
<1>1. /\ inc \in Seq(Items(IncKinds)) /\ dec \in Seq(Items(DecKinds))
      /\ lastInc \in 0..Len(inc) /\ lastDec \in 0..Len(dec)
  BY DEF CopyInv, QueuesInv, QueueInv
<1>2. CASE HasInc
  <2>1. lastInc + 1 \in 1..Len(inc) /\ HeadItem = inc[lastInc + 1]
    BY <1>1, <1>2 DEF HasInc, HeadItem
  <2>2. HeadItem \in Items(IncKinds)
    BY <1>1, <2>1, ElementOfSeq
  <2> QED BY <1>1, <1>2, <2>1, <2>2 DEF CopyInv, QueuesInv, QueueInv
<1>3. CASE ~HasInc /\ HasDec
  <2>1. lastDec + 1 \in 1..Len(dec) /\ HeadItem = dec[lastDec + 1]
    BY <1>1, <1>3 DEF HasDec, HeadItem
  <2>2. HeadItem \in Items(DecKinds)
    BY <1>1, <2>1, ElementOfSeq
  <2> QED BY <1>1, <1>3, <2>1, <2>2 DEF CopyInv, QueuesInv, QueueInv
<1> QED BY <1>1, <1>2, <1>3

LEMMA CurrentFor ==
  /\ Current[1] \in {"inc", "dec"}
  /\ Current # <<"unset", 0>> /\ Outdated # <<"unset", 0>>
  /\ Outdated[1] = "outdated"
<1>1. CASE HasInc
  BY <1>1 DEF Current, Outdated
<1>2. CASE ~HasInc
  BY <1>2 DEF Current, Outdated
<1> QED BY <1>1, <1>2

\* A request that is in progress waits for its result, one that is processed
\* has not been in progress.
LEMMA WorkFacts ==
  ASSUME CopyInv
  PROVE  /\ Work = "process" =>
              /\ HasInc \/ HasDec
              /\ HeadItem.status # "InProgress"
              /\ RequiresToken(HeadItem) => lpValue.for = Current /\ slot = NoExec
         /\ Work = "compute" => slot = NoExec
         /\ Work = "rebalance" => Gap > 0
         /\ Work = "handle" =>
              /\ HasInc \/ HasDec
              /\ slot # NoExec /\ execs[slot].status # "pending"
         /\ Work \in {"compute", "process", "handle"} => HasInc \/ HasDec
<1>1. CheckBalanceWork = "rebalance" => Gap > 0
  <2>1. Gap \in Int /\ Tolerance \in Nat
    BY CopyNumbers DEF CopyInv, BooksInv, Gap, Booked
  <2> QED BY <2>1 DEF CheckBalanceWork
<1>2. CheckBalanceWork \in {"compute", "reset", "error", "rebalance"}
  BY DEF CheckBalanceWork
<1>3. /\ DeferredWork \in {"error", "none", "handle"}
      /\ DeferredWork = "handle" => execs[slot].status # "pending"
  BY DEF DeferredWork
<1>4. HeadItem.status = "InProgress" /\ (HasInc \/ HasDec) => slot # NoExec
  BY HeadFacts DEF CopyInv, SlotInv, Busy, HasInc, HasDec
<1>5. lpValue = NoValue => slot = NoExec
  BY DEF CopyInv, ValueInv
<1>6. lpValue.for = Current => slot = NoExec
  BY CurrentFor DEF CopyInv, ValueInv
<1>7. CASE ~HasInc /\ ~HasDec
  BY <1>7 DEF Work
<1>8. CASE (HasInc \/ HasDec) /\ RequiresToken(HeadItem)
  <2>1. Work = TokenWork
    BY <1>8 DEF Work
  <2>2. CASE lpValue = NoValue
    BY <1>1, <1>2, <1>5, <1>8, <2>1, <2>2 DEF TokenWork
  <2>3. CASE lpValue # NoValue /\ lpValue.for = Current
    BY <1>4, <1>6, <1>8, <2>1, <2>3 DEF TokenWork
  <2>4. CASE lpValue # NoValue /\ lpValue.for # Current /\ slot # NoExec
    BY <1>3, <1>8, <2>1, <2>4 DEF TokenWork
  <2>5. CASE lpValue # NoValue /\ lpValue.for # Current /\ slot = NoExec
    BY <1>1, <1>2, <1>8, <2>1, <2>5 DEF TokenWork
  <2> QED BY <2>2, <2>3, <2>4, <2>5
<1>9. CASE (HasInc \/ HasDec) /\ ~RequiresToken(HeadItem)
  <2>1. Work = MarketWork
    BY <1>9 DEF Work
  <2>2. CASE HeadItem.status = "InProgress" /\ slot # NoExec
    BY <1>3, <1>9, <2>1, <2>2 DEF MarketWork
  <2>3. CASE ~(HeadItem.status = "InProgress" /\ slot # NoExec)
    BY <1>4, <1>9, <2>1, <2>3 DEF MarketWork
  <2> QED BY <2>2, <2>3
<1> QED BY <1>7, <1>8, <1>9
------------------------------------------------------------------------------
(* Amounts and shares.                                                     *)

LEMMA OnChainAtMost ==
  ASSUME NEW x \in Nat
  PROVE  OnChain(x) \in Nat /\ OnChain(x) <= x
<1>1. Unit \in Nat /\ Unit > 0
  BY CopyNumbers
<1>2. x \div Unit \in Nat /\ (x \div Unit) * Unit <= x
  BY <1>1
<1>3. (x \div Unit) * Unit \in Nat
  BY <1>1, <1>2
<1> QED BY <1>2, <1>3 DEF OnChain

LEMMA QuotientOfProduct ==
  ASSUME NEW a \in Nat, NEW b \in Nat, NEW c \in Nat, c > 0
  PROVE  /\ (a * b) \div c \in Nat
         /\ a <= c => (a * b) \div c <= b
<1>1. a * b \in Nat /\ c * b \in Nat
  OBVIOUS
<1>2. (a * b) \div c \in Nat
  BY <1>1
<1>3. ASSUME a <= c PROVE a * b <= c * b
  BY <1>3
<1>4. (c * b) \div c = b
  OBVIOUS
<1>5. ASSUME NEW x \in Nat, NEW y \in Nat, x <= y PROVE x \div c <= y \div c
  BY <1>5
<1> QED BY <1>1, <1>2, <1>3, <1>4, <1>5

\* The commission is at most what came in.
LEMMA CommissionAtMost ==
  ASSUME NEW gap \in Nat, NEW c \in 0..Mul(Rate, gap)
  PROVE  c \in Nat /\ c <= gap
<1>1. Mul(Rate, gap) \in Nat /\ Mul(Rate, gap) <= gap
  BY CopyNumbers, QuotientOfProduct DEF Mul
<1> QED BY <1>1

LEMMA SharesChange ==
  ASSUME NEW s \in [Wallets -> Nat], NEW w \in Wallets, NEW v \in Nat
  PROVE  /\ [s EXCEPT ![w] = v] \in [Wallets -> Nat]
         /\ Total(s, Wallets) \in Nat
         /\ s[w] \in Nat /\ s[w] <= Total(s, Wallets)
         /\ Total([s EXCEPT ![w] = v], Wallets) = Total(s, Wallets) - s[w] + v
<1> DEFINE t == [s EXCEPT ![w] = v]
<1>1. /\ t \in [Wallets -> Nat] /\ t[w] = v
      /\ \A i \in Wallets : s[i] \in Int /\ t[i] \in Int
      /\ \A i \in Wallets : s[i] \in Nat
      /\ \A i \in Wallets : i # w => t[i] = s[i]
  OBVIOUS
<1> HIDE DEF t
<1>2. IsFiniteSet(Wallets)
  BY CopyNumbers
<1>3. Total(t, Wallets) = Total(s, Wallets) - s[w] + t[w]
  BY <1>1, <1>2, TotalChange
<1>4. Total(s, Wallets) \in Nat /\ s[w] <= Total(s, Wallets)
  BY <1>1, <1>2, TotalType, TotalBound
<1> QED BY <1>1, <1>3, <1>4 DEF t

------------------------------------------------------------------------------
(* The head is settled.                                                    *)

LEMMA SettleQueues ==
  ASSUME CopyInv, NEW status \in Settled, Settle(status), HasInc \/ HasDec
  PROVE  /\ QueuesInv'
         /\ HasInc => ~Busy(inc, lastInc)' /\ (Busy(dec, lastDec)' <=> Busy(dec, lastDec))
         /\ ~HasInc => ~Busy(inc, lastInc)' /\ ~Busy(dec, lastDec)'
         /\ Due(inc, lastInc)' =
              Due(inc, lastInc)
                - (IF HeadItem.kind = "deposit" THEN HeadItem.amount ELSE 0)
<1>0. QueueInv(inc, lastInc, IncKinds) /\ QueueInv(dec, lastDec, DecKinds)
  BY DEF CopyInv, QueuesInv
<1>1. CASE HasInc
  <2>1. /\ inc' = WithStatus(inc, lastInc, status) /\ lastInc' = lastInc + 1
        /\ dec' = dec /\ lastDec' = lastDec /\ lastInc < Len(inc)
    BY <1>1 DEF Settle, SettleInc, WithStatus, HasInc
  <2>2. QueueInv(inc', lastInc', IncKinds) /\ ~Busy(inc', lastInc')
    BY <1>0, <2>1, SettledStep
  <2>3. Due(inc', lastInc') =
          Due(inc, lastInc)
            - (IF HeadItem.kind = "deposit" THEN HeadItem.amount ELSE 0)
    BY <1>0, <1>1, <2>1, DueSettled, HeadFacts
  <2> QED BY <1>0, <1>1, <2>1, <2>2, <2>3 DEF QueuesInv, Busy, Due
<1>2. CASE ~HasInc
  <2>1. /\ dec' = WithStatus(dec, lastDec, status) /\ lastDec' = lastDec + 1
        /\ inc' = inc /\ lastInc' = lastInc /\ lastDec < Len(dec)
    BY <1>2 DEF Settle, SettleDec, WithStatus, HasDec
  <2>2. QueueInv(dec', lastDec', DecKinds) /\ ~Busy(dec', lastDec')
    BY <1>0, <2>1, SettledStep
  <2>3. ~Busy(inc', lastInc')
    BY <1>2, <2>1 DEF Busy, HasInc
  <2>4. HeadItem.kind # "deposit"
    BY <1>2, HeadFacts DEF Items, DecKinds
  <2>5. Due(inc, lastInc) \in Nat
    BY <1>0, DueType
  <2> QED BY <1>0, <1>2, <2>1, <2>2, <2>3, <2>4, <2>5 DEF QueuesInv, Busy, Due
<1> QED BY <1>1, <1>2

\* Whether it was in progress and the slot is freed, or it was not.
LEMMA SettleSlot ==
  ASSUME CopyInv, NEW status \in Settled, Settle(status), HasInc \/ HasDec,
         \/ HeadItem.status # "InProgress" /\ slot' = slot
         \/ HeadItem.status = "InProgress" /\ slot' = NoExec
  PROVE  SlotInv'
<1>1. CASE HasInc
  <2>1. ~Busy(inc, lastInc)' /\ (Busy(dec, lastDec)' <=> Busy(dec, lastDec))
    BY <1>1, SettleQueues
  <2>2. Busy(inc, lastInc) <=> HeadItem.status = "InProgress"
    BY <1>1, HeadFacts DEF Busy, HasInc
  <2> QED BY <2>1, <2>2 DEF CopyInv, SlotInv, NoExec
<1>2. CASE ~HasInc
  <2>1. ~Busy(inc, lastInc)' /\ ~Busy(dec, lastDec)'
    BY <1>2, SettleQueues
  <2>2. Busy(dec, lastDec) <=> HeadItem.status = "InProgress"
    BY <1>2, HeadFacts DEF Busy, HasDec
  <2>3. ~Busy(inc, lastInc)
    BY <1>2 DEF Busy, HasInc
  <2> QED BY <2>1, <2>2, <2>3 DEF CopyInv, SlotInv, NoExec
<1> QED BY <1>1, <1>2
------------------------------------------------------------------------------
(* The steps.                                                              *)

LEMMA CopyInit == Init => CopyInv
<1> SUFFICES ASSUME Init PROVE CopyInv
  OBVIOUS
<1>1. QueuesInv
  BY DEF Init, QueuesInv, QueueInv
<1>2. SlotInv
  BY DEF Init, SlotInv, Busy
<1>3. lpValue \in Values /\ lpValue.for[1] = "unset"
  BY DEF Init, Values, NoValue
<1>4. ValueInv
  BY <1>3 DEF Init, ValueInv, NoExec
<1>5. PendingIsQueued
  <2>1. DOMAIN inc = {}
    BY DEF Init
  <2>2. Total(Waiting(inc, lastInc), {}) = 0
    BY FS_EmptySet, TotalChosen
  <2> QED BY <2>1, <2>2 DEF PendingIsQueued, Init
<1>6. SharesAddUp
  <2>1. \A w \in Wallets : shares[w] = 0
    BY DEF Init
  <2>2. Total(shares, Wallets) = 0
    BY <2>1, CopyNumbers, TotalZero
  <2> QED BY <2>2 DEF SharesAddUp, Init
<1>7. BalanceCovers
  BY DEF Init, BalanceCovers, Booked
<1> QED BY <1>1, <1>2, <1>4, <1>5, <1>6, <1>7 DEF CopyInv, BooksInv, Init

\* Values and slot stay the same.
LEMMA SameValue ==
  ASSUME ValueInv, UNCHANGED <<lpValue, slot, execs, valuedAt>>
  PROVE  ValueInv'
BY DEF ValueInv, NoValue, NoExec, Values, Execs

LEMMA DepositStep ==
  ASSUME CopyInv, NEW w \in Wallets, NEW x \in Deposits, Deposit(w, x)
  PROVE  CopyInv'
<1> DEFINE it == Item("deposit", x, w)
<1>1. x \in Nat
  BY CopyNumbers
<1>2. /\ it \in Items(IncKinds) /\ it.status = "NotProcessed" /\ it.wallet \in Wallets
      /\ it.kind = "deposit" /\ it.amount = x
  BY <1>1 DEF Items, Item, IncKinds, Statuses
<1> HIDE DEF it
<1>3. inc' = Append(inc, it)
  BY DEF Deposit, it
<1>4. QueueInv(inc, lastInc, IncKinds) /\ QueueInv(dec, lastDec, DecKinds)
  BY DEF CopyInv, QueuesInv
<1>5. /\ QueueInv(inc', lastInc, IncKinds)
      /\ Busy(inc', lastInc) <=> Busy(inc, lastInc)
  BY <1>2, <1>3, <1>4, AppendStep
<1>6. Due(inc', lastInc) = Due(inc, lastInc) + x
  BY <1>2, <1>3, <1>4, <1>5, DueAppended
<1>7. QueuesInv'
  BY <1>4, <1>5 DEF QueuesInv, Deposit
<1>8. SlotInv'
  BY <1>5 DEF CopyInv, SlotInv, Deposit, Busy
<1>9. ValueInv'
  BY SameValue DEF CopyInv, Deposit, marketVars
<1>10. PendingIsQueued'
  BY <1>6 DEF CopyInv, PendingIsQueued, Deposit, Due
<1>11. BooksInv'
  BY <1>1 DEF CopyInv, BooksInv, Deposit, marketVars, BalanceCovers, Booked, SharesAddUp
<1> QED BY <1>7, <1>8, <1>9, <1>10, <1>11 DEF CopyInv

\* A request of the other queue, or of the leader.
LEMMA IncreaseStep ==
  ASSUME CopyInv, NEW kind \in {"close", "remove"}, LeaderIncrease(kind)
  PROVE  CopyInv'
<1> DEFINE it == Item(kind, 0, NoWallet)
<1>1. /\ it \in Items(IncKinds) /\ it.status = "NotProcessed" /\ it.kind = kind
      /\ ~RequiresToken(it)
  BY DEF Items, Item, IncKinds, Statuses, RequiresToken
<1> HIDE DEF it
<1>3. inc' = Append(inc, it)
  BY DEF LeaderIncrease, it
<1>4. QueueInv(inc, lastInc, IncKinds) /\ QueueInv(dec, lastDec, DecKinds)
  BY DEF CopyInv, QueuesInv
<1>5. /\ QueueInv(inc', lastInc, IncKinds)
      /\ Busy(inc', lastInc) <=> Busy(inc, lastInc)
  BY <1>1, <1>3, <1>4, AppendStep
<1>6. Due(inc', lastInc) = Due(inc, lastInc)
  BY <1>1, <1>3, <1>4, <1>5, DueAppended, DueType
<1>7. QueuesInv'
  BY <1>4, <1>5 DEF QueuesInv, LeaderIncrease
<1>8. SlotInv'
  BY <1>5 DEF CopyInv, SlotInv, LeaderIncrease, Busy
<1>9. ValueInv'
  BY SameValue DEF CopyInv, LeaderIncrease, marketVars
<1>10. PendingIsQueued'
  BY <1>6 DEF CopyInv, PendingIsQueued, LeaderIncrease, Due
<1>11. BooksInv'
  BY DEF CopyInv, BooksInv, LeaderIncrease, marketVars, BalanceCovers, Booked, SharesAddUp
<1> QED BY <1>7, <1>8, <1>9, <1>10, <1>11 DEF CopyInv

LEMMA DecreaseStep ==
  ASSUME CopyInv, NEW it \in Items(DecKinds), it.status = "NotProcessed",
         RequiresToken(it) => it.wallet \in Wallets,
         dec' = Append(dec, it),
         UNCHANGED <<inc, lastInc, lastDec, totals, shares, pending, lpValue, stats,
                     slot, commission, balance, execs, active, valuedAt>>
  PROVE  CopyInv'
<1>1. QueueInv(inc, lastInc, IncKinds) /\ QueueInv(dec, lastDec, DecKinds)
  BY DEF CopyInv, QueuesInv
<1>2. /\ QueueInv(dec', lastDec, DecKinds)
      /\ Busy(dec', lastDec) <=> Busy(dec, lastDec)
  BY <1>1, AppendStep
<1>3. QueuesInv'
  BY <1>1, <1>2 DEF QueuesInv
<1>4. SlotInv'
  BY <1>2 DEF CopyInv, SlotInv, Busy
<1>5. ValueInv'
  BY SameValue DEF CopyInv
<1>6. PendingIsQueued'
  BY DEF CopyInv, PendingIsQueued
<1>7. BooksInv'
  BY DEF CopyInv, BooksInv, BalanceCovers, Booked, SharesAddUp
<1> QED BY <1>3, <1>4, <1>5, <1>6, <1>7 DEF CopyInv

LEMMA WithdrawStep ==
  ASSUME CopyInv, NEW w \in Wallets, NEW s \in Redeems, Withdraw(w, s)
  PROVE  CopyInv'
<1> DEFINE it == Item("withdraw", s, w)
<1>1. /\ it \in Items(DecKinds) /\ it.status = "NotProcessed"
      /\ RequiresToken(it) => it.wallet \in Wallets
  BY CopyNumbers DEF Items, Item, DecKinds, Statuses
<1> QED BY <1>1, DecreaseStep DEF Withdraw, marketVars

LEMMA LeaderDecreaseStep ==
  ASSUME CopyInv, NEW kind \in {"open", "update"}, NEW x \in Nat, LeaderDecrease(kind, x)
  PROVE  CopyInv'
<1> DEFINE it == Item(kind, x, NoWallet)
<1>1. /\ it \in Items(DecKinds) /\ it.status = "NotProcessed"
      /\ RequiresToken(it) => it.wallet \in Wallets
  BY DEF Items, Item, DecKinds, Statuses, RequiresToken
<1> QED BY <1>1, DecreaseStep DEF LeaderDecrease, marketVars

\* The requests and the market's results stand still, the books change.
LEMMA SameQueues ==
  ASSUME QueuesInv, SlotInv, UNCHANGED <<inc, dec, lastInc, lastDec, slot>>
  PROVE  QueuesInv' /\ SlotInv'
BY DEF QueuesInv, SlotInv, Busy, QueueInv

LEMMA LeaderWithdrawalStep ==
  ASSUME CopyInv, LeaderWithdrawal
  PROVE  CopyInv'
<1>1. QueuesInv' /\ SlotInv' /\ ValueInv' /\ PendingIsQueued'
  BY SameQueues, SameValue
     DEF CopyInv, LeaderWithdrawal, queueVars, marketVars, PendingIsQueued
<1>2. commission.unclaimed \in Nat /\ commission.claimed \in Nat
  BY DEF CopyInv, BooksInv
<1>3. OnChain(commission.unclaimed) \in Nat
      /\ OnChain(commission.unclaimed) <= commission.unclaimed
  BY <1>2, OnChainAtMost
<1>4. BooksInv'
  BY <1>2, <1>3 DEF CopyInv, BooksInv, LeaderWithdrawal, marketVars, BalanceCovers,
     Booked, SharesAddUp
<1> QED BY <1>1, <1>4 DEF CopyInv

LEMMA ResetStatsStep ==
  ASSUME CopyInv, ResetStats
  PROVE  CopyInv'
<1>1. QueuesInv' /\ SlotInv' /\ ValueInv' /\ PendingIsQueued'
  BY SameQueues, SameValue
     DEF CopyInv, ResetStats, queueVars, marketVars, PendingIsQueued
<1>2. BooksInv'
  BY DEF CopyInv, BooksInv, ResetStats, marketVars, BalanceCovers, Booked, SharesAddUp
<1> QED BY <1>1, <1>2 DEF CopyInv

LEMMA ShareValueType ==
  ASSUME CopyInv
  PROVE  ShareValue \in Nat
<1>1. totals.collateral \in Nat /\ totals.shares \in Nat /\ active \in Nat
  BY DEF CopyInv, BooksInv
<1>2. CASE totals.shares = 0 \/ totals.collateral + active = 0
  BY <1>2, CopyNumbers DEF ShareValue
<1>3. CASE totals.shares # 0 /\ totals.collateral + active # 0
  BY <1>1, <1>3, CopyNumbers, QuotientOfProduct DEF ShareValue, Div
<1> QED BY <1>2, <1>3

LEMMA ComputeStep ==
  ASSUME CopyInv, ComputeLpTokenValue
  PROVE  CopyInv'
<1>1. QueuesInv' /\ SlotInv' /\ PendingIsQueued'
  BY SameQueues
     DEF CopyInv, ComputeLpTokenValue, queueVars, marketVars, PendingIsQueued
<1>2. slot = NoExec
  BY WorkFacts DEF ComputeLpTokenValue
<1>3. Current \in {"unset", "outdated", "inc", "dec"} \X Nat
  BY HeadFacts DEF Current
<1>4. One \in Nat /\ ShareValue \in Nat
  BY CopyNumbers, ShareValueType
<1>5. lpValue' \in Values /\ lpValue'.for = Current
  BY <1>3, <1>4 DEF ComputeLpTokenValue, Values
<1>6. lpValue' # NoValue
  BY <1>5, CurrentFor DEF NoValue
<1>7. ValueInv'
  BY <1>2, <1>5, <1>6 DEF CopyInv, ValueInv, ComputeLpTokenValue, NoExec, NoValue, Values, Execs
<1>8. BooksInv'
  BY DEF CopyInv, BooksInv, ComputeLpTokenValue, BalanceCovers, Booked, SharesAddUp
<1> QED BY <1>1, <1>7, <1>8 DEF CopyInv

LEMMA RebalanceStep ==
  ASSUME CopyInv, Rebalance
  PROVE  CopyInv'
<1>1. QueuesInv' /\ SlotInv' /\ ValueInv' /\ PendingIsQueued'
  BY SameQueues, SameValue
     DEF CopyInv, Rebalance, queueVars, marketVars, PendingIsQueued
<1>2. Gap > 0 /\ Gap \in Int
  BY WorkFacts DEF Rebalance, CopyInv, BooksInv, Gap, Booked
<1>3. PICK c \in 0..Mul(Rate, Gap) :
        /\ commission' = [commission EXCEPT !.unclaimed = @ + c]
        /\ totals' = [totals EXCEPT !.collateral = @ + Gap - c]
  BY DEF Rebalance
<1>4. c \in Nat /\ c <= Gap
  BY <1>2, CommissionAtMost
<1>5. /\ totals \in [collateral : Nat, shares : Nat]
      /\ commission \in [unclaimed : Nat, claimed : Nat]
  BY DEF CopyInv, BooksInv
<1>6. /\ totals' \in [collateral : Nat, shares : Nat] /\ totals'.shares = totals.shares
      /\ totals'.collateral = totals.collateral + Gap - c
      /\ commission' \in [unclaimed : Nat, claimed : Nat]
      /\ commission'.unclaimed = commission.unclaimed + c
  BY <1>2, <1>3, <1>4, <1>5
<1>7. UNCHANGED <<shares, pending, stats, balance, active>>
  BY DEF Rebalance, marketVars
<1>8. BalanceCovers'
  BY <1>2, <1>4, <1>5, <1>6, <1>7 DEF CopyInv, BooksInv, BalanceCovers, Booked, Gap
<1>9. SharesAddUp'
  BY <1>6, <1>7 DEF CopyInv, BooksInv, SharesAddUp
<1>10. BooksInv'
  BY <1>6, <1>7, <1>8, <1>9 DEF CopyInv, BooksInv
<1> QED BY <1>1, <1>10 DEF CopyInv
LEMMA ProcessDepositStep ==
  ASSUME CopyInv, ProcessDeposit
  PROVE  CopyInv'
<1>1. /\ HasInc \/ HasDec
      /\ HeadItem.status # "InProgress"
      /\ HeadItem.kind = "deposit" /\ Settle("Finished") /\ "Finished" \in Settled
      /\ UNCHANGED <<lpValue, stats, slot, commission, balance, execs, active, valuedAt>>
  BY WorkFacts DEF ProcessDeposit, Settled, marketVars
<1>2. HeadItem \in Items(IncKinds)
  BY <1>1, HeadFacts DEF Items, DecKinds
<1>3. HeadItem.amount \in Nat /\ HeadItem.wallet \in Wallets
  BY <1>1, <1>2, HeadFacts DEF Items, RequiresToken
<1>4. /\ QueuesInv' /\ SlotInv'
      /\ Due(inc, lastInc)' = Due(inc, lastInc) - HeadItem.amount
  BY <1>1, SettleQueues, SettleSlot, WorkFacts DEF ProcessDeposit
<1>5. ValueInv'
  BY <1>1, SameValue DEF CopyInv
<1>6. /\ totals \in [collateral : Nat, shares : Nat] /\ shares \in [Wallets -> Nat]
      /\ pending = Due(inc, lastInc) /\ pending \in Nat
      /\ lpValue.value \in Nat
  BY DEF CopyInv, BooksInv, PendingIsQueued, Due, ValueInv, Values
<1>7. Due(inc, lastInc)' \in Nat
  BY <1>4, DueType DEF QueuesInv, Due
<1>8. NewShares(HeadItem) \in Nat
  BY <1>3, <1>6, CopyNumbers, QuotientOfProduct DEF NewShares, Div, ProcessDeposit
<1> DEFINE w == HeadItem.wallet
           n == NewShares(HeadItem)
<1>9. /\ totals' = [collateral |-> totals.collateral + HeadItem.amount,
                    shares |-> totals.shares + n]
      /\ shares' = [shares EXCEPT ![w] = shares[w] + n]
      /\ pending' = pending - HeadItem.amount
  BY DEF ProcessDeposit
<1>10. PendingIsQueued' /\ pending' \in Nat
  BY <1>4, <1>6, <1>7, <1>9 DEF PendingIsQueued, Due
<1>11. w \in Wallets /\ n \in Nat /\ shares[w] \in Nat
  BY <1>3, <1>6, <1>8
<1> HIDE DEF w, n
<1>12. /\ shares' \in [Wallets -> Nat] /\ Total(shares, Wallets) \in Nat
       /\ Total(shares', Wallets) = Total(shares, Wallets) + n
  <2> DEFINE v == shares[w] + n
  <2>1. v \in Nat /\ shares' = [shares EXCEPT ![w] = v]
    BY <1>9, <1>11
  <2> HIDE DEF v
  <2>2. shares \in [Wallets -> Nat] /\ w \in Wallets
    BY <1>6, <1>11
  <2>3. /\ shares' \in [Wallets -> Nat] /\ Total(shares, Wallets) \in Nat
        /\ Total(shares', Wallets) = Total(shares, Wallets) - shares[w] + v
    BY <2>1, <2>2, SharesChange
  <2> QED BY <1>11, <2>3 DEF v
<1>13. SharesAddUp'
  BY <1>9, <1>11, <1>12 DEF CopyInv, BooksInv, SharesAddUp
<1>14. BalanceCovers'
  BY <1>1, <1>3, <1>6, <1>9 DEF CopyInv, BooksInv, BalanceCovers, Booked
<1>15. totals' \in [collateral : Nat, shares : Nat]
  BY <1>3, <1>6, <1>9, <1>11
<1>16. BooksInv'
  BY <1>1, <1>10, <1>12, <1>13, <1>14, <1>15 DEF CopyInv, BooksInv
<1> QED BY <1>4, <1>5, <1>10, <1>16 DEF CopyInv

LEMMA ProcessWithdrawalStep ==
  ASSUME CopyInv, ProcessWithdrawal
  PROVE  CopyInv'
<1> DEFINE w == HeadItem.wallet
           n == HeadItem.amount
           funds == Mul(lpValue.value, HeadItem.amount)
<1>1. /\ HasInc \/ HasDec
      /\ HeadItem.status # "InProgress"
      /\ HeadItem.kind = "withdraw"
      /\ UNCHANGED <<pending, lpValue, stats, slot, commission, execs, active, valuedAt>>
  BY WorkFacts DEF ProcessWithdrawal, marketVars
<1>2. HeadItem \in Items(DecKinds) /\ HeadItem.kind # "deposit"
  BY <1>1, HeadFacts DEF Items, IncKinds
<1>3. n \in Nat /\ w \in Wallets
  BY <1>1, <1>2, HeadFacts DEF Items, RequiresToken
<1>4. PICK status \in Settled : Settle(status)
  BY DEF ProcessWithdrawal, Settled
<1>5. Due(inc, lastInc) \in Nat
  BY DueType DEF CopyInv, QueuesInv
<1>6. QueuesInv' /\ SlotInv' /\ Due(inc, lastInc)' = Due(inc, lastInc)
  BY <1>1, <1>2, <1>4, <1>5, SettleQueues, SettleSlot, WorkFacts DEF ProcessWithdrawal
<1>7. ValueInv' /\ PendingIsQueued'
  BY <1>1, <1>6, SameValue DEF CopyInv, PendingIsQueued, Due
<1>8. /\ totals \in [collateral : Nat, shares : Nat] /\ shares \in [Wallets -> Nat]
      /\ totals.collateral \in Nat /\ totals.shares \in Nat
      /\ pending \in Nat /\ balance \in Nat /\ lpValue.value \in Nat
      /\ commission \in [unclaimed : Nat, claimed : Nat] /\ commission.unclaimed \in Nat
      /\ shares[w] \in Nat
  BY <1>3 DEF CopyInv, BooksInv, ValueInv, Values
<1>9. funds \in Nat
  BY <1>3, <1>8, CopyNumbers, QuotientOfProduct DEF Mul
<1>10. CASE WithdrawalFails(HeadItem, funds)
  <2>1. UNCHANGED <<totals, shares, balance>>
    BY <1>10 DEF ProcessWithdrawal
  <2>2. BooksInv'
    BY <1>1, <2>1 DEF CopyInv, BooksInv, BalanceCovers, Booked, SharesAddUp
  <2> QED BY <1>6, <1>7, <2>2 DEF CopyInv
<1>11. CASE ~WithdrawalFails(HeadItem, funds)
  <2>1. n <= shares[w] /\ funds <= totals.collateral
    BY <1>3, <1>8, <1>9, <1>11 DEF WithdrawalFails
  <2>2. /\ totals' = [collateral |-> totals.collateral - funds,
                      shares |-> totals.shares - n]
        /\ shares' = [shares EXCEPT ![w] = shares[w] - n]
        /\ balance' = balance - OnChain(funds)
    BY <1>11 DEF ProcessWithdrawal
  <2> HIDE DEF w, n, funds
  <2>3. shares[w] - n \in Nat
    BY <1>3, <1>8, <2>1
  <2>4. /\ shares' \in [Wallets -> Nat] /\ Total(shares, Wallets) \in Nat
        /\ Total(shares', Wallets) = Total(shares, Wallets) - n
        /\ shares[w] <= Total(shares, Wallets)
    <3> DEFINE v == shares[w] - n
    <3>1. v \in Nat /\ shares' = [shares EXCEPT ![w] = v]
      BY <2>2, <2>3
    <3> HIDE DEF v
    <3>2. shares \in [Wallets -> Nat] /\ w \in Wallets
      BY <1>3, <1>8
    <3>3. /\ shares' \in [Wallets -> Nat] /\ Total(shares, Wallets) \in Nat
          /\ Total(shares', Wallets) = Total(shares, Wallets) - shares[w] + v
          /\ shares[w] <= Total(shares, Wallets)
      BY <3>1, <3>2, SharesChange
    <3> QED BY <1>3, <1>8, <3>3 DEF v
  <2>5. totals.shares = Total(shares, Wallets)
    BY DEF CopyInv, BooksInv, SharesAddUp
  <2>6. totals' \in [collateral : Nat, shares : Nat]
    BY <1>3, <1>8, <1>9, <2>1, <2>2, <2>4, <2>5
  <2>7. SharesAddUp'
    BY <2>2, <2>4, <2>5 DEF SharesAddUp
  <2>8. OnChain(funds) \in Nat /\ OnChain(funds) <= funds
    BY <1>9, OnChainAtMost
  <2>9. totals.collateral + pending + commission.unclaimed <= balance
    BY DEF CopyInv, BooksInv, BalanceCovers, Booked
  <2>10. balance' \in Nat
    BY <1>8, <1>9, <2>1, <2>2, <2>8, <2>9
  <2>11. BalanceCovers'
    BY <1>1, <1>8, <1>9, <2>1, <2>2, <2>8, <2>9 DEF BalanceCovers, Booked
  <2>12. BooksInv'
    BY <1>1, <2>4, <2>6, <2>7, <2>10, <2>11 DEF CopyInv, BooksInv
  <2> QED BY <1>6, <1>7, <2>12 DEF CopyInv
<1> QED BY <1>10, <1>11

\* At most what was taken from the totals is given back.
LEMMA CostFacts ==
  ASSUME NEW item, item.amount \in Nat
  PROVE  /\ Cost(item) \in Nat /\ Returned(item) \in Nat
         /\ Returned(item) <= Cost(item)
<1>1. CASE item.kind = "open"
  <2>1. SendsCollateral(item) /\ ~PaysCrankFee(item)
    BY <1>1 DEF SendsCollateral, PaysCrankFee
  <2>2. Cost(item) = item.amount /\ Returned(item) = item.amount
    BY <1>1, <2>1 DEF Cost, Returned
  <2> QED BY <2>2
<1>2. CASE item.kind \in {"remove", "update"}
  <2>1. ~SendsCollateral(item) /\ PaysCrankFee(item)
    BY <1>2 DEF SendsCollateral, PaysCrankFee
  <2>2. Cost(item) = CrankFee /\ Returned(item) = 0
    BY <1>2, <2>1 DEF Cost, Returned
  <2> QED BY <2>2, CopyNumbers
<1>3. CASE item.kind \notin {"open", "remove", "update"}
  <2>1. ~SendsCollateral(item) /\ ~PaysCrankFee(item)
    BY <1>3 DEF SendsCollateral, PaysCrankFee
  <2>2. Cost(item) = 0 /\ Returned(item) = 0
    BY <1>3, <2>1 DEF Cost, Returned
  <2> QED BY <2>2
<1> QED BY <1>1, <1>2, <1>3

\* A request for a market is neither a deposit nor a withdrawal.
LEMMA MarketItemFacts ==
  ASSUME CopyInv, Processable
  PROVE  /\ HasInc \/ HasDec
         /\ HeadItem.status # "InProgress" /\ HeadItem.kind # "deposit"
         /\ HeadItem.kind \in IncKinds \cup DecKinds /\ HeadItem.amount \in Nat
         /\ Cost(HeadItem) \in Nat /\ Returned(HeadItem) \in Nat
         /\ Returned(HeadItem) <= Cost(HeadItem)
<1>1. /\ HasInc \/ HasDec
      /\ HeadItem.status # "InProgress" /\ HeadItem.kind # "deposit"
  BY WorkFacts DEF Processable, RequiresToken
<1>2. HeadItem.kind \in IncKinds \cup DecKinds /\ HeadItem.amount \in Nat
  BY <1>1, HeadFacts DEF Items
<1> QED BY <1>1, <1>2, CostFacts

\* The head of a market request is settled, and the slot is not touched.
LEMMA SettledMarketItem ==
  ASSUME CopyInv, NEW status \in Settled, Settle(status), HasInc \/ HasDec,
         HeadItem.kind # "deposit", pending' = pending,
         \/ HeadItem.status # "InProgress" /\ slot' = slot
         \/ HeadItem.status = "InProgress" /\ slot' = NoExec
  PROVE  QueuesInv' /\ SlotInv' /\ PendingIsQueued'
<1>1. Due(inc, lastInc) \in Nat
  BY DueType DEF CopyInv, QueuesInv
<1>2. QueuesInv' /\ SlotInv' /\ Due(inc, lastInc)' = Due(inc, lastInc)
  BY <1>1, SettleQueues, SettleSlot
<1> QED BY <1>2 DEF CopyInv, PendingIsQueued, Due

LEMMA UnaffordableStep ==
  ASSUME CopyInv, MarketItemUnaffordable
  PROVE  CopyInv'
<1>1. QueuesInv' /\ SlotInv' /\ PendingIsQueued'
  BY MarketItemFacts, SettledMarketItem DEF MarketItemUnaffordable, Settled
<1>2. ValueInv'
  BY SameValue DEF CopyInv, MarketItemUnaffordable, marketVars
<1>3. BooksInv'
  BY DEF CopyInv, BooksInv, MarketItemUnaffordable, marketVars, BalanceCovers, Booked,
     SharesAddUp
<1> QED BY <1>1, <1>2, <1>3 DEF CopyInv

\* A value that is outdated is for no request.
LEMMA OutdatedValue ==
  ASSUME CopyInv, lpValue' = [lpValue EXCEPT !.for = Outdated]
  PROVE  /\ lpValue' \in Values /\ lpValue' # NoValue
         /\ lpValue'.for[1] = "outdated"
<1>1. lpValue \in Values
  BY DEF CopyInv, ValueInv
<1>2. Outdated \in {"unset", "outdated", "inc", "dec"} \X Nat
  BY DEF Outdated
<1>3. lpValue' \in Values /\ lpValue'.for = Outdated
  BY <1>1, <1>2 DEF Values
<1> QED BY <1>3, CurrentFor DEF NoValue

LEMMA RejectedStep ==
  ASSUME CopyInv, MarketItemRejected
  PROVE  CopyInv'
<1>1. /\ Processable /\ Cost(HeadItem) <= totals.collateral /\ Settle("Failed")
      /\ totals' = [totals EXCEPT !.collateral = @ - Cost(HeadItem) + Returned(HeadItem)]
      /\ lpValue' = [lpValue EXCEPT !.for = Outdated]
      /\ UNCHANGED <<shares, pending, stats, slot, commission, balance, execs, active,
                     valuedAt>>
  BY DEF MarketItemRejected, marketVars
<1>2. QueuesInv' /\ SlotInv' /\ PendingIsQueued'
  BY <1>1, MarketItemFacts, SettledMarketItem DEF Settled
<1>3. ValueInv'
  BY <1>1, OutdatedValue DEF CopyInv, ValueInv, Execs, NoExec
<1>4. totals \in [collateral : Nat, shares : Nat]
  BY DEF CopyInv, BooksInv
<1>5. /\ totals' \in [collateral : Nat, shares : Nat] /\ totals'.shares = totals.shares
      /\ totals'.collateral <= totals.collateral
  BY <1>1, <1>4, MarketItemFacts
<1>6. BooksInv'
  BY <1>1, <1>5 DEF CopyInv, BooksInv, BalanceCovers, Booked, SharesAddUp
<1> QED BY <1>2, <1>3, <1>6 DEF CopyInv
\* The head goes in progress: it takes the free slot.
LEMMA InProgressQueues ==
  ASSUME CopyInv, Processable, slot = NoExec, InProgress, slot' # NoExec,
         pending' = pending
  PROVE  QueuesInv' /\ SlotInv' /\ PendingIsQueued'
<1>0. QueueInv(inc, lastInc, IncKinds) /\ QueueInv(dec, lastDec, DecKinds)
  BY DEF CopyInv, QueuesInv
<1>1. HasInc \/ HasDec
  BY MarketItemFacts
<1>2. ~Busy(inc, lastInc) /\ ~Busy(dec, lastDec)
  BY DEF CopyInv, SlotInv
<1>3. CASE HasInc
  <2>1. /\ inc' = WithStatus(inc, lastInc, "InProgress") /\ lastInc' = lastInc
        /\ dec' = dec /\ lastDec' = lastDec /\ lastInc < Len(inc)
    BY <1>3 DEF InProgress, WithStatus, HasInc
  <2>2. QueueInv(inc', lastInc, IncKinds) /\ Busy(inc', lastInc)
    BY <1>0, <2>1, ProgressStep
  <2>3. Due(inc', lastInc) = Due(inc, lastInc)
    BY <1>0, <2>1, DueInProgress
  <2> QED BY <1>0, <1>2, <2>1, <2>2, <2>3
          DEF QueuesInv, SlotInv, CopyInv, PendingIsQueued, Due, Busy
<1>4. CASE ~HasInc
  <2>1. /\ dec' = WithStatus(dec, lastDec, "InProgress") /\ lastDec' = lastDec
        /\ inc' = inc /\ lastInc' = lastInc /\ lastDec < Len(dec)
    BY <1>1, <1>4 DEF InProgress, WithStatus, HasDec
  <2>2. QueueInv(dec', lastDec, DecKinds) /\ Busy(dec', lastDec)
    BY <1>0, <2>1, ProgressStep
  <2> QED BY <1>0, <1>2, <2>1, <2>2
          DEF QueuesInv, SlotInv, CopyInv, PendingIsQueued, Due, Busy
<1> QED BY <1>3, <1>4

LEMMA AcceptedStep ==
  ASSUME CopyInv, MarketItemAccepted
  PROVE  CopyInv'
<1> DEFINE e == [status |-> "pending", kind |-> HeadItem.kind, amount |-> HeadItem.amount]
<1>1. /\ Processable /\ Cost(HeadItem) <= totals.collateral /\ slot = NoExec /\ InProgress
      /\ totals' = [totals EXCEPT !.collateral = @ - Cost(HeadItem)]
      /\ lpValue' = [lpValue EXCEPT !.for = Outdated]
      /\ balance' = balance - Cost(HeadItem)
      /\ execs' = Append(execs, e) /\ slot' = Len(execs) + 1
      /\ UNCHANGED <<shares, pending, stats, commission, active, valuedAt>>
  BY DEF MarketItemAccepted
<1>2. e \in Execs
  BY <1>1, MarketItemFacts DEF Execs
<1> HIDE DEF e
<1>3. execs \in Seq(Execs) /\ valuedAt \in 0..Len(execs)
  BY DEF CopyInv, ValueInv
<1>4. /\ execs' \in Seq(Execs) /\ Len(execs) \in Nat
      /\ Len(execs') = Len(execs) + 1
  BY <1>1, <1>2, <1>3, Appended
<1>5. slot' # NoExec /\ slot' \in 0..Len(execs') /\ valuedAt' \in 0..Len(execs')
  BY <1>1, <1>3, <1>4 DEF NoExec
<1>6. QueuesInv' /\ SlotInv' /\ PendingIsQueued'
  BY <1>1, <1>5, InProgressQueues
<1>7. /\ lpValue' \in Values /\ lpValue' # NoValue
      /\ lpValue'.for[1] = "outdated"
  BY <1>1, OutdatedValue
<1>8. ValueInv'
  <2>1. ~(lpValue'.for[1] \in {"inc", "dec"})
    BY <1>7
  <2>2. (execs \in Seq(Execs) /\ slot \in 0..Len(execs) /\ valuedAt \in 0..Len(execs))'
    BY <1>4, <1>5 DEF Execs
  <2>3. (lpValue \in Values /\ lpValue # NoValue)'
    BY <1>7 DEF Values, NoValue
  <2> QED BY <2>1, <2>2, <2>3 DEF ValueInv
<1>9. /\ totals \in [collateral : Nat, shares : Nat] /\ balance \in Nat
      /\ Cost(HeadItem) \in Nat
      /\ totals.collateral \in Nat /\ pending \in Nat /\ commission.unclaimed \in Nat
      /\ totals.collateral + pending + commission.unclaimed <= balance
  BY <1>1, MarketItemFacts DEF CopyInv, BooksInv, BalanceCovers, Booked
<1>10. /\ totals' \in [collateral : Nat, shares : Nat] /\ totals'.shares = totals.shares
       /\ totals'.collateral = totals.collateral - Cost(HeadItem)
       /\ balance' \in Nat
  <2> DEFINE c == Cost(HeadItem)
  <2>1. /\ totals' = [totals EXCEPT !.collateral = totals.collateral - c]
        /\ c <= totals.collateral /\ balance' = balance - c
    BY <1>1
  <2> HIDE DEF c
  <2>2. c \in Nat
    BY <1>9 DEF c
  <2>3. c <= balance
    BY <1>9, <2>1, <2>2
  <2>4. totals.collateral - c \in Nat /\ balance - c \in Nat
    BY <1>9, <2>1, <2>2, <2>3
  <2> QED BY <1>9, <2>1, <2>4 DEF c
<1>11. BalanceCovers'
  <2>1. UNCHANGED <<pending, commission>> /\ balance' = balance - Cost(HeadItem)
    BY <1>1
  <2> QED BY <2>1, <1>9, <1>10 DEF BalanceCovers, Booked
<1>12. BooksInv'
  BY <1>1, <1>10, <1>11 DEF CopyInv, BooksInv, SharesAddUp
<1> QED BY <1>6, <1>8, <1>12 DEF CopyInv

LEMMA HandleStep ==
  ASSUME CopyInv, HandleDeferredExecId
  PROVE  CopyInv'
<1>1. /\ HasInc \/ HasDec
      /\ HeadItem.status = "InProgress" /\ slot' = NoExec
      /\ UNCHANGED <<totals, shares, pending, lpValue, stats, commission, balance, execs,
                     active, valuedAt>>
  BY WorkFacts DEF HandleDeferredExecId, marketVars
<1>2. PICK status \in Settled : Settle(status)
  BY DEF HandleDeferredExecId, Settled
<1>3. HeadItem.kind # "deposit"
  BY <1>1, WorkFacts DEF HandleDeferredExecId, Work, TokenWork, RequiresToken,
     DeferredWork, CheckBalanceWork
<1>4. QueuesInv' /\ SlotInv' /\ PendingIsQueued'
  BY <1>1, <1>2, <1>3, SettledMarketItem
<1>5. ValueInv'
  BY <1>1 DEF CopyInv, ValueInv, NoExec, NoValue, Values, Execs
<1>6. BooksInv'
  BY <1>1 DEF CopyInv, BooksInv, BalanceCovers, Booked, SharesAddUp
<1> QED BY <1>4, <1>5, <1>6 DEF CopyInv

\* The markets and others only add to the balance.
LEMMA BalanceGrows ==
  ASSUME CopyInv, balance' \in Nat, balance' >= balance, active' \in Nat,
         execs' \in Seq(Execs), Len(execs') = Len(execs),
         UNCHANGED <<inc, dec, lastInc, lastDec, totals, shares, pending, lpValue, stats,
                     slot, commission, valuedAt>>
  PROVE  CopyInv'
<1>1. QueuesInv' /\ SlotInv' /\ PendingIsQueued'
  BY SameQueues DEF CopyInv, PendingIsQueued
<1>2. ValueInv'
  BY DEF CopyInv, ValueInv, NoExec, NoValue, Values
<1>3. BooksInv'
  BY DEF CopyInv, BooksInv, BalanceCovers, Booked, SharesAddUp
<1> QED BY <1>1, <1>2, <1>3 DEF CopyInv

LEMMA PaysFacts ==
  ASSUME CopyInv, NEW x \in Stakes, NEW y \in Nat, Pays(x, y)
  PROVE  balance' \in Nat /\ balance' >= balance /\ active' \in Nat
<1>1. x \in Nat /\ balance \in Nat /\ active \in Nat
  BY CopyNumbers DEF CopyInv, BooksInv
<1> QED BY <1>1 DEF Pays

LEMMA ExecutesStep ==
  ASSUME CopyInv, NEW id \in DOMAIN execs, MarketExecutes(id)
  PROVE  CopyInv'
<1>1. PICK status \in {"success", "failure"} : execs' = [execs EXCEPT ![id].status = status]
  BY DEF MarketExecutes
<1>2. execs \in Seq(Execs) /\ id \in 1..Len(execs) /\ execs[id] \in Execs
  <2>1. execs \in Seq(Execs)
    BY DEF CopyInv, ValueInv
  <2> QED BY <2>1, ElementOfSeq
<1>3. execs' \in Seq(Execs) /\ Len(execs') = Len(execs)
  <2> DEFINE e == [execs[id] EXCEPT !.status = status]
  <2>1. e \in Execs /\ execs' = [execs EXCEPT ![id] = e]
    BY <1>1, <1>2 DEF Execs
  <2> HIDE DEF e
  <2> QED BY <1>2, <2>1, ExceptSeq
<1>4. balance' \in Nat /\ balance' >= balance /\ active' \in Nat
  <2>1. execs[id].amount \in Nat /\ balance \in Nat /\ active \in Nat
    BY <1>2 DEF Execs, CopyInv, BooksInv
  <2>2. CASE /\ balance' = balance + (IF execs[id].kind = "open" THEN execs[id].amount ELSE 0)
             /\ UNCHANGED active
    BY <2>1, <2>2
  <2>3. CASE execs[id].kind = "open" /\ active' = active + execs[id].amount
                                    /\ UNCHANGED balance
    BY <2>1, <2>3
  <2>4. CASE \E x \in Stakes, y \in Payouts : Pays(x, y)
    BY <2>4, PaysFacts, CopyNumbers
  <2>5. CASE \E x \in Stakes : Pays(x, x)
    BY <2>5, PaysFacts, CopyNumbers
  <2>6. CASE UNCHANGED <<active, balance>>
    BY <2>1, <2>6
  <2>7. \/ /\ balance' = balance + (IF execs[id].kind = "open" THEN execs[id].amount ELSE 0)
           /\ UNCHANGED active
        \/ execs[id].kind = "open" /\ active' = active + execs[id].amount
                                   /\ UNCHANGED balance
        \/ \E x \in Stakes, y \in Payouts : Pays(x, y)
        \/ \E x \in Stakes : Pays(x, x)
        \/ UNCHANGED <<active, balance>>
    <3> HIDE DEF Pays
    <3>1. CASE execs[id].kind = "open"
      BY <3>1 DEF MarketExecutes
    <3>2. CASE execs[id].kind = "close"
      BY <3>2 DEF MarketExecutes
    <3>3. CASE execs[id].kind = "remove"
      BY <3>3 DEF MarketExecutes
    <3>4. CASE execs[id].kind \notin {"open", "close", "remove"}
      BY <3>4 DEF MarketExecutes
    <3> QED BY <3>1, <3>2, <3>3, <3>4
  <2> QED BY <2>2, <2>3, <2>4, <2>5, <2>6, <2>7
<1>5. UNCHANGED <<inc, dec, lastInc, lastDec, totals, shares, pending, lpValue, stats,
                  slot, commission, valuedAt>>
  BY DEF MarketExecutes, queueVars
<1> QED BY <1>3, <1>4, <1>5, BalanceGrows

LEMMA SameExecs ==
  ASSUME CopyInv, execs' = execs
  PROVE  execs' \in Seq(Execs) /\ Len(execs') = Len(execs)
BY DEF CopyInv, ValueInv

LEMMA ClosesStep ==
  ASSUME CopyInv, NEW x \in Stakes, NEW y \in Payouts, MarketCloses(x, y)
  PROVE  CopyInv'
<1>1. balance' \in Nat /\ balance' >= balance /\ active' \in Nat
  BY PaysFacts, CopyNumbers DEF MarketCloses
<1> QED BY <1>1, BalanceGrows, SameExecs DEF MarketCloses, queueVars

LEMMA DonateStep ==
  ASSUME CopyInv, NEW y \in Gifts, Donate(y)
  PROVE  CopyInv'
<1>1. balance' \in Nat /\ balance' >= balance /\ active' \in Nat
  BY CopyNumbers DEF Donate, CopyInv, BooksInv, marketVars
<1> QED BY <1>1, BalanceGrows, SameExecs DEF Donate, queueVars, marketVars

LEMMA DoWorkStep ==
  ASSUME CopyInv, DoWork
  PROVE  CopyInv'
BY ResetStatsStep, ComputeStep, RebalanceStep, ProcessDepositStep, ProcessWithdrawalStep,
   UnaffordableStep, AcceptedStep, RejectedStep, HandleStep DEF DoWork

LEMMA CopyStep ==
  ASSUME CopyInv, [Next]_vars
  PROVE  CopyInv'
<1>1. CASE \E w \in Wallets, x \in Deposits : Deposit(w, x)
  BY <1>1, DepositStep
<1>2. CASE \E w \in Wallets, s \in Redeems : Withdraw(w, s)
  BY <1>2, WithdrawStep
<1>3. CASE \E k \in {"close", "remove"} : LeaderIncrease(k)
  BY <1>3, IncreaseStep
<1>4. CASE \E x \in Stakes : LeaderDecrease("open", x)
  BY <1>4, LeaderDecreaseStep, CopyNumbers
<1>5. CASE LeaderDecrease("update", 0)
  BY <1>5, LeaderDecreaseStep
<1>6. CASE LeaderWithdrawal
  BY <1>6, LeaderWithdrawalStep
<1>7. CASE DoWork
  BY <1>7, DoWorkStep
<1>8. CASE \E id \in DOMAIN execs : MarketExecutes(id)
  BY <1>8, ExecutesStep
<1>9. CASE \E x \in Stakes, y \in Payouts : MarketCloses(x, y)
  BY <1>9, ClosesStep
<1>10. CASE \E y \in Gifts : Donate(y)
  BY <1>10, DonateStep
<1>11. CASE UNCHANGED vars
  BY <1>11 DEF vars, CopyInv, QueuesInv, QueueInv, SlotInv, Busy, ValueInv, NoExec, NoValue,
     Values, Execs, BooksInv, BalanceCovers, Booked, SharesAddUp, PendingIsQueued
<1> QED BY <1>1, <1>2, <1>3, <1>4, <1>5, <1>6, <1>7, <1>8, <1>9, <1>10, <1>11 DEF Next

LEMMA CopyInvariant == Spec => []CopyInv
<1>1. Init => CopyInv
  BY CopyInit
<1>2. CopyInv /\ [Next]_vars => CopyInv'
  BY CopyStep
<1> QED BY <1>1, <1>2, PTL DEF Spec

------------------------------------------------------------------------------
(* What it implies.                                                        *)

LEMMA CopyImpliesBooks == CopyInv => BooksBacked
<1> SUFFICES ASSUME CopyInv PROVE BooksBacked
  OBVIOUS
<1>1. TypeOK
  BY DEF CopyInv, QueuesInv, QueueInv, ValueInv, BooksInv, Values, TypeOK
<1> QED BY <1>1 DEF CopyInv, BooksInv, BooksBacked

LEMMA OneOrNone ==
  ASSUME NEW q, NEW last, NEW kinds, QueueInv(q, last, kinds)
  PROVE  LET busy == {n \in DOMAIN q : q[n].status = "InProgress"} IN
         /\ busy \subseteq {last + 1}
         /\ Cardinality(busy) = (IF Busy(q, last) THEN 1 ELSE 0)
<1> DEFINE busy == {n \in DOMAIN q : q[n].status = "InProgress"}
<1>1. /\ DOMAIN q = 1..Len(q) /\ Len(q) \in Nat /\ last \in Nat
      /\ busy \subseteq {last + 1}
  BY DEF QueueInv
<1>2. CASE Busy(q, last)
  <2>1. busy = {last + 1}
    BY <1>1, <1>2 DEF Busy
  <2> QED BY <1>1, <1>2, <2>1, FS_Singleton
<1>3. CASE ~Busy(q, last)
  <2>1. busy = {}
    BY <1>1, <1>3 DEF Busy
  <2> QED BY <1>1, <1>3, <2>1, FS_EmptySet
<1> QED BY <1>2, <1>3

LEMMA CopyImpliesOrder == CopyInv => WorkInOrder
<1> SUFFICES ASSUME CopyInv PROVE WorkInOrder
  OBVIOUS
<1>0. QueueInv(inc, lastInc, IncKinds) /\ QueueInv(dec, lastDec, DecKinds)
  BY DEF CopyInv, QueuesInv
<1>1. FreshValue
  BY CurrentFor DEF CopyInv, ValueInv, FreshValue
<1>2. SlotBelongsToHead
  <2> DEFINE busyInc == {n \in DOMAIN inc : inc[n].status = "InProgress"}
             busyDec == {n \in DOMAIN dec : dec[n].status = "InProgress"}
  <2>1. /\ busyInc \subseteq {lastInc + 1}
        /\ Cardinality(busyInc) = (IF Busy(inc, lastInc) THEN 1 ELSE 0)
    BY <1>0, OneOrNone
  <2>2. /\ busyDec \subseteq {lastDec + 1}
        /\ Cardinality(busyDec) = (IF Busy(dec, lastDec) THEN 1 ELSE 0)
    BY <1>0, OneOrNone
  <2>3. /\ slot # NoExec <=> Busy(inc, lastInc) \/ Busy(dec, lastDec)
        /\ ~(Busy(inc, lastInc) /\ Busy(dec, lastDec))
    BY DEF CopyInv, SlotInv
  <2> HIDE DEF busyInc, busyDec
  <2>4. Cardinality(busyInc) + Cardinality(busyDec) = (IF slot = NoExec THEN 0 ELSE 1)
    BY <2>1, <2>2, <2>3
  <2> QED BY <2>1, <2>2, <2>4 DEF SlotBelongsToHead, busyInc, busyDec
<1>3. WorkedInOrder
  BY <1>0 DEF QueueInv, WorkedInOrder, Settled
<1> QED BY <1>1, <1>2, <1>3 DEF WorkInOrder

\* Whatever the followers, the leader, bots and markets do and in whichever
\* order (execute.rs:619, do_work), the contract holds what its books say,
\* pending deposits are those in the queue, and shares add up.
THEOREM CopyBooksBacked == Spec => []BooksBacked
BY CopyInvariant, CopyImpliesBooks, PTL

\* Requests are settled in their order, one at a time, and shares priced at a
\* value that has seen everything the markets were sent (work.rs:126).
THEOREM CopyWorksInOrder == Spec => []WorkInOrder
BY CopyInvariant, CopyImpliesOrder, PTL

==============================================================================

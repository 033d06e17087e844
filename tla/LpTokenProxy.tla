---------------------------- MODULE LpTokenProxy ----------------------------
(***************************************************************************)
(* The LP and xLP tokens of a market as CW20 tokens.  Balances and         *)
(* allowances are kept by the market; two proxy contracts, one for each    *)
(* kind, take the CW20 messages and pass them on, and the market takes     *)
(* such a message only from the proxy of its kind.  A send is split by the *)
(* proxy: a transfer for the market and, after it, a Receive call that     *)
(* comes from the proxy, so that the receiving contract believes it.       *)
(***************************************************************************)
EXTENDS Allowances, FiniteSets, Sequences, FiniteSetsExt

CONSTANTS
  Wallets,     \* accounts of users
  Dapp,        \* a contract that receives liquidity tokens
  Cooldown,    \* liquidity_cooldown_seconds
  Amounts,     \* the amounts of a message
  MaxTokens,   \* bound: tokens of a kind
  MaxGranted,  \* bound: the sum of all allowances ever granted
  MaxTime      \* bound: the clock

Kinds == {"Lp", "Xlp"}
Accounts == Wallets \union {Dapp}
Pairs == Accounts \X Accounts
ProxyOf(kind) == <<"proxy", kind>>

DappApart == Dapp \notin Wallets
BoundsNat == {Cooldown, MaxTokens, MaxGranted, MaxTime} \subseteq Nat
ConstantsOK == DappApart /\ BoundsNat

VARIABLES
  bal,        \* lp and xlp of LiquidityStatsByAddr
  cooldown,   \* cooldown_ends of each account, 0 when none
  allow,      \* LP_ALLOWANCES and XLP_ALLOWANCES
  bySpender,  \* LP_ALLOWANCES_SPENDER and XLP_ALLOWANCES_SPENDER
  calls,      \* the submessages the running transaction still has to make
  saved,      \* the balances and allowances when it began
  signer,     \* who sent it (Dapp when none runs)
  books,      \* what Dapp holds of each kind by its own books
  granted,    \* history: what owners ever allowed spenders
  moved,      \* history: what of an owner's tokens others' transactions moved
  now

vars == <<bal, cooldown, allow, bySpender, calls, saved, signer, books, granted,
          moved, now>>
ledger == <<bal, allow, bySpender, granted, moved, books>>

Idle == calls = <<>>

Init ==
  /\ bal = [k \in Kinds |-> [a \in Accounts |-> 0]]
  /\ cooldown = [a \in Accounts |-> 0]
  /\ allow = [k \in Kinds |-> [p \in Pairs |-> NoEntry]]
  /\ bySpender = [k \in Kinds |-> [p \in Pairs |-> NoEntry]]
  /\ calls = <<>>
  /\ saved = <<>>
  /\ signer = Dapp
  /\ books = [k \in Kinds |-> 0]
  /\ granted = [k \in Kinds |-> [p \in Pairs |-> 0]]
  /\ moved = [k \in Kinds |-> [p \in Pairs |-> 0]]
  /\ now = 0

\* A provider deposits, with or without staking at once; LP cools down.
DepositLiquidity(a, kind) ==
  /\ Idle
  /\ MapThenSumSet(LAMBDA b : bal[kind][b], Accounts) < MaxTokens
  /\ bal' = [bal EXCEPT ![kind][a] = @ + 1]
  /\ cooldown' = [cooldown EXCEPT ![a] = now + Cooldown]
  /\ UNCHANGED <<allow, bySpender, calls, saved, signer, books, granted, moved, now>>

(***************************************************************************)
(* The proxy.                                                              *)
(***************************************************************************)

\* CW20 messages; `to` is the recipient, the contract or the spender.
Msgs ==
  [do : {"Transfer"}, owner : {Dapp}, to : Accounts, amount : Amounts]
  \union [do : {"Send"}, owner : {Dapp}, to : {Dapp}, amount : Amounts]
  \union [do : {"TransferFrom"}, owner : Wallets, to : Accounts, amount : Amounts]
  \union [do : {"SendFrom"}, owner : Wallets, to : {Dapp}, amount : Amounts]
  \union [do : {"IncreaseAllowance", "DecreaseAllowance"}, owner : {Dapp},
          to : Wallets, amount : Amounts]

\* The message for the market: a send becomes a transfer.
Unsent(msg) ==
  [msg EXCEPT !.do = CASE @ = "Send" -> "Transfer"
                       [] @ = "SendFrom" -> "TransferFrom"
                       [] OTHER -> @]

ToMarket(caller, kind, sender, msg) ==
  [to |-> "market", caller |-> caller, kind |-> kind, sender |-> sender, msg |-> msg]
ToDapp(kind, sender, msg) ==
  [to |-> "dapp", caller |-> ProxyOf(kind), kind |-> kind, sender |-> sender, msg |-> msg]

SubmessagesReceiveOnly(kind, sender, msg) ==
  IF msg.do \in {"Send", "SendFrom"} THEN <<ToDapp(kind, sender, msg)>>
  ELSE <<ToMarket(ProxyOf(kind), kind, sender, msg)>>

SubmessagesFirst(kind, sender, msg) ==
  IF msg.do \in {"Send", "SendFrom"}
  THEN <<ToDapp(kind, sender, msg), ToMarket(ProxyOf(kind), kind, sender, Unsent(msg))>>
  ELSE <<ToMarket(ProxyOf(kind), kind, sender, msg)>>

Submessages(kind, sender, msg) ==
  <<ToMarket(ProxyOf(kind), kind, sender, Unsent(msg))>>
  \o IF msg.do \in {"Send", "SendFrom"} THEN <<ToDapp(kind, sender, msg)>> ELSE <<>>

Begin(who, msgs) ==
  /\ Idle
  /\ calls' = msgs
  /\ saved' = ledger
  /\ signer' = who
  /\ UNCHANGED <<ledger, cooldown, now>>

ProxyExecute(sender, kind, msg) == Begin(sender, Submessages(kind, sender, msg))

\* A wallet may also call the market itself, in the name of anyone.
CallMarket(who, kind, sender, msg) ==
  Begin(who, <<ToMarket(who, kind, sender, Unsent(msg))>>)

(***************************************************************************)
(* The market.                                                             *)
(***************************************************************************)
CooldownOverAny(a) == TRUE

CooldownOver(a) == cooldown[a] <= now

\* What LiquidityTokenProxy requires of a call before it changes anything.
Auth(c) == c.to = "market" /\ c.caller = ProxyOf(c.kind)

ChangeBalancesUnchecked(kind, owner, to, x) ==
  /\ kind = "Lp" => CooldownOver(owner)
  /\ bal' = [[bal EXCEPT ![kind][owner] = @ - x] EXCEPT ![kind][to] = @ + x]
  /\ moved' = IF owner = signer THEN moved
              ELSE [moved EXCEPT ![kind][owner, signer] = @ + x]

\* The balances after a transfer; the receiver's change comes second.
ChangeBalances(kind, owner, to, x) ==
  /\ kind = "Lp" => CooldownOver(owner)
  /\ x <= bal[kind][owner]
  /\ bal' = [[bal EXCEPT ![kind][owner] = @ - x] EXCEPT ![kind][to] = @ + x]
  /\ moved' = IF owner = signer THEN moved
              ELSE [moved EXCEPT ![kind][owner, signer] = @ + x]

DeductAllowanceOfLp(kind, owner, spender, x) ==
  /\ MayDeduct(allow["Lp"][owner, spender], x, now)
  /\ MayDeduct(bySpender["Lp"][spender, owner], x, now)
  /\ allow' = [allow EXCEPT !["Lp"][owner, spender] = Deducted(@, x)]
  /\ bySpender' = [bySpender EXCEPT !["Lp"][spender, owner] = Deducted(@, x)]

DeductAllowance(kind, owner, spender, x) ==
  /\ MayDeduct(allow[kind][owner, spender], x, now)
  /\ MayDeduct(bySpender[kind][spender, owner], x, now)
  /\ allow' = [allow EXCEPT ![kind][owner, spender] = Deducted(@, x)]
  /\ bySpender' = [bySpender EXCEPT ![kind][spender, owner] = Deducted(@, x)]

IncreaseAllowance(kind, owner, spender, x) ==
  /\ spender # owner
  /\ MapThenSumSet(LAMBDA k : MapThenSumSet(LAMBDA p : granted[k][p], Pairs), Kinds)
       + x <= MaxGranted
  /\ allow' = [allow EXCEPT ![kind][owner, spender] = Increased(@, x, Unchanged)]
  /\ bySpender' = [bySpender EXCEPT ![kind][spender, owner] = Increased(@, x, Unchanged)]
  /\ granted' = [granted EXCEPT ![kind][owner, spender] = @ + x]

DecreaseAllowance(kind, owner, spender, x) ==
  LET e == Decreased(allow[kind][owner, spender], x, Unchanged)
  IN /\ spender # owner
     /\ allow[kind][owner, spender] # NoEntry
     /\ allow' = [allow EXCEPT ![kind][owner, spender] = e]
     /\ bySpender' = [bySpender EXCEPT ![kind][spender, owner] = e]

HandleExec(kind, sender, msg) ==
  \/ /\ msg.do = "Transfer"
     /\ ChangeBalances(kind, sender, msg.to, msg.amount)
     /\ UNCHANGED <<allow, bySpender, granted>>
  \/ /\ msg.do = "TransferFrom"
     /\ DeductAllowance(kind, msg.owner, sender, msg.amount)
     /\ ChangeBalances(kind, msg.owner, msg.to, msg.amount)
     /\ UNCHANGED granted
  \/ /\ msg.do = "IncreaseAllowance"
     /\ IncreaseAllowance(kind, sender, msg.to, msg.amount)
     /\ UNCHANGED <<bal, moved>>
  \/ /\ msg.do = "DecreaseAllowance"
     /\ DecreaseAllowance(kind, sender, msg.to, msg.amount)
     /\ UNCHANGED <<bal, moved, granted>>

Return ==
  /\ saved' = IF calls' = <<>> THEN <<>> ELSE saved
  /\ signer' = IF calls' = <<>> THEN Dapp ELSE signer

MarketExecute ==
  /\ ~Idle
  /\ LET c == Head(calls) IN Auth(c) /\ HandleExec(c.kind, c.sender, c.msg)
  /\ calls' = Tail(calls)
  /\ Return
  /\ UNCHANGED <<cooldown, books, now>>

\* The receiving contract believes the proxy and books the tokens.
Receive ==
  /\ ~Idle
  /\ Head(calls).to = "dapp"
  /\ LET c == Head(calls) IN books' = [books EXCEPT ![c.kind] = @ + c.msg.amount]
  /\ calls' = Tail(calls)
  /\ Return
  /\ UNCHANGED <<bal, allow, bySpender, granted, moved, cooldown, now>>

\* The market or the receiving contract refuses: nothing of the transaction
\* remains.
Revert ==
  /\ ~Idle
  /\ calls' = <<>>
  /\ bal' = saved[1] /\ allow' = saved[2] /\ bySpender' = saved[3]
  /\ granted' = saved[4] /\ moved' = saved[5] /\ books' = saved[6]
  /\ Return
  /\ UNCHANGED <<cooldown, now>>

\* The contract pays out of its books, through the proxy as anyone.
DappPays(kind, to, x) ==
  /\ x <= books[kind]
  /\ Begin(Dapp, <<ToMarket(ProxyOf(kind), kind, Dapp,
                     [do |-> "Transfer", owner |-> Dapp, to |-> to, amount |-> x])>>)

\* ... and books it once the payment has been made.
Paid ==
  /\ ~Idle
  /\ signer = Dapp
  /\ LET c == Head(calls)
     IN /\ Auth(c) /\ HandleExec(c.kind, c.sender, c.msg)
        /\ books' = [books EXCEPT ![c.kind] = @ - c.msg.amount]
  /\ calls' = Tail(calls)
  /\ Return
  /\ UNCHANGED <<cooldown, now>>

Tick ==
  /\ Idle /\ now < MaxTime
  /\ now' = now + 1
  /\ UNCHANGED <<ledger, cooldown, calls, saved, signer>>

Next ==
  \/ \E kind \in Kinds :
       \/ \E a \in Wallets : DepositLiquidity(a, kind)
       \/ \E sender \in Wallets, msg \in Msgs : ProxyExecute(sender, kind, msg)
       \/ \E who, sender \in Wallets, msg \in Msgs : CallMarket(who, kind, sender, msg)
       \/ \E to \in Wallets, x \in Amounts : DappPays(kind, to, x)
  \/ signer # Dapp /\ MarketExecute
  \/ Paid
  \/ Receive
  \/ Revert
  \/ Tick

Spec == Init /\ [][Next]_vars

\* Queries that come through the proxy of a kind.
OwnerAllowances(kind, a) == [s \in Accounts |-> allow[kind][a, s]]

SpenderAllowances(kind, s) == [a \in Accounts |-> bySpender[kind][s, a]]

(***************************************************************************)
(* Properties.                                                             *)
(***************************************************************************)

\* The types of balances, allowances and books.
TypeOK ==
  /\ bal \in [Kinds -> [Accounts -> 0..MaxTokens]]
  /\ books \in [Kinds -> 0..MaxTokens]
  /\ \A k \in Kinds, p \in Pairs : allow[k][p].amount \in 0..MaxGranted

\* What a receiving contract is told of it has: between transactions its books
\* of each kind are covered by its balance of that kind.
BooksBacked == \A k \in Kinds : Idle => books[k] <= bal[k][Dapp]

\* Already when it is called, the receiving contract has the tokens.
ReceiveAfterTransferStep ==
  \A k \in Kinds : books'[k] > books[k] => books'[k] <= bal[k][Dapp]
ReceiveAfterTransfer == [][ReceiveAfterTransferStep]_vars

\* However calls reach the market, nobody moves more of another's LP or xLP
\* than that owner allowed them of this kind.
MovedWithinGranted ==
  \A k \in Kinds, p \in Pairs :
    /\ moved[k][p] + allow[k][p].amount <= granted[k][p]
    /\ OwnerAllowances(k, p[1])[p[2]] = SpenderAllowances(k, p[2])[p[1]]

\* LP leaves an account only when the account is not cooling down; what a
\* failed transaction returns to its owner does not count.
CooldownHeldStep ==
  \A a \in Accounts :
    bal'["Lp"][a] < bal["Lp"][a] => \/ cooldown[a] <= now
                                    \/ saved' = <<>> /\ bal' = saved[1]
CooldownHeld == [][CooldownHeldStep]_vars
=============================================================================

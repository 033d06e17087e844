-------------------------------- MODULE Vault --------------------------------
(***************************************************************************)
(* The vault: liquidity providers deposit USDC for USDCLP tokens, and the  *)
(* governance spreads the USDC over the liquidity pools of markets.  Who   *)
(* leaves burns tokens at once and waits in a queue until the vault has    *)
(* the USDC; a token is paid with one USDC.                                *)
(*                                                                         *)
(* USDC may be a native coin or a CW20 token; messages differ, and so do   *)
(* the balances the handlers look at.  A market's LP token is worth one    *)
(* USDC here; what the pool earns arrives as yield.                        *)
(***************************************************************************)
EXTENDS Integers, Sequences, FiniteSets, FiniteSetsExt, SequencesExt

CONSTANTS
  Users, Markets,
  Native,           \* UsdcAsset: native coin or CW20
  Amounts,          \* amounts of deposits and requests
  Shares,           \* basis points a market may get
  Limit,            \* requests paid by one message
  MaxQueue,         \* bound: requests that wait
  MaxUsdc           \* bound: USDC that came in

ConstantsOK ==
  /\ Native \in BOOLEAN /\ Amounts \subseteq Nat \ {0} /\ Shares \subseteq Nat
  /\ Limit \in Nat \ {0} /\ MaxQueue \in Nat /\ MaxUsdc \in Nat

VARIABLES
  paused, bps,      \* CONFIG
  balance,          \* USDC of the vault (external)
  lp, totalLp,      \* LP_BALANCES, TOTAL_LP_SUPPLY
  queue, pending,   \* WITHDRAWAL_QUEUE, TOTAL_PENDING_WITHDRAWALS
  requests,         \* USER_WITHDRAWALS
  nextId,           \* QUEUE_ID
  alloc,            \* MARKET_ALLOCATIONS
  held,             \* LP tokens of the vault in markets (external)
  came              \* USDC that came in (for the bound)

vars == <<paused, bps, balance, lp, totalLp, queue, pending, requests, nextId, alloc, held, came>>

funds == <<balance, lp, totalLp, alloc, held, came>>
waiting == <<queue, pending, requests, nextId>>

Total(f) == MapThenSumSet(LAMBDA x : f[x], DOMAIN f)

\* query_balance of the denomination: the bank knows nothing of a CW20 token.
BankBalance == IF Native THEN balance ELSE 0

------------------------------------------------------------------------------
(* Deposits and requests.                                                  *)

\* get_total_assets; a deposit is in the balance already.
TotalAssets(amount) == balance + amount + Total(alloc)

\* execute_deposit
Minted(amount) ==
  IF totalLp = 0 THEN amount ELSE (amount * totalLp) \div TotalAssets(amount)

Credit(u, amount, tokens) ==
  /\ came + amount <= MaxUsdc
  /\ lp' = [lp EXCEPT ![u] = @ + tokens]
  /\ totalLp' = totalLp + tokens
  /\ balance' = balance + amount
  /\ came' = came + amount
  /\ UNCHANGED <<waiting, paused, bps, alloc, held>>

Deposit(u, amount) == Native /\ ~paused /\ Credit(u, amount, Minted(amount))

\* execute_receive: a CW20 deposit.
Receive(u, amount) == ~Native /\ ~paused /\ Credit(u, amount, amount)

\* Mutant: the supply is not reduced.
BurnBalance(u, amount) ==
  /\ lp' = [lp EXCEPT ![u] = @ - amount]
  /\ UNCHANGED totalLp

Burn(u, amount) ==
  /\ lp' = [lp EXCEPT ![u] = @ - amount]
  /\ totalLp' = totalLp - amount

\* execute_request_withdrawal
RequestWithdrawal(u, amount) ==
  /\ ~paused /\ lp[u] >= amount
  /\ Len(queue) < MaxQueue /\ nextId < 2 * MaxQueue
  /\ Burn(u, amount)
  /\ queue' = Append(queue, [id |-> nextId, user |-> u, amount |-> amount])
  /\ requests' = requests \cup {<<u, nextId>>}
  /\ nextId' = nextId + 1
  /\ pending' = pending + amount
  /\ UNCHANGED <<paused, bps, balance, alloc, held, came>>

------------------------------------------------------------------------------
(* Payment.                                                                *)

SumTo(n) == FoldSeq(LAMBDA r, acc : r.amount + acc, 0, SubSeq(queue, 1, n))

\* Mutant: one more is paid than the balance allows.
PayableOneMore == Max({n \in 0 .. Len(queue) : n <= Limit /\ (n > 0 => SumTo(n - 1) < BankBalance)})

\* Mutant: the last coin is never paid.
PayableLess == Max({n \in 0 .. Len(queue) : n <= Limit /\ (n > 0 => SumTo(n) < BankBalance)})

\* How many of the first Limit requests the balance pays.
Payable == Max({n \in 0 .. Len(queue) : n <= Limit /\ SumTo(n) <= BankBalance})

\* Mutant: requests of the same user go with the first.
ForgetUser(paid) == {q \in requests : \A i \in 1 .. paid : queue[i].user # q[1]}

Forget(paid) == requests \ {<<queue[i].user, queue[i].id>> : i \in 1 .. paid}

\* Mutant: a request that is too large is skipped.
ProcessWithdrawalSkip ==
  \E i \in 1 .. Min({Limit, Len(queue)}) :
    /\ ~paused /\ queue[i].amount <= BankBalance
    /\ \A j \in 1 .. i - 1 : queue[j].amount > BankBalance
    /\ balance' = balance - queue[i].amount
    /\ pending' = pending - queue[i].amount
    /\ requests' = requests \ {<<queue[i].user, queue[i].id>>}
    /\ queue' = RemoveAt(queue, i)
    /\ UNCHANGED <<paused, bps, lp, totalLp, alloc, held, came, nextId>>

\* execute_process_withdrawal, by anybody.
ProcessWithdrawal ==
  /\ ~paused /\ Payable > 0
  /\ balance' = balance - SumTo(Payable)
  /\ pending' = pending - SumTo(Payable)
  /\ requests' = Forget(Payable)
  /\ queue' = SubSeq(queue, Payable + 1, Len(queue))
  /\ UNCHANGED <<paused, bps, lp, totalLp, alloc, held, came, nextId>>

------------------------------------------------------------------------------
(* The governance.                                                         *)

\* Mutant: everything is invested.
ExcessAll == balance

Excess == Max({balance - pending, 0})

Invested(m) == IF m \in DOMAIN bps THEN (Excess * bps[m]) \div Total(bps) ELSE 0

\* execute_redistribute_funds: what rounding leaves goes to the governance.
RedistributeFunds ==
  LET given == {m \in Markets : Invested(m) > 0}
  IN /\ ~paused /\ Excess > 0 /\ Total(bps) > 0
     /\ alloc' = [m \in DOMAIN alloc \cup given |->
                    (IF m \in DOMAIN alloc THEN alloc[m] ELSE 0) + Invested(m)]
     /\ held' = [m \in Markets |-> held[m] + Invested(m)]
     /\ balance' = balance - Excess
     /\ UNCHANGED <<waiting, paused, bps, lp, totalLp, came>>

\* execute_collect_yield, in a market that has some (external).
CollectYield(amount) ==
  /\ ~paused /\ \E m \in DOMAIN alloc : held[m] > 0
  /\ came + amount <= MaxUsdc
  /\ balance' = balance + amount
  /\ came' = came + amount
  /\ UNCHANGED <<waiting, paused, bps, lp, totalLp, alloc, held>>

\* execute_withdraw_from_market; the market checks the tokens.
WithdrawFromMarket(m, amount) ==
  /\ ~paused /\ m \in DOMAIN alloc /\ alloc[m] >= amount /\ held[m] >= amount
  /\ alloc' = [alloc EXCEPT ![m] = @ - amount]
  /\ held' = [held EXCEPT ![m] = @ - amount]
  /\ balance' = balance + amount
  /\ UNCHANGED <<waiting, paused, bps, lp, totalLp, came>>

\* execute_update_allocations: the number of markets has to match, not the markets.
UpdateAllocations(new) ==
  /\ Cardinality(DOMAIN new) = Cardinality(DOMAIN alloc)
  /\ Total(new) > 0 /\ new # bps
  /\ bps' = new
  /\ UNCHANGED <<waiting, funds, paused>>

\* execute_add_market
AddMarket(m) ==
  /\ alloc' = [k \in DOMAIN alloc \cup {m} |-> IF k = m THEN 0 ELSE alloc[k]]
  /\ alloc' # alloc
  /\ UNCHANGED <<waiting, paused, bps, balance, lp, totalLp, held, came>>

\* execute_emergency_pause, execute_resume_operations
Pause == ~paused /\ paused' = TRUE /\ UNCHANGED <<bps, waiting, funds>>
Resume == paused /\ paused' = FALSE /\ UNCHANGED <<bps, waiting, funds>>

------------------------------------------------------------------------------

Allocations == UNION {[S -> Shares] : S \in SUBSET Markets}

\* instantiate
Init ==
  /\ paused = FALSE
  /\ bps \in Allocations
  /\ alloc = [m \in DOMAIN bps |-> 0]
  /\ balance = 0 /\ lp = [u \in Users |-> 0] /\ totalLp = 0
  /\ queue = << >> /\ pending = 0 /\ requests = {} /\ nextId = 0
  /\ held = [m \in Markets |-> 0] /\ came = 0

Next ==
  \/ \E u \in Users, a \in Amounts :
       Deposit(u, a) \/ Receive(u, a) \/ RequestWithdrawal(u, a)
  \/ ProcessWithdrawal
  \/ RedistributeFunds
  \/ \E a \in Amounts :
       CollectYield(a) \/ \E m \in Markets : WithdrawFromMarket(m, a)
  \/ \E new \in Allocations : UpdateAllocations(new)
  \/ \E m \in Markets : AddMarket(m)
  \/ Pause \/ Resume

Spec == Init /\ [][Next]_vars

\* Anybody may have withdrawals processed, and somebody who waits will.
Fairness == WF_vars(ProcessWithdrawal)

FairSpec == Spec /\ Fairness

------------------------------------------------------------------------------
(* Properties.                                                             *)

TypeOK ==
  /\ paused \in BOOLEAN /\ bps \in Allocations
  /\ balance \in Nat /\ totalLp \in Nat /\ pending \in Nat
  /\ \A u \in Users : lp[u] \in Nat
  /\ \A m \in Markets : held[m] \in Nat

\* The supply that prices deposits is what the users have.
SupplyAddsUp == totalLp = Total(lp)

\* The amount that is kept back for requests, and what the query of a user finds, are the
\* requests in the queue.
PendingAddsUp ==
  /\ pending = SumTo(Len(queue))
  /\ requests = {<<queue[i].user, queue[i].id>> : i \in DOMAIN queue}

\* Investing leaves what the requests in the queue need: only payments take it.
PendingReservedStep ==
  balance' < balance /\ queue' = queue => balance' >= pending
PendingReserved == [][PendingReservedStep]_vars

\* Nobody who came later is paid first, and nobody is forgotten: the queue only loses its head.
NobodyOvertakenStep ==
  \A i, j \in DOMAIN queue :
    i < j /\ (\A k \in DOMAIN queue' : queue'[k].id # queue[j].id)
      => \A k \in DOMAIN queue' : queue'[k].id # queue[i].id
NobodyOvertaken == [][NobodyOvertakenStep]_vars

\* Whoever waits is paid when the USDC is there to stay, in the balance the handler
\* looks at, and the vault is not paused.  A vault of a CW20 token has none there
\* (execute.rs:327): nobody is paid.
RequestsPaid == <>[](~paused /\ BankBalance >= pending) => []<>(queue = << >>)

\* Redistributed funds are in the markets: as long as nothing is lost there, every token and
\* every request can be paid.
TokensBacked == totalLp + pending <= balance + Total(held)

\* "Calculate the amount of USDCLP tokens to mint based on total assets and LP supply": into a
\* vault whose tokens are worth exactly its assets, with nobody waiting, a deposit buys one
\* token for each USDC.
FullDeposit ==
  [][ queue = << >> /\ totalLp = balance + Total(held) =>
        \A u \in Users : lp'[u] > lp[u] => lp'[u] - lp[u] = came' - came ]_vars
==============================================================================

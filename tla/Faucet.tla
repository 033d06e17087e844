------------------------------- MODULE Faucet -------------------------------
(***************************************************************************)
(* The faucet of the test networks: wallets tap it one by one or, through  *)
(* the bot, in batches (multitap).  It tops wallets off with the gas coin, *)
(* mints CW20 tokens that admins deployed, holds wallets to a time between *)
(* two taps and, for the token of a trading competition, to one tap.       *)
(* Messages the faucet sends run after its handler, so a handler sees the  *)
(* balances from before its own payments.                                  *)
(***************************************************************************)
EXTENDS Integers, FiniteSets, Sequences, SequencesExt, FiniteSetsExt

CONSTANTS
  Wallets, Tokens,  \* accounts; CW20 contracts that may be deployed
  GasCoin,          \* the denomination of the gas allowance
  Limits,           \* tap limits the admins choose from; NoLimit is None
  Allowances,       \* gas allowances they choose from; 0 is none
  MaxAssets,        \* bound: assets in one request
  MaxRecipients,    \* bound: recipients of a batch
  MaxTaps,          \* bound: taps and batches
  MaxTime           \* bound: the clock

NoLimit == 0
NotSet == -1
Assets == Tokens \union {GasCoin}
Lists(S, n) == UNION {[1..k -> S] : k \in 1..n}
Pages == Lists(Assets, MaxAssets)

GasApart == GasCoin \notin Tokens
BoundsNat == {MaxAssets, MaxRecipients, MaxTaps, MaxTime} \subseteq Nat
ConstantsOK == GasApart /\ BoundsNat

VARIABLES
  admins,     \* ADMINS
  limit,      \* TAP_LIMIT
  allowance,  \* GAS_ALLOWANCE
  info,       \* TOKEN_INFO: "unknown", "plain" or "competition"
  amount,     \* the amount of a multitap for a token, NotSet if there is none
  lastTap,    \* LAST_TAP_TIMESTAMP
  tapped,     \* TAPPED_ONCE, pairs as they are stored
  history,    \* HISTORY_CW20 and HISTORY_NATIVE: cumulative amounts by time
  gas,        \* what wallets have of the gas coin
  total,      \* history: all that was sent of each asset
  got,        \* history: competition tokens each wallet got without an admin, from
              \* taps and from batches, and how often those batches named them for it
  twice,      \* history: wallets that the last step, a batch, named more than once
  taps,       \* history: taps so far
  now

vars == <<admins, limit, allowance, info, amount, lastTap, tapped, history, gas,
          total, got, twice, taps, now>>
config == <<admins, limit, allowance, info, amount>>
ledger == <<lastTap, tapped, history, gas, total, got, taps>>

None == [tap |-> 0, batch |-> 0, named |-> 0]

Init ==
  /\ \E w \in Wallets : admins = {w}
  /\ limit \in Limits
  /\ allowance \in Allowances
  /\ info = [t \in Tokens |-> "unknown"]
  /\ amount = [t \in Tokens |-> NotSet]
  /\ lastTap = [w \in Wallets |-> NotSet]
  /\ tapped = {}
  /\ history = [a \in Assets |-> [t \in 0..MaxTime |-> NotSet]]
  /\ gas = [w \in Wallets |-> 0]
  /\ total = [a \in Assets |-> 0]
  /\ got = [w \in Wallets |-> [t \in Tokens |-> None]]
  /\ twice = {}
  /\ taps = 0
  /\ now = 0

IsCompetition(a) == a \in Tokens /\ info[a] = "competition"

\* What the handler does, on a record of the state it may change; `ok` is
\* FALSE once it has failed and `pay` is what it will send of the gas coin.
Start == [ok |-> TRUE, lastTap |-> lastTap, tapped |-> tapped, history |-> history,
          total |-> total, got |-> got, pay |-> [w \in Wallets |-> 0]]

Commit(st, addrs) ==
  /\ st.ok
  /\ lastTap' = st.lastTap
  /\ tapped' = st.tapped
  /\ history' = st.history
  /\ total' = st.total
  /\ got' = st.got
  /\ twice' = {w \in Wallets : Cardinality({i \in DOMAIN addrs : addrs[i] = w}) > 1}
  /\ gas' = [w \in Wallets |-> gas[w] + st.pay[w]]
  /\ taps' = taps + 1
  /\ UNCHANGED <<config, now>>

(***************************************************************************)
(* Who may tap.                                                            *)
(***************************************************************************)

\* validate_tap_faucet_error
AlreadyTapped(st, w, assets) ==
  \E i \in DOMAIN assets : IsCompetition(assets[i]) /\ <<w, assets[i]>> \in st.tapped

TooSoonStored(st, w) ==
  limit # NoLimit /\ lastTap[w] # NotSet /\ now - lastTap[w] < limit

TooSoon(st, w) ==
  limit # NoLimit /\ st.lastTap[w] # NotSet /\ now - st.lastTap[w] < limit

Eligible(st, w, assets) == ~AlreadyTapped(st, w, assets) /\ ~TooSoon(st, w)

(***************************************************************************)
(* Paying out.                                                             *)
(***************************************************************************)

\* get_history: the cumulative amount up to and including a time.
GetHistory(h, t) ==
  LET known == {u \in 0..t : h[u] # NotSet}
  IN IF known = {} THEN 0 ELSE h[Max(known)]

AddHistoryBefore(h, x) == [h EXCEPT ![now] = x + GetHistory(h, now - 1)]

AddHistory(h, x) == [h EXCEPT ![now] = x + GetHistory(h, now)]

\* tap: zero is refused, as a negative amount is.
Pay(st, sender, w, a, x, way) ==
  [st EXCEPT !.ok = @ /\ x > 0,
             !.history[a] = AddHistory(@, x),
             !.total[a] = @ + x,
             !.pay[w] = IF a = GasCoin THEN @ + x ELSE @,
             !.got[w] = IF IsCompetition(a) /\ sender \notin admins
                        THEN [@ EXCEPT ![a][way] = @ + x] ELSE @]

\* The difference to the allowance, by the balance the bank still shows.
TopOff(st, sender, w) ==
  IF gas[w] < allowance THEN Pay(st, sender, w, GasCoin, allowance - gas[w], "tap") ELSE st

(***************************************************************************)
(* Tap.                                                                    *)
(***************************************************************************)

\* With an allowance the gas coin is not tapped by name.
WithoutGas(assets) == IF allowance = 0 THEN assets ELSE SelectSeq(assets, LAMBDA a : a # GasCoin)

\* assert_trading_competition: the token first, the wallet second.
AssertTradingCompetition(st, w, assets) ==
  FoldLeft(LAMBDA s, a :
             IF ~IsCompetition(a) THEN s
             ELSE [s EXCEPT !.ok = @ /\ <<a, w>> \notin s.tapped,
                            !.tapped = @ \union {<<a, w>>}],
           st, assets)

\* An unknown token has no minter to mint it for the faucet.
TapAll(st, sender, w, assets) ==
  FoldLeft(LAMBDA s, a :
             IF a \in Tokens /\ info[a] = "unknown" THEN [s EXCEPT !.ok = FALSE]
             ELSE Pay(s, sender, w, a, 1, "tap"),
           st, assets)

Tap(sender, w, assets) ==
  LET list == WithoutGas(assets)
      topped == TopOff(Start, sender, w)
      asserted == IF sender \in admins THEN topped ELSE AssertTradingCompetition(topped, w, list)
      valid == [asserted EXCEPT !.ok = @ /\ Eligible(asserted, w, list)]
      paid == TapAll(valid, sender, w, list)
  IN Commit([paid EXCEPT !.lastTap[w] = now], <<w>>)

(***************************************************************************)
(* Multitap: an ineligible recipient is passed over.                       *)
(***************************************************************************)
SetTapped(st, w, assets) ==
  [st EXCEPT !.tapped =
     @ \union {<<w, assets[i]>> : i \in {j \in DOMAIN assets : IsCompetition(assets[j])}}]

\* The history of a batch counts how often it named a competition token.
Named(st, sender, w, assets) ==
  [st EXCEPT !.got[w] = [t \in Tokens |->
     IF IsCompetition(t) /\ sender \notin admins
       THEN [@[t] EXCEPT !.named = @ + Cardinality({i \in DOMAIN assets : assets[i] = t})]
       ELSE @[t]]]

\* Only deployed tokens with an amount for their name are paid.
MultitapAssets(st, sender, w, assets) ==
  FoldLeft(LAMBDA s, a :
             IF a = GasCoin THEN s
             ELSE IF info[a] = "unknown" \/ amount[a] = NotSet THEN s
             ELSE Pay(s, sender, w, a, amount[a], "batch"),
           st, assets)

MultitapSingle(st, sender, r) ==
  IF ~Eligible(st, r.addr, r.assets) THEN st
  ELSE LET marked == SetTapped([st EXCEPT !.lastTap[r.addr] = now], r.addr, r.assets)
           topped == TopOff(Named(marked, sender, r.addr, r.assets), sender, r.addr)
       IN MultitapAssets(topped, sender, r.addr, r.assets)

Multitap(sender, recipients) ==
  Commit(FoldLeft(LAMBDA st, r : MultitapSingle(st, sender, r), Start, recipients),
         [i \in DOMAIN recipients |-> recipients[i].addr])

(***************************************************************************)
(* Messages of the admins, and the world around.                           *)
(***************************************************************************)
Owner(sender) == sender \in admins /\ twice' = {} /\ UNCHANGED <<ledger, now>>

SetTapLimit(sender, l) ==
  Owner(sender) /\ limit' = l /\ UNCHANGED <<admins, allowance, info, amount>>

SetGasAllowance(sender, x) ==
  Owner(sender) /\ allowance' = x /\ UNCHANGED <<admins, limit, info, amount>>

AddAdmin(sender, w) ==
  /\ Owner(sender)
  /\ w \notin admins
  /\ admins' = admins \union {w}
  /\ UNCHANGED <<limit, allowance, info, amount>>

RemoveAdmin(sender, w) ==
  /\ Owner(sender)
  /\ w \in admins
  /\ admins' = admins \ {w}
  /\ UNCHANGED <<limit, allowance, info, amount>>

\* The instantiation and its reply are part of the same transaction.
DeployToken(sender, t, kind) ==
  /\ Owner(sender)
  /\ info[t] = "unknown"
  /\ info' = [info EXCEPT ![t] = kind]
  /\ UNCHANGED <<admins, limit, allowance, amount>>

SetMultitapAmount(sender, t, x) ==
  /\ Owner(sender)
  /\ amount' = [amount EXCEPT ![t] = x]
  /\ UNCHANGED <<admins, limit, allowance, info>>

SpendGas(w) ==
  /\ gas[w] > 0
  /\ gas' = [gas EXCEPT ![w] = @ - 1]
  /\ twice' = {}
  /\ UNCHANGED <<config, lastTap, tapped, history, total, got, taps, now>>

Tick ==
  /\ now < MaxTime
  /\ now' = now + 1
  /\ twice' = {}
  /\ UNCHANGED <<config, ledger>>

Next ==
  \/ \E s \in Wallets :
       \/ /\ taps < MaxTaps
          /\ \/ \E w \in Wallets, assets \in Pages : Tap(s, w, assets)
             \/ \E rs \in Lists([addr : Wallets, assets : Pages], MaxRecipients) :
                  Multitap(s, rs)
       \/ \E l \in Limits : SetTapLimit(s, l)
       \/ \E x \in Allowances : SetGasAllowance(s, x)
       \/ \E w \in Wallets : AddAdmin(s, w)
       \/ \E w \in Wallets : RemoveAdmin(s, w)
       \/ \E t \in Tokens, kind \in {"plain", "competition"} : DeployToken(s, t, kind)
       \/ \E t \in Tokens, x \in {0, 1} : SetMultitapAmount(s, t, x)
  \/ \E w \in Wallets : SpendGas(w)
  \/ Tick

Spec == Init /\ [][Next]_vars

(***************************************************************************)
(* Properties.                                                             *)
(***************************************************************************)

\* The faucet raises a wallet's gas to the allowance and no further, whatever
\* taps and batches ask for.  Without a tap limit there is one exception: a wallet
\* that a batch names more than once gets the difference each time, as the bank
\* still shows the balance from before (multitap.rs:58).
GasWithinAllowanceStep ==
  \A w \in Wallets :
    gas'[w] > gas[w] /\ allowance # 0 /\ (limit = NoLimit => w \notin twice')
      => gas'[w] <= allowance
GasWithinAllowance == [][GasWithinAllowanceStep]_vars

\* FundsSent for any time is what had been sent up to that time, all payments
\* of a block included, and later payments do not change it.
HistoryExactStep ==
  \A a \in Assets :
    /\ \A t \in 0..MaxTime :
         t < now => GetHistory(history'[a], t) = GetHistory(history[a], t)
    /\ GetHistory(history'[a], now') = total'[a]
HistoryExact == [][HistoryExactStep]_vars

\* What holds of the limit of the trading competition: without an admin a wallet
\* gets a token of a competition from one tap and then from one batch, which pays it
\* as often as it names the token, and nothing more.
OneTapOneBatchStep ==
  \A w \in Wallets, t \in Tokens :
    LET g == got[w][t]  g2 == got'[w][t]
    IN /\ g2.tap # g.tap => g.batch = 0 /\ g.tap = 0 /\ g2.tap = 1
       /\ g2.batch # g.batch => g.batch = 0 /\ g2.batch <= g2.named

\* "During the trading competition there is a limit of one faucet tap per person"
\* (contract.rs:290): without an admin nobody gets a competition token twice.  That
\* does not hold: Tap marks the pair of token and wallet, where batches look for
\* wallet and token (trading_competition.rs:85), and a batch does not look again
\* between the assets of one recipient (multitap.rs:51).
OneTapPerPerson == \A w \in Wallets, t \in Tokens : got[w][t].tap + got[w][t].batch <= 1
=============================================================================

------------------------------ MODULE BotFeeds ------------------------------
(***************************************************************************)
(* What the bots make of the ages of a market's price feeds                  *)
(* (util/oracle.rs): Pyth prices are loaded off chain, the others are taken  *)
(* from the chain; if none is too old and the volatile ones were published   *)
(* at about the same time, the market can be cranked, and a crank needs a    *)
(* Pyth update first when the prices in the Pyth contract are about to be    *)
(* too old.  The market checks the same ages when the crank gets there.      *)
(* All times are ages in seconds, up to a bound from which on they make no   *)
(* difference.                                                               *)
(***************************************************************************)
EXTENDS Integers, Sequences, SequencesExt, FiniteSetsExt

CONSTANTS
  Feeds,         \* [id, kind, tolerance, volatile], kind: "pyth", "stride", "rujira" or "constant"
  FeedsUsd,      \* feeds of the price in USD
  VolatileDiff,  \* volatile_diff_seconds
  MaxAge         \* bound on ages

ConstantsOK ==
  /\ VolatileDiff \in Nat /\ MaxAge \in Nat
  /\ \A f \in Range(Feeds \o FeedsUsd) : f.tolerance + 1 \in 1..MaxAge /\ (f.kind = "constant" => ~f.volatile)

Slack == 3   \* seconds a transaction takes to get to the chain

VARIABLES
  loaded,   \* ages of the off-chain prices the bot loaded
  onChain,  \* ages of the prices on the chain
  verdict   \* what the bot found, and how long ago

vars == <<loaded, onChain, verdict>>

AllFeeds == Feeds \o FeedsUsd
IdsOf(kind) == {f.id : f \in {g \in Range(AllFeeds) : g.kind = kind}}
PythIds == IdsOf("pyth")
ChainIds == PythIds \union IdsOf("stride")
Ages == 0..MaxAge
None == [result |-> "none", update |-> FALSE, since |-> 0]

Init ==
  /\ loaded = [id \in PythIds |-> MaxAge] /\ onChain = [id \in ChainIds |-> MaxAge]
  /\ verdict = None

Older(a) == IF a < MaxAge THEN a + 1 ELSE a

Tick ==
  /\ loaded' = [id \in PythIds |-> Older(loaded[id])]
  /\ onChain' = [id \in ChainIds |-> Older(onChain[id])]
  /\ verdict' = IF verdict = None \/ verdict.since > Slack THEN None
                ELSE [verdict EXCEPT !.since = @ + 1]

\* fetch_pyth_prices: later prices, published at any time since.
Load ==
  /\ loaded' \in {f \in [PythIds -> Ages] : \A id \in PythIds : f[id] <= loaded[id]}
  /\ UNCHANGED <<onChain, verdict>>

\* Somebody puts later prices on the chain.
Update(ids) ==
  /\ ids \in {PythIds} \union {{id} : id \in IdsOf("stride")}
  /\ onChain' \in {f \in [ChainIds -> Ages] : \A id \in ChainIds : IF id \in ids THEN f[id] <= onChain[id] ELSE f[id] = onChain[id]}
  /\ UNCHANGED <<loaded, verdict>>

AgeOf(f, pyth) ==
  CASE f.kind = "pyth" -> pyth[f.id] [] f.kind = "stride" -> onChain[f.id] [] OTHER -> 0

\* The ages of the volatile feeds; a constant has none.
VolatileAges(feeds, pyth) == {AgeOf(f, pyth) : f \in {g \in Range(feeds) : g.volatile}}

\* Mutant: the volatile feeds may be any time apart.
ComposeApart ==
  IF \E f \in Range(Feeds) : f.kind \in {"pyth", "stride"} /\ AgeOf(f, loaded) >= f.tolerance THEN "too old"
  ELSE IF VolatileAges(Feeds, loaded) = {} THEN "error" ELSE "price"

\* compose_oracle_feeds.  Without a volatile feed there is no publish time.
Compose ==
  IF \E f \in Range(Feeds) : f.kind \in {"pyth", "stride"} /\ AgeOf(f, loaded) >= f.tolerance THEN "too old"
  ELSE LET ages == VolatileAges(Feeds, loaded)
       IN IF ages = {} THEN "error"
          ELSE IF Max(ages) - Min(ages) > VolatileDiff THEN "too volatile" ELSE "price"

\* Mutant: no time is added for the transaction.
RequiresPythUpdateLate ==
  \E f \in Range(Feeds) : f.kind = "pyth" /\ onChain[f.id] >= f.tolerance + 1

RequiresPythUpdate ==
  \E f \in Range(Feeds) : f.kind = "pyth" /\ onChain[f.id] + Slack >= f.tolerance

\* get_latest_price
Check ==
  /\ verdict' = [result |-> Compose, update |-> RequiresPythUpdate, since |-> 0]
  /\ UNCHANGED <<loaded, onChain>>

Next == Tick \/ Load \/ Check \/ \E ids \in SUBSET ChainIds : Update(ids)
Spec == Init /\ [][Next]_vars

\* The market's own check of the ages of its feeds, which keeps the first
\* tolerance of an id.
MarketAges(feeds, pyth) == \A i \in DOMAIN feeds :
  feeds[i].kind \in {"pyth", "stride"} /\ (\A j \in 1..(i - 1) : feeds[j].id # feeds[i].id)
    => AgeOf(feeds[i], pyth) <= feeds[i].tolerance

\* And of the volatile feeds.
MarketVolatile(feeds, pyth) ==
  LET ages == VolatileAges(feeds, pyth) IN ages # {} /\ Max(ages) - Min(ages) <= VolatileDiff

----------------------------------------------------------------------------
\* When the bot finds a price, the market would take the feeds it is made of: the
\* bot's copy of the market's rules is not laxer than the market, over the feeds
\* the bot looks at.
MarketWouldTakeIt ==
  Compose = "price" => MarketAges(Feeds, loaded) /\ MarketVolatile(Feeds, loaded)

\* A crank the bot sends without a Pyth update does not meet a Pyth price that
\* is too old, if it gets to the chain within the slack, among those same feeds.
NoUpdateNeeded ==
  verdict.result = "price" /\ ~verdict.update /\ verdict.since <= Slack =>
    \A f \in Range(Feeds) : f.kind = "pyth" => onChain[f.id] <= f.tolerance

\* What does not hold: the same of all feeds of the market.  Those of the price in
\* USD are loaded with the others (oracle.rs:51), but the bot looks neither at their
\* ages nor at whether they need an update (oracle.rs:139).
MarketWouldTakeAll ==
  Compose = "price" => MarketAges(AllFeeds, loaded) /\ MarketVolatile(AllFeeds, loaded)
NoUpdateNeededAtAll ==
  verdict.result = "price" /\ ~verdict.update /\ verdict.since <= Slack =>
    \A f \in Range(AllFeeds) : f.kind = "pyth" => onChain[f.id] <= f.tolerance
=============================================================================

-------------------------- MODULE CopyTradingMarkets --------------------------
(***************************************************************************)
(* How the copy trading contract learns of the factory's markets.  It      *)
(* copies them page by page, in the order of their ids, and remembers the  *)
(* last id and the time of its last check.  When it is done it looks again *)
(* every six hours, but only if the factory added a market since.  Until   *)
(* the markets are loaded no request is worked on, and only loaded markets *)
(* are rebalanced and counted into the value of a share.                   *)
(***************************************************************************)
EXTENDS Integers, FiniteSets, FiniteSetsExt

CONSTANTS
  NumMarkets,       \* ids the factory may use, in their order
  PageSize,         \* markets per query (30)
  Period,           \* SIX_HOURS_IN_SECONDS
  MaxTime           \* bound: block time

Ids == 1..NumMarkets

ConstantsOK ==
  /\ NumMarkets \in Nat \ {0} /\ PageSize \in Nat \ {0} /\ Period \in Nat
  /\ MaxTime \in Nat

VARIABLES
  now,              \* block time
  listed,           \* the factory's MARKET_ADDRS
  lastAdded,        \* its MARKET_LAST_ADDED
  known,            \* MARKETS, MARKETS_TOKEN
  loader,           \* MARKET_LOADER_STATUS
  lastCheck,        \* LAST_MARKET_ADD_CHECK
  missed            \* history: markets listed behind the last one seen, and in
                    \* the block of a check after which the loader was finished

vars == <<now, listed, lastAdded, known, loader, lastCheck, missed>>

Never == 0
NoMarket == 0
Status(s, id) == [status |-> s, lastSeen |-> id]

\* The factory may have markets from before it stored MARKET_LAST_ADDED.
Init ==
  /\ now = 1
  /\ listed \in SUBSET Ids
  /\ lastAdded = Never
  /\ known = {}
  /\ loader = Status("NotStarted", NoMarket)
  /\ lastCheck = Never
  /\ missed = [behind |-> {}, sameBlock |-> {}]

Tick ==
  /\ now < MaxTime
  /\ now' = now + 1
  /\ UNCHANGED <<listed, lastAdded, known, loader, lastCheck, missed>>

\* save_market_addr of the factory, at any time and in any order of the ids.
AddMarket(id) ==
  /\ id \notin listed
  /\ listed' = listed \cup {id}
  /\ lastAdded' = now
  /\ missed' = [behind |-> missed.behind \cup (IF id < loader.lastSeen THEN {id} ELSE {}),
                sameBlock |-> missed.sameBlock \cup
                  (IF loader.status = "Finished" /\ lastCheck = now THEN {id} ELSE {})]
  /\ UNCHANGED <<now, known, loader, lastCheck>>

\* get_work: is LoadMarket what has to be done?
LoadMarketDue ==
  loader.status = "Finished" => lastCheck + Period < now

\* Mutant: the last ones instead of the next ones.
NextPageLatest(after) ==
  LET later == {id \in listed : id > after} IN
  {id \in later : Cardinality({k \in later : k > id}) < PageSize}

\* load_market_ids
NextPage(after) ==
  LET later == {id \in listed : id > after} IN
  {id \in later : Cardinality({k \in later : k < id}) < PageSize}

\* Mutant: the markets after the last one seen are not asked for any more.
NothingNewEver == loader.status = "Finished"

\* A finished loader only asks for markets when the factory added one since.
NothingNew ==
  /\ loader.status = "Finished"
  /\ lastAdded = Never \/ lastCheck >= lastAdded

\* Mutant: an empty page changes nothing.
LoadedGoesOn(page) == IF page # {} THEN Status("OnGoing", Max(page)) ELSE loader

Loaded(page) ==
  IF page # {} THEN Status("OnGoing", Max(page))
  ELSE IF loader.lastSeen = NoMarket THEN loader
  ELSE Status("Finished", loader.lastSeen)

\* Mutant: stores when the next check is due.
LoadMarketNextCheck ==
  /\ LoadMarketDue
  /\ LET page == NextPage(loader.lastSeen) IN
       /\ known' = known \cup page
       /\ loader' = Loaded(page)
  /\ lastCheck' = now + Period
  /\ UNCHANGED <<now, listed, lastAdded, missed>>

\* batched_stored_market_info.  Without a time to compare with, the time of
\* the check is not stored either.
LoadMarket ==
  /\ LoadMarketDue
  /\ IF NothingNew
       THEN /\ lastCheck' = IF lastAdded = Never THEN lastCheck ELSE now
            /\ UNCHANGED <<known, loader>>
       ELSE LET page == NextPage(loader.lastSeen) IN
            /\ known' = known \cup page
            /\ loader' = Loaded(page)
            /\ lastCheck' = now
  /\ UNCHANGED <<now, listed, lastAdded, missed>>

Next ==
  \/ Tick
  \/ \E id \in Ids : AddMarket(id)
  \/ LoadMarket

\* Bots call DoWork while there is work, and blocks are made.
Fairness == WF_vars(LoadMarket) /\ WF_vars(Tick)

Spec == Init /\ [][Next]_vars /\ Fairness

------------------------------------------------------------------------------
(* Properties.                                                             *)

\* The stored state has its type, and the times are in the past.
TypeOK ==
  /\ now \in 1..MaxTime /\ lastAdded \in 0..now /\ lastCheck \in 0..now
  /\ listed \subseteq Ids /\ known \subseteq listed
  /\ loader \in [status : {"NotStarted", "OnGoing", "Finished"}, lastSeen : 0..NumMarkets]
  /\ missed \in [behind : SUBSET listed, sameBlock : SUBSET listed]

\* The last id seen stands for all that were copied: no market before it is
\* missing, however markets are added between two pages (common.rs:141), but for
\* those the factory lists behind it: it does not add them in the order of their
\* ids, and the loader never goes back.
CopiedUpToLastSeen ==
  \A id \in listed : id <= loader.lastSeen => id \in known \cup missed.behind

\* The time of the last check is "needed to efficiently check if a new market
\* was added" (state.rs:71): a market listed in time for another check, one
\* period after the last market was added, becomes known.  Not one that is listed
\* behind the last id seen, nor one that is listed in the block of a check, after
\* it: its time is not later than the check's (common.rs:125).
EveryMarketKnown ==
  \A id \in Ids :
    id \in listed /\ now + Period < MaxTime
      ~> id \in known \cup missed.behind \cup missed.sameBlock

\* Loading markets goes before every request (work.rs:213): once there are
\* markets it always comes to an end, so that requests get their turn.  Unless
\* the factory has added none since it stores the time: then no check counts, and
\* one is due for ever.
RequestsGetTheirTurn ==
  listed # {} ~> ~LoadMarketDue \/ (loader.status = "Finished" /\ lastAdded = Never)

==============================================================================

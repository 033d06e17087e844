---------------------------- MODULE BotDirectory ----------------------------
(***************************************************************************)
(* What the bots know of the contracts a factory made, and the work they   *)
(* do for them: the factory task reads the markets and the copy trading    *)
(* contracts added since its last look, the copy trading task does the     *)
(* work of every contract it knows, and the counter trade task does the    *)
(* work of every market, creating the market's contract first when it      *)
(* knows of none.  Any query or transaction can fail, and the process can  *)
(* be restarted.                                                           *)
(***************************************************************************)
EXTENDS Integers, Sequences, FiniteSets, FiniteSetsExt, SequencesExt

CONSTANTS
  MaxContracts,  \* copy trading contracts ever added
  Page,          \* contracts of one answer; QUERY_LIMIT_DEFAULT in the factory
  Markets,       \* markets by the order of their ids: 1..n
  Ignored,       \* config.ignored_markets
  Poison,        \* contracts whose DoWork always fails
  Restarts,      \* whether the process may be restarted
  Lost           \* whether a counter trade contract can be made without the
                 \* bot learning of it

ConstantsOK ==
  /\ MaxContracts \in Nat /\ Page \in Nat \ {0}
  /\ Markets \in SUBSET (Nat \ {0}) /\ IsFiniteSet(Markets)
  /\ Ignored \subseteq Markets
  /\ {Restarts, Lost} \subseteq BOOLEAN

VARIABLES
  added,    \* copy trading contracts in the factory, numbered from 1
  stamp,    \* COPY_TRADING_LAST_ADDED; blocks with additions are numbered
  status,   \* of each market: not in the factory, open or wound down
  work,     \* copy trading contracts with work to do
  ctMade,   \* markets whose counter trade contract exists
  ctWork,   \* markets whose counter trade contract has work
  markets,  \* App::factory: the markets listed
  list,     \* App::copy_trading: addresses, start_after, last_updated
  task,     \* the factory task
  todo,     \* contracts the run of the copy trading task is busy with
  ctKnown,  \* App::counter_trade: markets whose contract is remembered
  ct,       \* what the counter trade task does for each market
  late,     \* history: contracts added between the last page that was read and
            \* the time that was stored with it
  untold    \* history: markets whose counter trade contract the bots were not
            \* told of

vars == <<added, stamp, status, work, ctMade, ctWork, markets, list, task, todo,
          ctKnown, ct, late, untold>>

chain == <<added, stamp, status, work, ctMade, ctWork>>
history == <<late, untold>>

\* start_after = 0 stands for None, as does a list that was never set.
NoList == [addresses |-> <<>>, startAfter |-> 0, lastUpdated |-> 0]

\* A run of the factory task, the start of the process included; a run may be
\* one in which a query fails.
Run(boot, fails) ==
  [pc |-> "markets", boot |-> boot, fails |-> fails, found |-> {}, after |-> 0, result |-> <<>>]

Idle == [Run(FALSE, FALSE) EXCEPT !.pc = "idle"]
Off == [Run(TRUE, FALSE) EXCEPT !.pc = "off"]

Known == ToSet(list.addresses)

Init ==
  /\ added = 0 /\ stamp = 0 /\ work = {}
  /\ status = [m \in Markets |-> "none"]
  /\ ctMade = {} /\ ctWork = {}
  /\ markets = {} /\ list = NoList /\ task = Off
  /\ todo = {} /\ ctKnown = {} /\ ct = [m \in Markets |-> "idle"]
  /\ late = {} /\ untold = {}

(***************************************************************************)
(* The chain.                                                              *)
(***************************************************************************)

\* A block adds k contracts, each with a number of its own; all have the
\* block's time.
AddCopyTrading(k) ==
  /\ added + k <= MaxContracts
  /\ added' = added + k /\ stamp' = stamp + 1
  /\ UNCHANGED <<status, work, ctMade, ctWork, markets, list, task, todo, ctKnown,
                 ct, history>>

AddMarket(m) ==
  /\ status[m] = "none" /\ status' = [status EXCEPT ![m] = "open"]
  /\ UNCHANGED <<added, stamp, work, ctMade, ctWork, markets, list, task, todo, ctKnown,
                 ct, history>>

CloseMarket(m) ==
  /\ status[m] = "open" /\ status' = [status EXCEPT ![m] = "wound down"]
  /\ UNCHANGED <<added, stamp, work, ctMade, ctWork, markets, list, task, todo, ctKnown,
                 ct, history>>

NewWork(c) ==
  /\ c <= added /\ c \notin work /\ work' = work \union {c}
  /\ UNCHANGED <<added, stamp, status, ctMade, ctWork, markets, list, task, todo, ctKnown,
                 ct, history>>

NewCtWork(m) ==
  /\ m \in ctMade /\ m \notin ctWork /\ ctWork' = ctWork \union {m}
  /\ UNCHANGED <<added, stamp, status, work, ctMade, markets, list, task, todo, ctKnown,
                 ct, history>>

\* Anyone may ask the factory for a market's counter trade contract.
OthersAddCounterTrade(m) ==
  /\ Lost /\ status[m] # "none" /\ m \notin ctMade /\ ctMade' = ctMade \union {m}
  /\ untold' = untold \union {m}
  /\ UNCHANGED <<added, stamp, status, work, ctWork, markets, list, task, todo, ctKnown,
                 ct, late>>

(***************************************************************************)
(* The factory task.  Each step is one query; between two of them          *)
(* anything may be added.                                                  *)
(***************************************************************************)

Rest == <<added, stamp, status, work, ctMade, ctWork, todo, ct>>

\* Start of the process: markets, then all copy trading contracts, then the
\* counter trade contracts.
Boot(fails) ==
  /\ task.pc = "off" /\ task' = Run(TRUE, fails)
  /\ UNCHANGED <<markets, list, ctKnown>> /\ UNCHANGED Rest /\ UNCHANGED history

StartFactoryRun(fails) ==
  /\ task.pc = "idle" /\ task' = Run(FALSE, fails)
  /\ UNCHANGED <<markets, list, ctKnown>> /\ UNCHANGED Rest /\ UNCHANGED history

\* An answer to a question for the members of S after the last one seen.
PageOf(S) ==
  LET ids == {m \in S : m > task.after}
  IN {m \in ids : Cardinality({k \in ids : k < m}) < Page}

MarketsPageAll ==
  LET page == PageOf({m \in Markets : status[m] # "none"})
  IN /\ task.pc = "markets" /\ page # {}
     /\ task' = [task EXCEPT !.after = Max(page), !.found = @ \union page]
     /\ UNCHANGED <<markets, list, ctKnown>> /\ UNCHANGED Rest /\ UNCHANGED history

\* The next page of market ids, each market asked for its state; wound down
\* and ignored markets are left out.
MarketsPage ==
  LET page == PageOf({m \in Markets : status[m] # "none"})
  IN /\ task.pc = "markets" /\ page # {}
     /\ task' = [task EXCEPT !.after = Max(page),
                   !.found = @ \union {m \in page \ Ignored : status[m] = "open"}]
     /\ UNCHANGED <<markets, list, ctKnown>> /\ UNCHANGED Rest /\ UNCHANGED history

MarketsDoneAdds ==
  /\ task.pc = "markets" /\ PageOf({m \in Markets : status[m] # "none"}) = {}
  /\ markets' = markets \union task.found
  /\ task' = [task EXCEPT !.pc = IF list = NoList THEN "pages" ELSE "look", !.after = 0]
  /\ UNCHANGED <<list, ctKnown>> /\ UNCHANGED Rest /\ UNCHANGED history

\* The list of markets is replaced before anything else can fail.
MarketsDone ==
  /\ task.pc = "markets" /\ PageOf({m \in Markets : status[m] # "none"}) = {}
  /\ markets' = task.found
  /\ task' = [task EXCEPT !.pc = IF list = NoList THEN "pages" ELSE "look", !.after = 0]
  /\ UNCHANGED <<list, ctKnown>> /\ UNCHANGED Rest /\ UNCHANGED history

LookOnce ==
  /\ task.pc = "look"
  /\ task' = Idle
  /\ UNCHANGED <<markets, list, ctKnown>> /\ UNCHANGED Rest /\ UNCHANGED history

\* optimized_copy_trading_update: nothing is read when nothing was added.
Look ==
  /\ task.pc = "look"
  /\ task' = IF list.lastUpdated = stamp THEN Idle
             ELSE [task EXCEPT !.pc = "pages", !.after = list.startAfter]
  /\ UNCHANGED <<markets, list, ctKnown>> /\ UNCHANGED Rest /\ UNCHANGED history

PagesAfter(after, total) ==
  [i \in 1..Min({Page, total - after}) |-> after + i]

\* get_copy_trading_addresses asks for pages until one is empty, and reads the
\* time of the last addition after that.
Listed == IF task.boot THEN [task EXCEPT !.pc = "counters", !.after = 0] ELSE Idle

CopyTradingPage ==
  LET page == PagesAfter(task.after, added)
  IN /\ task.pc = "pages"
     /\ task' = IF page # <<>>
                THEN [task EXCEPT !.after = Last(page), !.result = @ \o page]
                ELSE IF task.after = 0 THEN Listed ELSE [task EXCEPT !.pc = "time"]
     /\ UNCHANGED <<markets, list, ctKnown>> /\ UNCHANGED Rest /\ UNCHANGED history

MergeKeepsPlace(old, result, after, time) ==
  [addresses |-> old.addresses \o result, startAfter |-> old.startAfter, lastUpdated |-> time]

Merge(old, result, after, time) ==
  [addresses |-> old.addresses \o result, startAfter |-> after, lastUpdated |-> time]

SetCopyTrading ==
  /\ task.pc = "time"
  /\ list' = Merge(list, task.result, task.after, stamp)
  /\ task' = Listed
  /\ late' = (task.after + 1)..added
  /\ UNCHANGED <<markets, ctKnown, untold>> /\ UNCHANGED Rest

\* get_countertrade_addresses, at the start only.
CounterPage ==
  LET page == PageOf(ctMade)
  IN /\ task.pc = "counters"
     /\ ctKnown' = ctKnown \union page
     /\ untold' = untold \ page
     /\ task' = IF page = {} THEN Idle ELSE [task EXCEPT !.after = Max(page)]
     /\ UNCHANGED <<markets, list, late>> /\ UNCHANGED Rest

\* A failed query ends the run; at the start it ends the process, which is
\* started again.
FactoryRunFails ==
  /\ task.fails /\ task.pc \notin {"idle", "off"}
  /\ IF task.boot
     THEN markets' = {} /\ list' = NoList /\ ctKnown' = {} /\ task' = Off /\ late' = {}
     ELSE task' = Idle /\ UNCHANGED <<markets, list, ctKnown, late>>
  /\ UNCHANGED untold /\ UNCHANGED Rest

(***************************************************************************)
(* The copy trading task.                                                  *)
(***************************************************************************)

StartWorkFirst ==
  /\ ~task.boot /\ todo = {} /\ list.addresses # <<>> /\ todo' = {Head(list.addresses)}
  /\ UNCHANGED <<chain, markets, list, task, ctKnown, ct, history>>

StartWork ==
  /\ ~task.boot /\ todo = {} /\ list.addresses # <<>> /\ todo' = Known
  /\ UNCHANGED <<chain, markets, list, task, ctKnown, ct, history>>

\* HasWork, and DoWork while there is work; the contract is left alone for
\* this run once it has none or an execution failed.
DoWork(c) ==
  /\ c \in todo /\ c \in work /\ c \notin Poison
  /\ work' \in {work, work \ {c}} /\ UNCHANGED todo
  /\ UNCHANGED <<added, stamp, status, ctMade, ctWork, markets, list, task, ctKnown,
                 ct, history>>

LeaveContract(c) ==
  /\ c \in todo
  /\ todo' = todo \ {c}
  /\ UNCHANGED <<chain, markets, list, task, ctKnown, ct, history>>

(***************************************************************************)
(* The counter trade task, one run per listed market.                      *)
(***************************************************************************)

CtRest == <<added, stamp, status, work, markets, list, task, todo, late>>

CtStartAssumes(m) ==
  /\ ~task.boot /\ ct[m] = "idle" /\ m \in markets
  /\ ct' = [ct EXCEPT ![m] = "query"]
  /\ UNCHANGED <<ctMade, ctWork, ctKnown, untold>> /\ UNCHANGED CtRest

CtStart(m) ==
  /\ ~task.boot /\ ct[m] = "idle" /\ m \in markets
  /\ ct' = [ct EXCEPT ![m] = IF m \in ctKnown THEN "query" ELSE "create"]
  /\ UNCHANGED <<ctMade, ctWork, ctKnown, untold>> /\ UNCHANGED CtRest

CtCreateForgets(m) ==
  /\ ct[m] = "create" /\ m \notin ctMade
  /\ ctMade' = ctMade \union {m}
  /\ UNCHANGED ctKnown /\ ct' = [ct EXCEPT ![m] = "query"]
  /\ UNCHANGED <<ctWork, untold>> /\ UNCHANGED CtRest

\* AddCounterTrade fails when the market has a contract; its answer carries
\* the address.  An answer can be lost after the contract was made: the wait
\* for the transaction ends in an error, or the watcher cuts the run off.
CtCreate(m) ==
  /\ ct[m] = "create" /\ m \notin ctMade
  /\ ctMade' = ctMade \union {m}
  /\ \/ /\ ctKnown' = ctKnown \union {m} /\ ct' = [ct EXCEPT ![m] = "query"]
        /\ UNCHANGED untold
     \/ /\ Lost /\ UNCHANGED ctKnown /\ ct' = [ct EXCEPT ![m] = "idle"]
        /\ untold' = untold \union {m}
  /\ UNCHANGED ctWork /\ UNCHANGED CtRest

CtWork(m) ==
  /\ ct[m] = "query" /\ m \in ctWork
  /\ ctWork' = ctWork \ {m} /\ ct' = [ct EXCEPT ![m] = "idle"]
  /\ UNCHANGED <<ctMade, ctKnown, untold>> /\ UNCHANGED CtRest

\* No work, or an execution, a query or the creation failed.
CtEnd(m) ==
  /\ ct[m] # "idle" /\ ct' = [ct EXCEPT ![m] = "idle"]
  /\ UNCHANGED <<ctMade, ctWork, ctKnown, untold>> /\ UNCHANGED CtRest

\* Everything the process knows is forgotten, and read again from the factory.
Restart ==
  /\ Restarts /\ ~task.boot
  /\ markets' = {} /\ list' = NoList /\ task' = Off
  /\ todo' = {} /\ ctKnown' = {} /\ ct' = [m \in Markets |-> "idle"]
  /\ late' = {} /\ UNCHANGED untold
  /\ UNCHANGED chain

Next ==
  \/ \E k \in 1..2 : AddCopyTrading(k)
  \/ \E m \in Markets :
       \/ AddMarket(m) \/ CloseMarket(m) \/ NewCtWork(m) \/ OthersAddCounterTrade(m)
       \/ CtStart(m) \/ CtCreate(m) \/ CtWork(m) \/ CtEnd(m)
  \/ \E c \in 1..MaxContracts : NewWork(c) \/ DoWork(c) \/ LeaveContract(c)
  \/ \E fails \in BOOLEAN : Boot(fails) \/ StartFactoryRun(fails)
  \/ MarketsPage \/ MarketsDone \/ Look
  \/ CopyTradingPage \/ SetCopyTrading \/ CounterPage \/ FactoryRunFails
  \/ StartWork \/ Restart

Query == MarketsPage \/ MarketsDone \/ Look \/ CopyTradingPage \/ SetCopyTrading \/ CounterPage

\* The watcher starts the tasks again and again, whether or not they failed.  A
\* run in which no query fails, and a transaction that succeeds, come again and
\* again.
Fairness ==
  /\ WF_vars(Boot(TRUE) \/ Boot(FALSE)) /\ SF_vars(Boot(FALSE))
  /\ WF_vars(StartFactoryRun(TRUE) \/ StartFactoryRun(FALSE)) /\ SF_vars(StartFactoryRun(FALSE))
  /\ WF_vars(Query \/ FactoryRunFails)
  /\ WF_vars(StartWork)
  /\ \A c \in 1..MaxContracts :
       /\ WF_vars(LeaveContract(c))
       /\ SF_vars(DoWork(c) /\ work' # work)
  /\ \A m \in Markets :
       /\ WF_vars(CtStart(m)) /\ WF_vars(CtEnd(m))
       /\ SF_vars(CtCreate(m)) /\ SF_vars(CtWork(m))

Spec == Init /\ [][Next]_vars /\ Fairness

(***************************************************************************)
(* Properties                                                              *)
(***************************************************************************)

TypeOK ==
  /\ added \in 0..MaxContracts /\ stamp \in 0..MaxContracts
  /\ status \in [Markets -> {"none", "open", "wound down"}]
  /\ work \subseteq 1..MaxContracts /\ todo \subseteq 1..MaxContracts
  /\ ctWork \subseteq ctMade /\ ctMade \subseteq Markets
  /\ markets \subseteq Markets \ Ignored /\ ctKnown \subseteq Markets
  /\ ct \in [Markets -> {"idle", "create", "query"}]
  /\ late \subseteq 1..MaxContracts /\ untold \subseteq ctMade

\* The list holds the contracts in the order they were added, none twice and
\* none left out, up to the place the next look starts from: merging what a look
\* found after start_after (merge) keeps the list a prefix of the factory's.
ListIsPrefix ==
  list.addresses = [i \in 1..list.startAfter |-> i]

\* When the factory task compares the time of the last addition with the one
\* it remembers and they differ, every contract there is at that moment gets to
\* be known, whatever fails, unless the process restarts in between.
NewsFound ==
  \A c \in 1..MaxContracts :
    (task.pc = "look" /\ list.lastUpdated # stamp /\ c <= added) ~> (c \in Known)

\* "No new contracts have been added" (factory.rs): when the remembered time is
\* that of the last addition, the bots know every contract.  They do not: the time
\* is read after the last page (copy_trade.rs:67), and a contract that is added in
\* between is as old as that time.
NothingMissed ==
  (list # NoList /\ list.lastUpdated = stamp) => Known = 1..added

\* What holds: those are the only ones that are missing then, ...
OnlyLateMissed ==
  (list # NoList /\ list.lastUpdated = stamp) => Known = (1..added) \ late

\* ... and every contract gets to be known, unless it is one of them, which are
\* found only after yet another one is added.
EveryContractFound ==
  \A c \in 1..MaxContracts : c <= added ~> c \in Known \union late

\* The work of a contract the bots know gets done, also when another contract's
\* work always fails (run_single_copy_trading in parallel).
WorkServed ==
  \A c \in 1..MaxContracts \ Poison :
    [](c \in Known /\ c \in work => <>(c \notin work \/ list = NoList))

\* A market that stays open is listed, and one that is wound down is dropped
\* (get_markets), although pages and states are read at different times.
MarketListed ==
  \A m \in Markets \ Ignored :
    /\ <>[](status[m] = "open") => <>[](m \in markets)
    /\ (status[m] = "wound down") ~> (m \notin markets)

\* Work of the counter trade contract of a listed market gets done, when the bots
\* were told of the contract: they make it when there is none and remember it
\* (single_market).  Of one that somebody else made, or whose answer was lost, they
\* are not told before the process starts again, and every run fails at the
\* creation.
CounterServed ==
  \A m \in Markets :
    []((m \in ctWork /\ [](m \in markets)) => <>(m \notin ctWork \/ m \in untold))

\* A market that stays listed gets a counter trade contract, whether the bots or
\* somebody else make it.
CounterMade ==
  \A m \in Markets : <>[](m \in markets) => <>(m \in ctMade)

\* The bots remember a counter trade contract only when there is one, and every
\* one they were told of, since the process started or before (CounterPage); and a
\* run past the creation always has it: two creations for one market never both
\* succeed ("Countertrade contract already exists", countertrade.rs).
KnownAreMade ==
  /\ ctKnown \subseteq ctMade
  /\ ~task.boot => ctMade \subseteq ctKnown \union untold
  /\ \A m \in Markets : ct[m] = "query" => m \in ctKnown
=============================================================================

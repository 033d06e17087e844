------------------------------ MODULE BotPrice ------------------------------
(***************************************************************************)
(* The price task of the bots: it compares the latest off-chain price with *)
(* the oracle contract and the markets, decides which markets need a price *)
(* or a crank, pushes the price and cranks the first markets in one        *)
(* transaction, hands the rest to the crank runners, and hands urgent work *)
(* to the high gas task.                                                   *)
(*                                                                         *)
(* Times are ages: how long before the newest off-chain price something    *)
(* was published or created.  Prices are published at even ages, work      *)
(* items are created at any age, at -1 when no price is as new as they are.*)
(***************************************************************************)
EXTENDS Integers, FiniteSets, FiniteSetsExt

CONSTANTS
  Markets,
  Poison,      \* markets whose crank always fails
  Limit,       \* markets cranked in the multi message transaction; 5 in the code
  Threshold,   \* on_chain_publish_time_age_threshold
  Tolerance,   \* age from which the market rejects the oracle's price
  Slots,       \* slots of the high gas channel
  Source,      \* of prices: "pyth" off-chain, "native" to the chain, or "manual"
  Items,       \* whether deferred items arrive
  Hits         \* whether prices move so that they trigger orders

ConstantsOK ==
  /\ Poison \subseteq Markets /\ IsFiniteSet(Markets)
  /\ {Limit, Slots} \subseteq Nat \ {0} /\ {Threshold, Tolerance} \subseteq Nat
  /\ Source \in {"pyth", "native", "manual"}
  /\ {Items, Hits} \subseteq BOOLEAN

Pyth == Source = "pyth"
Cap == Max({Threshold + 2, Tolerance})
NoItem == -2

VARIABLES
  oracle,   \* age of the price in the oracle contract
  mkt,      \* age of the newest price point of each market
  item,     \* age of the pending deferred item of each market, or NoItem
  hit,      \* where the price is that triggers an order of each market
  huge,     \* whether the price moved by more than exposure_margin_ratio
  queue,    \* markets handed to the crank runners
  task,     \* the price task: where it is, what it found
  error,    \* whether its last run ended in an error
  work,     \* HighGasTrigger.current_work: the markets in it
  tokens,   \* values in the high gas channel
  high      \* what the high gas task is doing, and its markets

vars == <<oracle, mkt, item, hit, huge, queue, task, error, work, tokens, high>>

chain == <<oracle, mkt, item, hit>>

Idle == [pc |-> "load", todo |-> {}, batch |-> {}]

Init ==
  /\ oracle = (IF Pyth THEN Cap ELSE 0) /\ mkt = [m \in Markets |-> Cap]
  /\ item = [m \in Markets |-> NoItem]
  /\ hit = [m \in Markets |-> "none"] /\ huge = FALSE
  /\ queue = {} /\ task = Idle /\ error = FALSE
  /\ work = {} /\ tokens = 0 /\ high = [pc |-> "receive", markets |-> {}]

(***************************************************************************)
(* The chain and the world outside.                                        *)
(***************************************************************************)

Older(a, cap) == Min({a + 2, cap})

\* A new price is published; an item stays older or newer than the market's
\* price when both are as old as ages go.  The chain's own oracles have it at
\* once.
Tick ==
  /\ oracle' = IF Pyth THEN Older(oracle, Cap) ELSE 0
  /\ mkt' = [m \in Markets |-> Older(mkt[m], Cap)]
  /\ item' = [m \in Markets |->
       IF item[m] = NoItem THEN NoItem
       ELSE Older(item[m], IF item[m] > mkt[m] THEN Cap + 1 ELSE Cap)]
  /\ UNCHANGED <<hit, huge, queue, task, error, work, tokens, high>>

NewItem(m) ==
  /\ Items /\ item[m] = NoItem
  /\ \E a \in {-1, 0} : item' = [item EXCEPT ![m] = a]
  /\ UNCHANGED <<oracle, mkt, hit, huge, queue, task, error, work, tokens, high>>

\* The off-chain price crosses a trigger, or crosses it back.  A price of the
\* chain's own is in the oracle when it does; the bots only compare it with
\* the market's price the other way round, and see the triggers on that way.
PriceMoves(m) ==
  /\ Hits /\ Source # "manual" /\ hit[m] \in {"none", "coming"}
  /\ \E h \in IF Pyth THEN {"coming"} ELSE {"coming", "oracle"} :
       hit' = [hit EXCEPT ![m] = IF @ = "none" THEN h ELSE "none"]
  /\ huge' \in BOOLEAN
  /\ UNCHANGED <<oracle, mkt, item, queue, task, error, work, tokens, high>>

\* The administrator of a market sets its price, and it may trigger an order.
ManualPrice(m) ==
  /\ Source = "manual"
  /\ mkt' = [mkt EXCEPT ![m] = 0]
  /\ hit' \in {hit} \union IF Hits THEN {[hit EXCEPT ![m] = "market"]} ELSE {}
  /\ UNCHANGED <<oracle, item, huge, queue, task, error, work, tokens, high>>

\* A transaction that puts the newest price into the oracle contract and
\* cranks some markets: their price points and what they can execute.  With
\* no executions asked for, only the price is stored.
ChainStep(price, cranked, execute) ==
  LET now == IF price THEN 0 ELSE oracle
      moved(h) == IF (price \/ ~Pyth) /\ h = "coming" THEN "oracle" ELSE h
  IN /\ oracle' = now
     /\ mkt' = [m \in Markets |->
          IF m \in cranked /\ Source # "manual" THEN now ELSE mkt[m]]
     /\ item' = [m \in Markets |->
          IF m \in cranked /\ execute /\ item[m] > mkt'[m] THEN NoItem ELSE item[m]]
     /\ hit' = [m \in Markets |->
          IF m \in cranked /\ moved(hit[m]) \in {"oracle", "market"}
          THEN IF execute THEN "none" ELSE "market"
          ELSE IF price THEN moved(hit[m]) ELSE hit[m]]

CanCrank(price, ms) == ms \intersect Poison = {} /\ (price \/ oracle < Tolerance \/ ms = {})

\* The market's status lists work it can do with the prices it has.
WorkAvailable(m) == hit[m] = "market" \/ (item[m] # NoItem /\ item[m] > mkt[m])

(***************************************************************************)
(* What the price task makes of a market.                                  *)
(***************************************************************************)

\* No update for the age of a price alone.
ReasonAgeless(m) ==
  CASE hit[m] = "coming" -> "price will trigger"
    [] 0 <= item[m] /\ item[m] < oracle -> "needs new price"
    [] OTHER -> IF (item[m] # NoItem /\ item[m] >= oracle) \/ WorkAvailable(m)
                THEN "work available" ELSE "nothing"

\* Markets without off-chain prices are passed over.
ReasonPythOnly(m) ==
  IF Pyth /\ WorkAvailable(m) THEN "work available" ELSE "nothing"

\* NeedsPriceUpdateInfo::actions, and check_market_needs_crank for markets
\* without off-chain prices.
Reason(m) ==
  CASE ~Pyth -> IF WorkAvailable(m) THEN "work available"
                ELSE IF hit[m] = "coming" THEN "price will trigger" ELSE "nothing"
    [] Pyth /\ hit[m] = "coming" -> "price will trigger"
    [] Pyth /\ hit[m] # "coming" /\ mkt[m] > Threshold -> "too old"
    [] Pyth /\ hit[m] # "coming" /\ mkt[m] <= Threshold /\ 0 <= item[m] /\ item[m] < oracle
         -> "needs new price"
    [] OTHER -> IF (item[m] # NoItem /\ item[m] >= oracle) \/ WorkAvailable(m)
                THEN "work available" ELSE "nothing"

\* CrankTriggerReason::needs_price_update; the oracle's price is about to be
\* too old when the tolerance is a step away.
NeedsPriceUpdate(m) ==
  \/ Reason(m) \in {"price will trigger", "too old", "needs new price"}
  \/ Pyth /\ Reason(m) = "work available" /\ oracle + 2 >= Tolerance

\* All markets are checked.  Without a price update the work is handed over
\* at once; otherwise the first markets to answer go into the transaction.
Check ==
  LET todo == {m \in Markets : Reason(m) # "nothing"}
      urgent == Pyth /\ huge /\ \E m \in todo : Reason(m) = "price will trigger"
  IN /\ task.pc = "load"
     /\ IF \E m \in todo : NeedsPriceUpdate(m)
        THEN /\ \E batch \in SUBSET todo :
                  /\ Cardinality(batch) = Min({Limit, Cardinality(todo)})
                  /\ task' = [pc |-> IF urgent THEN "signal" ELSE "multi",
                              todo |-> todo, batch |-> batch]
             /\ work' = IF urgent THEN work \union todo ELSE work
             /\ UNCHANGED <<queue, error>>
        ELSE /\ queue' = queue \union todo
             /\ error' = FALSE
             /\ UNCHANGED <<task, work>>
     /\ UNCHANGED <<oracle, mkt, item, hit, huge, tokens, high>>

SignalLost ==
  /\ task.pc = "signal"
  /\ task' = [task EXCEPT !.pc = "multi"]
  /\ UNCHANGED <<oracle, mkt, item, hit, huge, queue, error, work, tokens, high>>

\* HighGasTrigger::set waits for a slot of the channel.
Signal ==
  /\ task.pc = "signal" /\ tokens < Slots
  /\ tokens' = tokens + 1
  /\ task' = [task EXCEPT !.pc = "multi"]
  /\ UNCHANGED <<oracle, mkt, item, hit, huge, queue, error, work, high>>

EndRun(ms, bad) ==
  /\ queue' = queue \union ms
  /\ error' = bad
  /\ task' = Idle
  /\ UNCHANGED <<huge, work, tokens, high>>

MultiOk ==
  /\ task.pc = "multi" /\ CanCrank(Pyth, task.batch)
  /\ ChainStep(Pyth, task.batch, TRUE)
  /\ EndRun(task.todo \ task.batch, FALSE)

\* It failed, but in the epoch or in congestion: taken for done.
MultiTolerated ==
  /\ task.pc = "multi"
  /\ EndRun(task.todo \ task.batch, FALSE)
  /\ UNCHANGED chain

MultiFailed ==
  /\ task.pc = "multi"
  /\ task' = [task EXCEPT !.pc = "single"]
  /\ UNCHANGED <<oracle, mkt, item, hit, huge, queue, error, work, tokens, high>>

SingleOkRest ==
  /\ task.pc = "single" /\ Pyth
  /\ ChainStep(TRUE, {}, TRUE)
  /\ EndRun(task.todo \ task.batch, FALSE)

\* Only the oracle is updated and all markets go to the runners.
SingleOk ==
  /\ task.pc = "single" /\ Pyth
  /\ ChainStep(TRUE, {}, TRUE)
  /\ EndRun(task.todo, FALSE)

SingleTolerated ==
  /\ task.pc = "single" /\ Pyth
  /\ EndRun(task.todo, FALSE)
  /\ UNCHANGED chain

SingleFailed ==
  /\ task.pc = "single" /\ Pyth
  /\ EndRun({}, TRUE)
  /\ UNCHANGED chain

\* There is no oracle message to send.
SingleMissing ==
  /\ task.pc = "single" /\ ~Pyth
  /\ EndRun({}, FALSE)
  /\ UNCHANGED chain

(***************************************************************************)
(* The crank runners and the high gas task.                                *)
(***************************************************************************)

RunnerOk(m) ==
  /\ m \in queue /\ CanCrank(FALSE, {m})
  /\ ChainStep(FALSE, {m}, TRUE)
  /\ queue' = queue \ {m}
  /\ UNCHANGED <<huge, task, error, work, tokens, high>>

RunnerFailed(m) ==
  /\ m \in queue
  /\ queue' = queue \ {m}
  /\ UNCHANGED <<oracle, mkt, item, hit, huge, task, error, work, tokens, high>>

HighReceive ==
  /\ high.pc = "receive" /\ tokens > 0
  /\ tokens' = tokens - 1 /\ work' = {}
  /\ high' = IF work = {} THEN high ELSE [pc |-> "send", markets |-> work]
  /\ UNCHANGED <<oracle, mkt, item, hit, huge, queue, task, error>>

HighOk ==
  /\ high.pc = "send"
  /\ \E ms \in SUBSET high.markets :
       /\ Cardinality(ms) = Min({Limit, Cardinality(high.markets)})
       /\ CanCrank(TRUE, ms)
       /\ ChainStep(TRUE, ms, FALSE)
  /\ high' = [pc |-> "receive", markets |-> {}]
  /\ UNCHANGED <<huge, queue, task, error, work, tokens>>

HighFailed ==
  /\ high.pc = "send"
  /\ high' = [pc |-> "receive", markets |-> {}]
  /\ UNCHANGED <<oracle, mkt, item, hit, huge, queue, task, error, work, tokens>>

PriceTask ==
  \/ Check \/ Signal \/ MultiOk \/ MultiTolerated \/ MultiFailed
  \/ SingleOk \/ SingleTolerated \/ SingleFailed \/ SingleMissing

Runner(m) == RunnerOk(m) \/ RunnerFailed(m)

HighTask == HighReceive \/ HighOk \/ HighFailed

Next ==
  \/ Tick \/ PriceTask \/ HighTask
  \/ \E m \in Markets : 
       NewItem(m) \/ PriceMoves(m) \/ ManualPrice(m) \/ Runner(m)

Spec == Init /\ [][Next]_vars

\* Tasks run, new prices are published, the epoch and congestion end, and a
\* transaction that is tried again and again gets through unless a market
\* rejects it.
Fairness ==
  /\ WF_vars(Tick) /\ WF_vars(PriceTask) /\ WF_vars(HighTask)
  /\ SF_vars(MultiOk) /\ SF_vars(MultiOk \/ MultiFailed) /\ SF_vars(SingleOk)
  /\ \A m \in Markets :
       WF_vars(Runner(m)) /\ SF_vars(RunnerOk(m)) /\ WF_vars(ManualPrice(m))

FairSpec == Spec /\ Fairness

(***************************************************************************)
(* Properties.                                                             *)
(***************************************************************************)

\* Urgent work waiting for the high gas task has a signal, or the price task
\* is about to give one.
UrgentSignalled == work # {} => tokens > 0 \/ task.pc = "signal"

\* Every deferred item is executed at last, in spite of failing transactions
\* and of markets whose crank can never succeed. Where prices are not off-chain
\* the bots do not crank for an item the market has no price for
\* (check_market_needs_crank): it is executed if something else, such as triggers
\* they see, makes them crank the market again and again.
ItemServed ==
  \A m \in Markets \ Poison :
    Pyth \/ []<>(m \in task.batch) => (item[m] # NoItem ~> item[m] = NoItem)

\* The same for all sources of prices. It does not hold: see ItemServed.
EveryItemServed == \A m \in Markets \ Poison : item[m] # NoItem ~> item[m] = NoItem

\* A price that triggers an order reaches the market that has it: it may come
\* after the oracle contract knows it and no comparison shows it any more.
HitServed == \A m \in Markets \ Poison : hit[m] \in {"oracle", "market"} ~> hit[m] = "none"

\* A trigger the bots can see is acted on, or the price moves back.
SeenServed == \A m \in Markets \ Poison : hit[m] = "coming" ~> hit[m] # "coming"

\* "If the oracle price update timestamp is enough to make work available, do
\* crank": what a market is cranked for can be done with the oracle's price.
CrankCanWork ==
  \A m \in Markets : Reason(m) = "work available" =>
    hit[m] = "market" \/ (item[m] # NoItem /\ item[m] > oracle)

\* "Error while doing multimessage price update, retrying with single message
\* updates": the markets are handed over, or the run ends in an error.
RetriedSingly ==
  [][task.pc = "single" /\ task' = Idle => error' \/ task.todo \subseteq queue']_vars
=============================================================================

---------------------------- MODULE MarketConfig ----------------------------
(***************************************************************************)
(* A market whose settings change under running business: the owner (or    *)
(* governance) updates the configuration between any two other messages,   *)
(* while a position waits for its next liquifunding, work is queued that    *)
(* paid its crank fee under an earlier configuration, and the crank is      *)
(* behind.  How settings are merged and validated is in ConfigRules.        *)
(***************************************************************************)
EXTENDS ConfigRules

CONSTANTS
  InitUpdates,  \* updates given at instantiation
  Updates,      \* updates of the owner
  Prices,       \* dollars per unit of collateral
  MaxQueue,     \* bound on queued work
  MaxFund,      \* bound on collected crank fees
  MaxTime       \* bound on the clock

ConstantsOK == MaxQueue \in Nat /\ MaxFund \in Nat /\ MaxTime \in Nat /\ Prices \subseteq Nat \ {0}

VARIABLES
  cfg,    \* CONFIG
  price,  \* the collateral's price in dollars
  queue,  \* paid work waiting for the crank
  fund,   \* ALL_FEES.crank
  now,    \* the last price point
  pos,    \* a position's liquifunded_at and next_liquifunding
  failed, \* a debug assertion of set_next_liquifunding failed
  short   \* history: why the fund may be short of what is queued, see FundCoversQueue

vars == <<cfg, price, queue, fund, now, pos, failed, short>>

NoPosition == [at |-> 0, next |-> 0, open |-> FALSE]

Init ==
  /\ \E u \in InitUpdates : Accepted(Default, u) /\ cfg = Updated(Default, u)
  /\ price \in Prices
  /\ queue = 0 /\ fund = 0 /\ now = 0
  /\ pos = NoPosition /\ failed = FALSE /\ short = {}

\* update_config, from ExecuteOwnerMsg::ConfigUpdate or SudoMsg::ConfigUpdate.
\* A refused update changes nothing.
UpdateConfig(u) ==
  /\ Accepted(cfg, u)
  /\ cfg' = Updated(cfg, u)
  /\ short' = IF queue > 0 /\ cfg'.crank_fee_reward > cfg.crank_fee_reward
              THEN short \cup {"reward raised"} ELSE short
  /\ UNCHANGED <<price, queue, fund, now, pos, failed>>

NewPrice(p, hours) ==
  /\ now + hours <= MaxTime
  /\ price' = p /\ now' = now + hours
  /\ UNCHANGED <<cfg, queue, fund, pos, failed, short>>

UsdToCollateral(usd, p) == (usd * Whole) \div p

\* The crank fee of deferred work: the charge and a surcharge for every ten
\* items already queued, in dollars.
DeferredCrankFee(c, size) == c.crank_fee_charged + c.crank_fee_surcharge * (size \div 10)

DeferExecution ==
  /\ queue < MaxQueue
  /\ queue' = queue + 1
  /\ fund' = fund + UsdToCollateral(DeferredCrankFee(cfg, queue), price)
  /\ fund' <= MaxFund
  /\ short' = IF price > Whole THEN short \cup {"dear collateral"} ELSE short
  /\ UNCHANGED <<cfg, price, now, pos, failed>>

\* The reward for n items is the setting's number in collateral, as far as
\* the fund goes.
CrankPayment(c, n, available) ==
  LET most == c.crank_fee_reward * n IN IF most < available THEN most ELSE available

\* Mutant: a batch takes more items than are queued.
CrankBeyond(n) ==
  /\ n <= cfg.crank_execs
  /\ queue' = queue - n
  /\ fund' = fund - CrankPayment(cfg, n, fund)
  /\ short' = IF queue' = 0 THEN {} ELSE short
  /\ UNCHANGED <<cfg, price, now, pos, failed>>

Crank(n) ==
  /\ n \in 1..queue /\ n <= cfg.crank_execs
  /\ queue' = queue - n
  /\ fund' = fund - CrankPayment(cfg, n, fund)
  /\ short' = IF queue' = 0 THEN {} ELSE short
  /\ UNCHANGED <<cfg, price, now, pos, failed>>

\* Mutant: one hour earlier than allowed.
NextLiquifundingEarlier(c, at, early) ==
  at + c.liquifunding_delay - (IF early < c.liquifunding_delay THEN early + 1 ELSE 0)

\* set_next_liquifunding: up to the fuzz earlier than the delay.  When the
\* subtraction fails, the full delay stays and a debug build asserts.
NextLiquifunding(c, at, early) ==
  at + c.liquifunding_delay - (IF early <= c.liquifunding_delay THEN early ELSE 0)

Earlier(c) ==
  IF c.liquifunding_delay_fuzz = 0 THEN {0} ELSE 0..(c.liquifunding_delay_fuzz - 1)

SetNextLiquifunding(at) ==
  \E early \in Earlier(cfg) :
    /\ pos' = [at |-> at, next |-> NextLiquifunding(cfg, at, early), open |-> TRUE]
    /\ failed' = (failed \/ early > cfg.liquifunding_delay)

OpenPosition ==
  /\ ~pos.open /\ SetNextLiquifunding(now)
  /\ UNCHANGED <<cfg, price, queue, fund, now, short>>

\* Crank work Liquifunding: it is dated at the time it was due, not when it
\* is done, so that a late crank repeats it until it is caught up.
Liquifunding ==
  /\ pos.open /\ pos.next <= now
  /\ SetNextLiquifunding(pos.next)
  /\ UNCHANGED <<cfg, price, queue, fund, now, short>>

\* A trader's update liquifunds up to the last price point.
UpdatePosition ==
  /\ pos.open /\ pos.next > now
  /\ SetNextLiquifunding(now)
  /\ UNCHANGED <<cfg, price, queue, fund, now, short>>

Next ==
  \/ \E u \in Updates : UpdateConfig(u)
  \/ \E p \in Prices, h \in {1, 3} : NewPrice(p, h)
  \/ DeferExecution
  \/ \E n \in 1..MaxQueue : Crank(n)
  \/ OpenPosition \/ Liquifunding \/ UpdatePosition

\* Bots crank while there is work.
Fairness == WF_vars(Liquifunding)

Spec == Init /\ [][Next]_vars /\ Fairness

----------------------------------------------------------------------------
TypeOK ==
  /\ DOMAIN cfg = DOMAIN Default /\ price \in Prices
  /\ queue \in 0..MaxQueue /\ fund \in Nat /\ now \in 0..MaxTime
  /\ pos \in [at : Nat, next : Nat, open : BOOLEAN]
  /\ short \subseteq {"reward raised", "dear collateral"}

\* Whatever the owner changes between two liquifundings, the next one can be
\* scheduled: the assertion in set_next_liquifunding never fails.
ScheduleNeverFails == ~failed

\* A crank that fell behind catches up: repeating the liquifundings that
\* were due ends, whichever delays and fuzz are set on the way.
CatchesUp == [](pos.open => <>(pos.next > now \/ now < MaxTime))

\* A fee is shared between the referrer, the protocol and the providers of
\* liquidity, who earn some of every whole unit under any settings.
LpsAlwaysEarn ==
  LET reward == cfg.referral_reward_ratio
      rest   == Whole - reward
  IN rest - (rest * cfg.protocol_tax) \div Whole > 0

\* What was collected with queued work pays its reward in full, under any
\* settings before and after, with two exceptions: since the queue was last
\* empty, the owner raised the reward while work was queued, or work was charged
\* when collateral was worth more than a dollar (the charge is converted to
\* collateral, deferred_execution.rs:199, the reward is not, fees.rs:272).  The
\* payment is then what is left ("best effort").  The fund is that of the work
\* that pays when it is queued; liquifundings pay when they are done.
FundCoversQueue == short = {} => fund >= cfg.crank_fee_reward * queue

\* Without the exceptions; it does not hold.
FundAlwaysCovers == fund >= cfg.crank_fee_reward * queue

\* The self check next_last_liquifunding: no liquifunding is scheduled later
\* than the delay from the position's last one.
NextWithinDelay == pos.open => pos.next <= pos.at + cfg.liquifunding_delay

\* The limits the error messages call included are accepted.
LimitsIncluded ==
  /\ Accepted(cfg, [trading_fee_notional_size |-> FeeLimit])
  /\ Accepted(cfg, [protocol_tax |-> Whole])
=============================================================================

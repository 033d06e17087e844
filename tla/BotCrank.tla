------------------------------ MODULE BotCrank ------------------------------
(***************************************************************************)
(* The crank runners of the bots: the price task finds markets with work   *)
(* and hands them over in a deduplicated queue, a channel wakes the        *)
(* runners, each runner borrows a wallet from a shared pool and turns the  *)
(* crank of one market.  Queue operations hold a lock; signalling, waiting *)
(* and the transactions are steps of their own.                            *)
(***************************************************************************)
EXTENDS Integers, Sequences, FiniteSets, SequencesExt, SequenceTheorems,
        FiniteSetTheorems, TLAPS

CONSTANTS
  Markets,
  Runners,   \* crank_tasks
  Capacity,  \* slots of the channel
  Wallets,   \* wallets in the pool
  MaxWork    \* bound: crank work waiting in a market

BoundsNat == {Capacity, Wallets, MaxWork} \subseteq Nat \ {0}
RunnersFinite == IsFiniteSet(Runners) /\ IsFiniteSet(Markets)
ConstantsOK == BoundsNat /\ RunnersFinite
ASSUME ConstantsAssumption == ConstantsOK

None == "none"

VARIABLES
  work,     \* the work each market reports
  fifo,     \* Queue.fifo
  set,      \* Queue.set
  guards,   \* Queue.crank_guards
  channel,  \* values in the channel
  free,     \* wallets in the pool
  runner,   \* what each runner does and for which market
  price     \* the price task: markets found, and whether it has to signal

vars == <<work, fifo, set, guards, channel, free, runner, price>>

queue == <<fifo, set, guards>>

Idle == [pc |-> "receive", market |-> None]

Init ==
  /\ work = [m \in Markets |-> 0]
  /\ fifo = <<>> /\ set = {} /\ guards = 0
  /\ channel = 0
  /\ free = Wallets
  /\ runner = [r \in Runners |-> Idle]
  /\ price = [found |-> {}, signal |-> FALSE]

At(r, pc) == runner[r].pc = pc
Goto(r, pc) == runner' = [runner EXCEPT ![r].pc = pc]
Finish(r, pc) == runner' = [runner EXCEPT ![r] = [Idle EXCEPT !.pc = pc]]

(***************************************************************************)
(* The queue.                                                              *)
(***************************************************************************)

PushUnchecked(m) ==
  /\ fifo' = Append(fifo, m)
  /\ set' = set \union {m}
  /\ UNCHANGED guards

\* Queue::push: a market waiting or in flight is not added again.
Push(m) ==
  IF m \in set THEN UNCHANGED queue
  ELSE /\ fifo' = Append(fifo, m)
       /\ set' = set \union {m}
       /\ UNCHANGED guards

\* The signal is forgotten.
TrySendEmpty == UNCHANGED channel

\* try_send: nothing happens when the channel is full.
TrySend == channel' = IF channel < Capacity THEN channel + 1 ELSE channel

(***************************************************************************)
(* The price task and the markets.                                         *)
(***************************************************************************)

NewWork(m) ==
  /\ work[m] < MaxWork
  /\ work' = [work EXCEPT ![m] = @ + 1]
  /\ UNCHANGED <<fifo, set, guards, channel, free, runner, price>>

PriceFind ==
  /\ price.found = {} /\ ~price.signal
  /\ price' = [price EXCEPT !.found = {m \in Markets : work[m] > 0}]
  /\ UNCHANGED <<work, fifo, set, guards, channel, free, runner>>

PriceTrigger(m) ==
  /\ ~price.signal /\ m \in price.found
  /\ Push(m)
  /\ price' = [found |-> price.found \ {m}, signal |-> m \notin set]
  /\ UNCHANGED <<work, channel, free, runner>>

PriceSignal ==
  /\ price.signal
  /\ TrySend
  /\ price' = [price EXCEPT !.signal = FALSE]
  /\ UNCHANGED <<work, fifo, set, guards, free, runner>>

(***************************************************************************)
(* A runner.                                                               *)
(***************************************************************************)

\* receive_work: wait for a value of the channel.
Receive(r) ==
  /\ At(r, "receive") /\ channel > 0
  /\ channel' = channel - 1
  /\ Goto(r, "pop")
  /\ UNCHANGED <<work, fifo, set, guards, free, price>>

PopWithoutResend(r) ==
  /\ At(r, "pop") /\ fifo # <<>>
  /\ fifo' = Tail(fifo) /\ guards' = guards + 1
  /\ runner' = [runner EXCEPT ![r] = [pc |-> "wallet", market |-> Head(fifo)]]
  /\ UNCHANGED <<work, set, channel, free, price>>

PopUnguarded(r) ==
  /\ At(r, "pop") /\ fifo # <<>>
  /\ fifo' = Tail(fifo) /\ set' = set \ {Head(fifo)}
  /\ runner' = [runner EXCEPT ![r] =
       [pc |-> IF Len(fifo) > 1 THEN "resend" ELSE "wallet", market |-> Head(fifo)]]
  /\ UNCHANGED <<work, guards, channel, free, price>>

\* Last in, first out.
PopBack(r) ==
  /\ At(r, "pop") /\ fifo # <<>>
  /\ fifo' = Front(fifo) /\ guards' = guards + 1
  /\ runner' = [runner EXCEPT ![r] =
       [pc |-> IF Len(fifo) > 1 THEN "resend" ELSE "wallet", market |-> Last(fifo)]]
  /\ UNCHANGED <<work, set, channel, free, price>>

Pop(r) ==
  /\ At(r, "pop") /\ fifo # <<>>
  /\ fifo' = Tail(fifo) /\ guards' = guards + 1
  /\ runner' = [runner EXCEPT ![r] =
       [pc |-> IF Len(fifo) > 1 THEN "resend" ELSE "wallet", market |-> Head(fifo)]]
  /\ UNCHANGED <<work, set, channel, free, price>>

\* Signalled, but the queue is empty: an error, and the delay after it.
PopNothing(r) ==
  /\ At(r, "pop") /\ fifo = <<>>
  /\ Finish(r, "delay")
  /\ UNCHANGED <<work, fifo, set, guards, channel, free, price>>

\* More work was seen: signal again if the channel is empty.
CheckChannel(r) ==
  /\ At(r, "resend")
  /\ Goto(r, IF channel = 0 THEN "resending" ELSE "wallet")
  /\ UNCHANGED <<work, fifo, set, guards, channel, free, price>>

Resend(r) ==
  /\ At(r, "resending")
  /\ TrySend
  /\ Goto(r, "wallet")
  /\ UNCHANGED <<work, fifo, set, guards, free, price>>

GetPoolWallet(r) ==
  /\ At(r, "wallet") /\ free > 0
  /\ free' = free - 1
  /\ Goto(r, "crank")
  /\ UNCHANGED <<work, fifo, set, guards, channel, price>>

ReturnTwice == free' = free + 2
ReturnNever == UNCHANGED free

\* The wallet goes back to the pool when the transaction is over.
Return == free' = free + 1

\* The transaction got through and did some of the work there was.
CrankDone(r) ==
  /\ At(r, "crank")
  /\ \E left \in 0..work[runner[r].market] :
       /\ work[runner[r].market] > 0 => left < work[runner[r].market]
       /\ work' = [work EXCEPT ![runner[r].market] = left]
  /\ Return
  /\ Goto(r, "done")
  /\ UNCHANGED <<fifo, set, guards, channel, price>>

\* It failed in the epoch, in congestion or out of gas: not an error.
CrankTolerated(r) ==
  /\ At(r, "crank")
  /\ Return
  /\ Goto(r, "done")
  /\ UNCHANGED <<work, fifo, set, guards, channel, price>>

CrankFailed(r) ==
  /\ At(r, "crank")
  /\ Return
  /\ Goto(r, "failed")
  /\ UNCHANGED <<work, fifo, set, guards, channel, price>>

\* Only the success path lets go of the market.
DropGuardOnSuccess(r) ==
  /\ At(r, "done") \/ At(r, "failed")
  /\ IF At(r, "done")
     THEN set' = set \ {runner[r].market} /\ guards' = guards - 1 /\ Goto(r, "status")
     ELSE UNCHANGED <<set, guards>> /\ Finish(r, "delay")
  /\ UNCHANGED <<work, fifo, channel, free, price>>

\* Drop for CrankGuard, after the crank or on the way out with its error.
DropGuard(r) ==
  /\ At(r, "done") \/ At(r, "failed")
  /\ set' = set \ {runner[r].market} /\ guards' = guards - 1
  /\ IF At(r, "done") THEN Goto(r, "status") ELSE Finish(r, "delay")
  /\ UNCHANGED <<work, fifo, channel, free, price>>

\* Look for more work; the answer may be an error.
MoreWork(r) ==
  /\ At(r, "status") /\ work[runner[r].market] > 0
  /\ Push(runner[r].market)
  /\ Finish(r, IF runner[r].market \in set THEN "receive" ELSE "signal")
  /\ UNCHANGED <<work, channel, free, price>>

NoMoreWork(r) ==
  /\ At(r, "status") /\ work[runner[r].market] = 0
  /\ Finish(r, "receive")
  /\ UNCHANGED <<work, fifo, set, guards, channel, free, price>>

NoStatus(r) ==
  /\ At(r, "status")
  /\ Finish(r, "receive")
  /\ UNCHANGED <<work, fifo, set, guards, channel, free, price>>

Signal(r) ==
  /\ At(r, "signal")
  /\ TrySend
  /\ Finish(r, "receive")
  /\ UNCHANGED <<work, fifo, set, guards, free, price>>

\* The watcher runs the task again after its delay.
Delayed(r) ==
  /\ At(r, "delay")
  /\ Finish(r, "receive")
  /\ UNCHANGED <<work, fifo, set, guards, channel, free, price>>

Price == PriceFind \/ PriceSignal \/ \E m \in Markets : PriceTrigger(m)

Step(r) ==
  \/ Receive(r) \/ Pop(r) \/ PopNothing(r) \/ CheckChannel(r) \/ Resend(r)
  \/ GetPoolWallet(r) \/ DropGuard(r) \/ MoreWork(r) \/ NoMoreWork(r)
  \/ NoStatus(r) \/ Signal(r) \/ Delayed(r)
  \/ CrankDone(r) \/ CrankTolerated(r) \/ CrankFailed(r)

Next == (\E m \in Markets : NewWork(m)) \/ Price \/ (\E r \in Runners : Step(r))

Spec == Init /\ [][Next]_vars

\* Tasks are scheduled fairly and a runner that waits for a wallet gets one;
\* nothing is assumed of what becomes of the transactions.
Fairness ==
  /\ WF_vars(Price)
  /\ \A r \in Runners : WF_vars(Step(r)) /\ SF_vars(GetPoolWallet(r))

FairSpec == Spec /\ Fairness

(***************************************************************************)
(* Properties.                                                             *)
(***************************************************************************)

Holding == {"resend", "resending", "wallet", "crank", "done", "failed"}

Pcs == Holding \union {"receive", "pop", "status", "signal", "delay"}

TypeOK ==
  /\ work \in [Markets -> 0..MaxWork]
  /\ fifo \in Seq(Markets) /\ set \subseteq Markets /\ guards \in Nat
  /\ channel \in 0..Capacity
  /\ free \in 0..Wallets
  /\ runner \in [Runners -> [pc : Pcs, market : Markets \union {None}]]
  /\ price \in [found : SUBSET Markets, signal : BOOLEAN]

\* The assertions of push, pop and drop: the set is what waits and what is in
\* flight, whatever the interleaving of the runners and the price task.
QueueMatches ==
  /\ Len(fifo) + guards = Cardinality(set)
  /\ \A i \in DOMAIN fifo : fifo[i] \in set
  /\ \A r \in Runners : runner[r].pc \in Holding => runner[r].market \in set

\* "Ensures that only one crank runner is working on a given market at a
\* time", and a market waiting in the queue is not worked on.
OneRunnerPerMarket ==
  /\ IsInjective(fifo)
  /\ \A r \in Runners : runner[r].pc \in Holding =>
       /\ \A s \in Runners \ {r} :
            runner[s].pc \in Holding => runner[s].market # runner[r].market
       /\ \A i \in DOMAIN fifo : fifo[i] # runner[r].market

\* "If there is work on the queue, there is guaranteed to be at least one
\* value in the channel" once those who are in the middle of a function are
\* through with it.
WorkSignalled ==
  fifo # <<>> => \/ channel > 0
                 \/ price.signal
                 \/ \E r \in Runners :
                      runner[r].pc \in {"pop", "resend", "resending", "signal"}

\* WalletGuard: a wallet is in the pool or with one runner.
WalletsConserved == free + Cardinality({r \in Runners : At(r, "crank")}) = Wallets

\* Runners do not get into each other's way, and none of them sleeps while
\* there is work.
RunnersApart == OneRunnerPerMarket /\ QueueMatches /\ WorkSignalled /\ WalletsConserved

\* A market that reports work is cranked, or the work is gone, however many
\* cranks of other markets fail and however much work they get.
WorkServed ==
  \A m \in Markets :
    work[m] > 0 ~> \/ work[m] = 0
                   \/ \E r \in Runners : At(r, "crank") /\ runner[r].market = m

\* A market handed over is let go of, so it can be handed over again.
HandedBack == \A m \in Markets : (m \in set) ~> (m \notin set)

\* "Possible bug: Signaled about work item, but didn't receive any."
SignalMeansWork == \A r \in Runners : At(r, "pop") => fifo # <<>>

(***************************************************************************)
(* Proofs: RunnersApart, for any number of runners, markets, wallets and   *)
(* slots of the channel.                                                   *)
(***************************************************************************)

Held == {r \in Runners : runner[r].pc \in Holding}
Cranking == {r \in Runners : At(r, "crank")}

\* Who works on a market, or asks for its status, knows which one; and there
\* is a guard for everyone who works on one.
GuardsInv ==
  /\ \A r \in Runners : runner[r].pc \in Holding \cup {"status"} => runner[r].market \in Markets
  /\ guards = Cardinality(Held)

Inv == TypeOK /\ GuardsInv /\ RunnersApart

\* What a runner does next changes nothing for the others.
LEMMA RunnerMoves ==
  ASSUME TypeOK, NEW r \in Runners, NEW pc \in Pcs, NEW m \in Markets \cup {None},
         runner' = [runner EXCEPT ![r] = [pc |-> pc, market |-> m]]
  PROVE  /\ runner' \in [Runners -> [pc : Pcs, market : Markets \cup {None}]]
         /\ runner'[r].pc = pc /\ runner'[r].market = m
         /\ \A s \in Runners \ {r} : runner'[s] = runner[s]
         /\ Held' = IF pc \in Holding THEN Held \cup {r} ELSE Held \ {r}
         /\ Cranking' = IF pc = "crank" THEN Cranking \cup {r} ELSE Cranking \ {r}
<1>1. /\ runner' \in [Runners -> [pc : Pcs, market : Markets \cup {None}]]
      /\ runner'[r].pc = pc /\ runner'[r].market = m
      /\ \A s \in Runners \ {r} : runner'[s] = runner[s]
  BY DEF TypeOK
<1> QED BY <1>1 DEF Held, Cranking, At

LEMMA GotoMoves ==
  ASSUME TypeOK, NEW r \in Runners, NEW pc \in Pcs, Goto(r, pc)
  PROVE  runner' = [runner EXCEPT ![r] = [pc |-> pc, market |-> runner[r].market]]
         /\ runner[r].market \in Markets \cup {None}
<1>1. runner[r] \in [pc : Pcs, market : Markets \cup {None}]
  BY DEF TypeOK
<1>2. [runner[r] EXCEPT !.pc = pc] = [pc |-> pc, market |-> runner[r].market]
  BY <1>1
<1> QED BY <1>1, <1>2 DEF Goto

LEMMA FinishMoves ==
  ASSUME TypeOK, NEW r \in Runners, NEW pc \in Pcs, Finish(r, pc)
  PROVE  runner' = [runner EXCEPT ![r] = [pc |-> pc, market |-> None]]
         /\ None \in Markets \cup {None}
<1>1. [Idle EXCEPT !.pc = pc] = [pc |-> pc, market |-> None]
  BY DEF Idle
<1> QED BY <1>1 DEF Finish

LEMMA FiniteRunners ==
  /\ IsFiniteSet(Runners) /\ IsFiniteSet(Held) /\ IsFiniteSet(Cranking)
  /\ Cardinality(Held) \in Nat /\ Cardinality(Cranking) \in Nat
<1>1. IsFiniteSet(Runners) /\ Held \subseteq Runners /\ Cranking \subseteq Runners
  BY ConstantsAssumption DEF ConstantsOK, RunnersFinite, Held, Cranking
<1> QED BY <1>1, FS_Subset, FS_CardinalityType

\* A step that leaves the queue alone, whose runner does not start or stop
\* working on a market, and that does not swallow the last signal.
LEMMA QueueStill ==
  ASSUME Inv, UNCHANGED queue,
         NEW r \in Runners, \A s \in Runners \ {r} : runner'[s] = runner[s],
         runner' \in [Runners -> [pc : Pcs, market : Markets \cup {None}]],
         runner'[r].pc \in Holding <=> runner[r].pc \in Holding,
         runner'[r].pc \in Holding => runner'[r].market = runner[r].market,
         runner'[r].pc # "status"
  PROVE  GuardsInv' /\ QueueMatches' /\ OneRunnerPerMarket'
<1> USE DEF queue
<1>1. Held' = Held
  BY DEF Held
<1>2. \A s \in Runners : runner'[s].pc \in Holding =>
        runner[s].pc \in Holding /\ runner'[s].market = runner[s].market
  OBVIOUS
<1>3. GuardsInv'
  BY <1>1, <1>2 DEF Inv, GuardsInv
<1>4. QueueMatches'
  BY <1>2 DEF Inv, RunnersApart, QueueMatches
<1>5. OneRunnerPerMarket'
  BY <1>2 DEF Inv, RunnersApart, OneRunnerPerMarket
<1> QED BY <1>3, <1>4, <1>5

\* A step that leaves the runners and the queue alone.
LEMMA AllStill ==
  ASSUME Inv, UNCHANGED <<runner, queue>>
  PROVE  GuardsInv' /\ QueueMatches' /\ OneRunnerPerMarket'
BY DEF Inv, GuardsInv, RunnersApart, QueueMatches, OneRunnerPerMarket, Held, queue

\* A market that is neither waiting nor in flight is queued.
LEMMA Pushed ==
  ASSUME Inv, NEW m \in Markets, m \notin set, Push(m)
  PROVE  /\ fifo' \in Seq(Markets) /\ set' \subseteq Markets /\ UNCHANGED guards
         /\ Len(fifo') + guards' = Cardinality(set')
         /\ \A i \in DOMAIN fifo' : fifo'[i] \in set'
         /\ IsInjective(fifo')
         /\ \A i \in DOMAIN fifo' : fifo'[i] = m \/ \E j \in DOMAIN fifo : fifo'[i] = fifo[j]
         /\ set' = set \cup {m}
<1>0. /\ fifo \in Seq(Markets) /\ Len(fifo) \in Nat /\ set \subseteq Markets
      /\ guards \in Nat /\ DOMAIN fifo = 1..Len(fifo)
  BY LenProperties DEF Inv, TypeOK
<1>1. fifo' = Append(fifo, m) /\ set' = set \cup {m} /\ UNCHANGED guards
  BY DEF Push
<1>2. /\ fifo' \in Seq(Markets) /\ Len(fifo') = Len(fifo) + 1
      /\ \A i \in 1..Len(fifo) : fifo'[i] = fifo[i]
      /\ fifo'[Len(fifo) + 1] = m
  BY <1>0, <1>1, AppendProperties
<1>3. DOMAIN fifo' = 1..(Len(fifo) + 1)
  BY <1>2, LenProperties
<1>4. Len(fifo) + guards = Cardinality(set) /\ \A i \in DOMAIN fifo : fifo[i] \in set
  BY DEF Inv, RunnersApart, QueueMatches
<1>5. Cardinality(set') = Cardinality(set) + 1
  <2>1. IsFiniteSet(set)
    BY <1>0, ConstantsAssumption, FS_Subset DEF ConstantsOK, RunnersFinite
  <2> QED BY <1>1, <2>1, FS_AddElement
<1>6. \A i \in 1..Len(fifo) : fifo[i] # m
  BY <1>0, <1>4
<1>7. IsInjective(fifo')
  BY <1>0, <1>2, <1>3, <1>6 DEF Inv, RunnersApart, OneRunnerPerMarket, IsInjective
<1>8. \A i \in DOMAIN fifo' : i \in 1..Len(fifo) \/ i = Len(fifo) + 1
  BY <1>0, <1>3
<1>9. \A i \in DOMAIN fifo' : fifo'[i] = m \/ \E j \in DOMAIN fifo : fifo'[i] = fifo[j]
  BY <1>0, <1>2, <1>8
<1>10. \A i \in DOMAIN fifo' : fifo'[i] \in set'
  BY <1>1, <1>4, <1>9
<1>11. Len(fifo') + guards' = Cardinality(set')
  BY <1>0, <1>1, <1>2, <1>4, <1>5
<1> QED BY <1>0, <1>1, <1>2, <1>7, <1>9, <1>10, <1>11

\* The first market of the queue is popped: it stays in the set.
LEMMA Popped ==
  ASSUME Inv, fifo # <<>>, fifo' = Tail(fifo)
  PROVE  /\ fifo' \in Seq(Markets) /\ Head(fifo) \in Markets
         /\ Len(fifo) \in Nat /\ Len(fifo') = Len(fifo) - 1
         /\ Head(fifo) \in set
         /\ IsInjective(fifo')
         /\ \A i \in DOMAIN fifo' : \E j \in DOMAIN fifo : fifo'[i] = fifo[j]
         /\ \A i \in DOMAIN fifo' : fifo'[i] # Head(fifo)
         /\ \E j \in DOMAIN fifo : fifo[j] = Head(fifo)
<1>0. fifo \in Seq(Markets) /\ Len(fifo) \in Nat /\ DOMAIN fifo = 1..Len(fifo)
  BY LenProperties DEF Inv, TypeOK
<1>1. /\ fifo' \in Seq(Markets) /\ Head(fifo) \in Markets
      /\ Len(fifo') = Len(fifo) - 1
      /\ \A i \in 1..Len(fifo') : fifo'[i] = fifo[i + 1]
  BY <1>0, HeadTailProperties
<1>2. Head(fifo) = fifo[1] /\ Len(fifo) # 0 /\ DOMAIN fifo' = 1..Len(fifo')
  BY <1>0, <1>1, LenProperties, EmptySeq
<1>3. 1 \in DOMAIN fifo
  BY <1>0, <1>2
<1>4. \A a, b \in DOMAIN fifo : fifo[a] = fifo[b] => a = b
  BY DEF Inv, RunnersApart, OneRunnerPerMarket, IsInjective
<1>5. \A i \in DOMAIN fifo' : i + 1 \in DOMAIN fifo /\ i + 1 # 1 /\ fifo'[i] = fifo[i + 1]
  BY <1>0, <1>1, <1>2
<1>6. IsInjective(fifo')
  <2> SUFFICES ASSUME NEW a \in DOMAIN fifo', NEW b \in DOMAIN fifo', fifo'[a] = fifo'[b]
               PROVE  a = b
    BY DEF IsInjective
  <2>1. a + 1 = b + 1
    BY <1>4, <1>5
  <2>2. a \in Nat /\ b \in Nat
    BY <1>0, <1>1, <1>2
  <2> QED BY <2>1, <2>2
<1>7. \A i \in DOMAIN fifo' : fifo'[i] # Head(fifo)
  BY <1>2, <1>3, <1>4, <1>5
<1>8. Head(fifo) \in set
  BY <1>2, <1>3 DEF Inv, RunnersApart, QueueMatches
<1> QED BY <1>0, <1>1, <1>2, <1>3, <1>5, <1>6, <1>7, <1>8

\* The channel after try_send.
LEMMA Sent ==
  ASSUME TypeOK, TrySend
  PROVE  channel' \in 0..Capacity /\ channel' > 0
BY ConstantsAssumption DEF ConstantsOK, BoundsNat, TypeOK, TrySend

\* The steps of the price task and of the chain.
LEMMA OtherStep ==
  ASSUME Inv, (\E m \in Markets : NewWork(m)) \/ Price \/ UNCHANGED vars
  PROVE  Inv'
<1> USE DEF queue
<1>0. TypeOK /\ WorkSignalled /\ WalletsConserved
  BY DEF Inv, RunnersApart
<1>1. ASSUME UNCHANGED <<fifo, set, guards, channel, free, runner>>, price'.signal = price.signal
      PROVE  GuardsInv' /\ RunnersApart'
  <2>1. WorkSignalled'
    BY <1>0, <1>1 DEF WorkSignalled
  <2>2. WalletsConserved'
    BY <1>0, <1>1 DEF WalletsConserved, At
  <2> QED BY <1>1, <2>1, <2>2, AllStill DEF RunnersApart
<1>2. CASE \E m \in Markets : NewWork(m)
  <2>1. PICK m \in Markets : NewWork(m)
    BY <1>2
  <2>2. work' \in [Markets -> 0..MaxWork]
    BY <1>0, <2>1, ConstantsAssumption DEF NewWork, TypeOK, ConstantsOK, BoundsNat
  <2>3. UNCHANGED <<fifo, set, guards, channel, free, runner, price>>
    BY <2>1 DEF NewWork
  <2>4. TypeOK'
    BY <1>0, <2>2, <2>3 DEF TypeOK
  <2> QED BY <1>1, <2>3, <2>4 DEF Inv
<1>3. CASE PriceFind
  <2>1. /\ UNCHANGED <<work, fifo, set, guards, channel, free, runner>>
        /\ price' \in [found : SUBSET Markets, signal : BOOLEAN]
        /\ price'.signal = price.signal
    BY <1>0, <1>3 DEF PriceFind, TypeOK
  <2>2. TypeOK'
    BY <1>0, <2>1 DEF TypeOK
  <2> QED BY <1>1, <2>1, <2>2 DEF Inv
<1>4. CASE PriceSignal
  <2>1. /\ UNCHANGED <<work, fifo, set, guards, free, runner>> /\ TrySend
        /\ price' \in [found : SUBSET Markets, signal : BOOLEAN]
    BY <1>0, <1>4 DEF PriceSignal, TypeOK
  <2>2. channel' \in 0..Capacity /\ channel' > 0
    BY <1>0, <2>1, Sent
  <2>3. TypeOK'
    BY <1>0, <2>1, <2>2 DEF TypeOK
  <2>4. WorkSignalled'
    BY <2>2 DEF WorkSignalled
  <2>5. WalletsConserved'
    BY <1>0, <2>1 DEF WalletsConserved, At
  <2> QED BY <2>1, <2>3, <2>4, <2>5, AllStill DEF Inv, RunnersApart
<1>5. ASSUME NEW m \in Markets, PriceTrigger(m)
      PROVE  Inv'
  <2>1. /\ ~price.signal /\ Push(m) /\ UNCHANGED <<work, channel, free, runner>>
        /\ price' \in [found : SUBSET Markets, signal : BOOLEAN]
        /\ price'.signal = (m \notin set)
    BY <1>0, <1>5 DEF PriceTrigger, TypeOK
  <2>2. CASE m \in set
    <3>1. UNCHANGED queue
      BY <2>1, <2>2 DEF Push
    <3>2. TypeOK'
      BY <1>0, <2>1, <3>1 DEF TypeOK
    <3>3. WorkSignalled'
      BY <1>0, <2>1, <3>1 DEF WorkSignalled
    <3>4. WalletsConserved'
      BY <1>0, <2>1 DEF WalletsConserved, At
    <3> QED BY <2>1, <3>1, <3>2, <3>3, <3>4, AllStill DEF Inv, RunnersApart
  <2>3. CASE m \notin set
    <3>1. /\ fifo' \in Seq(Markets) /\ set' \subseteq Markets /\ UNCHANGED guards
          /\ Len(fifo') + guards' = Cardinality(set')
          /\ \A i \in DOMAIN fifo' : fifo'[i] \in set'
          /\ IsInjective(fifo')
          /\ \A i \in DOMAIN fifo' : fifo'[i] = m \/ \E j \in DOMAIN fifo : fifo'[i] = fifo[j]
          /\ set' = set \cup {m}
      BY <2>1, <2>3, Pushed
    <3>2. TypeOK'
      BY <1>0, <2>1, <3>1 DEF TypeOK
    <3>3. GuardsInv'
      BY <2>1, <3>1 DEF Inv, GuardsInv, Held
    <3>4. QueueMatches'
      BY <2>1, <3>1 DEF Inv, RunnersApart, QueueMatches
    <3>5. OneRunnerPerMarket'
      BY <2>1, <2>3, <3>1 DEF Inv, RunnersApart, OneRunnerPerMarket, QueueMatches
    <3>6. WorkSignalled'
      BY <2>1, <2>3 DEF WorkSignalled
    <3>7. WalletsConserved'
      BY <1>0, <2>1 DEF WalletsConserved, At
    <3> QED BY <3>2, <3>3, <3>4, <3>5, <3>6, <3>7 DEF Inv, RunnersApart
  <2> QED BY <2>2, <2>3
<1>6. CASE UNCHANGED vars
  <2>1. TypeOK'
    BY <1>0, <1>6 DEF vars, TypeOK
  <2> QED BY <1>1, <1>6, <2>1 DEF vars, Inv
<1> QED BY <1>2, <1>3, <1>4, <1>5, <1>6 DEF Price

\* A step of a runner that leaves the queue alone: it goes on with the market
\* it has, or with none, and some work that waits stays signalled.
LEMMA RunnerGoesOn ==
  ASSUME Inv, NEW r \in Runners, NEW pc \in Pcs, NEW m \in Markets \cup {None},
         runner' = [runner EXCEPT ![r] = [pc |-> pc, market |-> m]],
         UNCHANGED <<fifo, set, guards, price>>,
         pc \in Holding <=> runner[r].pc \in Holding,
         pc \in Holding => m = runner[r].market,
         pc # "status",
         work' \in [Markets -> 0..MaxWork],
         channel' \in 0..Capacity,
         free' \in 0..Wallets,
         free' + Cardinality(Cranking') = Wallets,
         \/ fifo = <<>> \/ channel' > 0
         \/ pc \in {"pop", "resend", "resending", "signal"}
         \/ channel' = channel /\ runner[r].pc \notin {"pop", "resend", "resending", "signal"}
  PROVE  Inv'
<1>0. TypeOK /\ WorkSignalled
  BY DEF Inv, RunnersApart
<1>1. /\ runner' \in [Runners -> [pc : Pcs, market : Markets \cup {None}]]
      /\ runner'[r].pc = pc /\ runner'[r].market = m
      /\ \A s \in Runners \ {r} : runner'[s] = runner[s]
  BY <1>0, RunnerMoves
<1>2. TypeOK'
  BY <1>0, <1>1 DEF TypeOK
<1>3. GuardsInv' /\ QueueMatches' /\ OneRunnerPerMarket'
  BY <1>1, QueueStill DEF queue
<1>4. WorkSignalled'
  BY <1>0, <1>1 DEF WorkSignalled
<1>5. WalletsConserved'
  BY DEF WalletsConserved, Cranking
<1> QED BY <1>2, <1>3, <1>4, <1>5 DEF Inv, RunnersApart

\* The wallets of the pool and those that are out.
LEMMA Pool ==
  ASSUME Inv
  PROVE  /\ free + Cardinality(Cranking) = Wallets
         /\ free \in Nat /\ Cardinality(Cranking) \in Nat /\ Wallets \in Nat
<1>1. free + Cardinality(Cranking) = Wallets
  BY DEF Inv, RunnersApart, WalletsConserved, Cranking
<1>2. free \in Nat /\ Wallets \in Nat
  BY ConstantsAssumption DEF Inv, TypeOK, ConstantsOK, BoundsNat
<1> QED BY <1>1, <1>2, FiniteRunners

\* The wallets after a step: borrowed at "crank" and nowhere else.
LEMMA Borrowed ==
  ASSUME Inv, NEW r \in Runners, NEW pc \in Pcs, NEW m \in Markets \cup {None},
         runner' = [runner EXCEPT ![r] = [pc |-> pc, market |-> m]]
  PROVE  /\ (pc = "crank" <=> runner[r].pc = "crank") =>
              Cardinality(Cranking') = Cardinality(Cranking)
         /\ pc = "crank" /\ runner[r].pc # "crank" =>
              Cardinality(Cranking') = Cardinality(Cranking) + 1
         /\ pc # "crank" /\ runner[r].pc = "crank" =>
              Cardinality(Cranking') = Cardinality(Cranking) - 1
<1>1. Cranking' = IF pc = "crank" THEN Cranking \cup {r} ELSE Cranking \ {r}
  BY RunnerMoves DEF Inv
<1>2. r \in Cranking <=> runner[r].pc = "crank"
  BY DEF Cranking, At
<1>3. (pc = "crank" <=> runner[r].pc = "crank") => Cranking' = Cranking
  BY <1>1, <1>2
<1>4. pc = "crank" /\ runner[r].pc # "crank" =>
        Cardinality(Cranking') = Cardinality(Cranking) + 1
  BY <1>1, <1>2, FiniteRunners, FS_AddElement
<1>5. pc # "crank" /\ runner[r].pc = "crank" =>
        Cardinality(Cranking') = Cardinality(Cranking) - 1
  BY <1>1, <1>2, FiniteRunners, FS_RemoveElement
<1> QED BY <1>3, <1>4, <1>5

\* The steps of a runner that leave the queue and the wallets alone.
LEMMA RunnerWaits ==
  ASSUME Inv, NEW r \in Runners,
         Receive(r) \/ PopNothing(r) \/ CheckChannel(r) \/ Resend(r)
           \/ NoMoreWork(r) \/ NoStatus(r) \/ Signal(r) \/ Delayed(r)
           \/ (MoreWork(r) /\ runner[r].market \in set)
  PROVE  Inv'
<1>0. /\ TypeOK
      /\ work \in [Markets -> 0..MaxWork] /\ channel \in 0..Capacity /\ free \in 0..Wallets
      /\ None \in Markets \cup {None} /\ runner[r].market \in Markets \cup {None}
  BY DEF Inv, TypeOK
<1>1. ASSUME NEW pc \in Pcs, NEW m \in Markets \cup {None},
             runner' = [runner EXCEPT ![r] = [pc |-> pc, market |-> m]],
             UNCHANGED <<work, fifo, set, guards, free, price>>,
             pc \in Holding <=> runner[r].pc \in Holding,
             pc \in Holding => m = runner[r].market,
             pc # "status", pc # "crank", runner[r].pc # "crank",
             channel' \in 0..Capacity,
             \/ fifo = <<>> \/ channel' > 0
             \/ pc \in {"pop", "resend", "resending", "signal"}
             \/ channel' = channel /\ runner[r].pc \notin {"pop", "resend", "resending", "signal"}
      PROVE  Inv'
  <2>1. free' + Cardinality(Cranking') = Wallets
    BY <1>1, Borrowed, Pool
  <2> QED BY <1>0, <1>1, <2>1, RunnerGoesOn
<1>2. CASE Receive(r)
  <2>1. /\ runner' = [runner EXCEPT ![r] = [pc |-> "pop", market |-> runner[r].market]]
        /\ UNCHANGED <<work, fifo, set, guards, free, price>> /\ runner[r].pc = "receive"
    BY <1>0, <1>2, GotoMoves DEF Receive, At, Pcs
  <2>2. channel' \in 0..Capacity
    BY <1>0, <1>2, ConstantsAssumption DEF Receive, ConstantsOK, BoundsNat
  <2> QED BY <1>0, <1>1, <2>1, <2>2 DEF Pcs, Holding, At
<1>3. CASE PopNothing(r)
  <2>1. /\ runner' = [runner EXCEPT ![r] = [pc |-> "delay", market |-> None]]
        /\ UNCHANGED <<work, fifo, set, guards, channel, free, price>>
        /\ runner[r].pc = "pop" /\ fifo = <<>>
    BY <1>0, <1>3, FinishMoves DEF PopNothing, At, Pcs
  <2> QED BY <1>0, <1>1, <2>1 DEF Pcs, Holding, At
<1>4. CASE CheckChannel(r)
  <2>1. /\ UNCHANGED <<work, fifo, set, guards, channel, free, price>>
        /\ runner[r].pc = "resend"
    BY <1>4 DEF CheckChannel, At
  <2>2. CASE channel = 0
    <3>1. runner' = [runner EXCEPT ![r] = [pc |-> "resending", market |-> runner[r].market]]
      BY <1>0, <1>4, <2>2, GotoMoves DEF CheckChannel, Pcs, Holding
    <3> QED BY <1>0, <1>1, <2>1, <3>1 DEF Pcs, Holding, At
  <2>3. CASE channel # 0
    <3>1. runner' = [runner EXCEPT ![r] = [pc |-> "wallet", market |-> runner[r].market]]
      BY <1>0, <1>4, <2>3, GotoMoves DEF CheckChannel, Pcs, Holding
    <3>2. channel' > 0
      BY <1>0, <2>1, <2>3, ConstantsAssumption DEF ConstantsOK, BoundsNat
    <3> QED BY <1>0, <1>1, <2>1, <3>1, <3>2 DEF Pcs, Holding, At
  <2> QED BY <2>2, <2>3
<1>5. CASE Resend(r)
  <2>1. /\ runner' = [runner EXCEPT ![r] = [pc |-> "wallet", market |-> runner[r].market]]
        /\ UNCHANGED <<work, fifo, set, guards, free, price>> /\ runner[r].pc = "resending"
    BY <1>0, <1>5, GotoMoves DEF Resend, At, Pcs, Holding
  <2>2. channel' \in 0..Capacity /\ channel' > 0
    BY <1>0, <1>5, Sent DEF Resend
  <2> QED BY <1>0, <1>1, <2>1, <2>2 DEF Pcs, Holding, At
<1>6. ASSUME Finish(r, "receive"), UNCHANGED <<work, fifo, set, guards, channel, free, price>>,
             runner[r].pc \in {"status", "delay"}
      PROVE  Inv'
  <2>1. runner' = [runner EXCEPT ![r] = [pc |-> "receive", market |-> None]]
    BY <1>0, <1>6, FinishMoves DEF Pcs
  <2> QED BY <1>0, <1>1, <1>6, <2>1 DEF Pcs, Holding, At
<1>7. CASE NoMoreWork(r) \/ NoStatus(r) \/ Delayed(r)
  BY <1>6, <1>7 DEF NoMoreWork, NoStatus, Delayed, At
<1>8. CASE MoreWork(r) /\ runner[r].market \in set
  BY <1>6, <1>8 DEF MoreWork, Push, At, queue
<1>9. CASE Signal(r)
  <2>1. /\ runner' = [runner EXCEPT ![r] = [pc |-> "receive", market |-> None]]
        /\ UNCHANGED <<work, fifo, set, guards, free, price>> /\ runner[r].pc = "signal"
    BY <1>0, <1>9, FinishMoves DEF Signal, At, Pcs
  <2>2. channel' \in 0..Capacity /\ channel' > 0
    BY <1>0, <1>9, Sent DEF Signal
  <2> QED BY <1>0, <1>1, <2>1, <2>2 DEF Pcs, Holding, At
<1> QED BY <1>2, <1>3, <1>4, <1>5, <1>7, <1>8, <1>9

\* A wallet is borrowed for the transaction and returned after it.
LEMMA RunnerCranks ==
  ASSUME Inv, NEW r \in Runners,
         GetPoolWallet(r) \/ CrankDone(r) \/ CrankTolerated(r) \/ CrankFailed(r)
  PROVE  Inv'
<1>0. /\ TypeOK /\ GuardsInv
      /\ work \in [Markets -> 0..MaxWork] /\ channel \in 0..Capacity /\ free \in 0..Wallets
      /\ runner[r].market \in Markets \cup {None}
  BY DEF Inv, TypeOK
<1>1. CASE GetPoolWallet(r)
  <2>1. /\ runner' = [runner EXCEPT ![r] = [pc |-> "crank", market |-> runner[r].market]]
        /\ UNCHANGED <<work, fifo, set, guards, channel, price>>
        /\ runner[r].pc = "wallet" /\ free > 0 /\ free' = free - 1
    BY <1>0, <1>1, GotoMoves DEF GetPoolWallet, At, Pcs, Holding
  <2>2. free' \in 0..Wallets
    BY <1>0, <2>1, ConstantsAssumption DEF ConstantsOK, BoundsNat
  <2>3. Cardinality(Cranking') = Cardinality(Cranking) + 1
    BY <1>0, <2>1, Borrowed DEF Pcs, Holding, At
  <2>4. free' + Cardinality(Cranking') = Wallets
    BY <2>1, <2>3, Pool
  <2> QED BY <1>0, <2>1, <2>2, <2>4, RunnerGoesOn DEF Pcs, Holding
<1>2. ASSUME NEW pc \in {"done", "failed"}, Goto(r, pc), At(r, "crank"), Return,
             UNCHANGED <<fifo, set, guards, channel, price>>,
             work' \in [Markets -> 0..MaxWork]
      PROVE  Inv'
  <2>1. runner' = [runner EXCEPT ![r] = [pc |-> pc, market |-> runner[r].market]]
        /\ runner[r].pc = "crank" /\ pc \in Pcs /\ pc # "crank" /\ free' = free + 1
    BY <1>0, <1>2, GotoMoves DEF At, Pcs, Holding, Return
  <2>2. Cardinality(Cranking') = Cardinality(Cranking) - 1
    BY <1>0, <1>2, <2>1, Borrowed
  <2>3. free' + Cardinality(Cranking') = Wallets
    BY <2>1, <2>2, Pool
  <2>4. Cardinality(Cranking') \in Nat
    BY <1>2, <2>1, <2>2, FiniteRunners, FS_EmptySet DEF Cranking
  <2>5. free' \in 0..Wallets
    BY <1>0, <2>1, <2>3, <2>4, ConstantsAssumption DEF ConstantsOK, BoundsNat
  <2> QED BY <1>0, <1>2, <2>1, <2>3, <2>5, RunnerGoesOn DEF Pcs, Holding
<1>3. CASE CrankDone(r)
  <2>1. runner[r].market \in Markets
    BY <1>0, <1>3 DEF GuardsInv, CrankDone, At, Holding
  <2>2. PICK left \in 0..work[runner[r].market] :
          work' = [work EXCEPT ![runner[r].market] = left]
    BY <1>3 DEF CrankDone
  <2>3. work[runner[r].market] \in 0..MaxWork /\ MaxWork \in Nat
    BY <1>0, <2>1, ConstantsAssumption DEF ConstantsOK, BoundsNat
  <2>4. left \in 0..MaxWork
    BY <2>2, <2>3
  <2>5. work' \in [Markets -> 0..MaxWork]
    BY <1>0, <2>2, <2>4
  <2> QED BY <1>2, <1>3, <2>5 DEF CrankDone
<1>4. CASE CrankTolerated(r) \/ CrankFailed(r)
  BY <1>0, <1>2, <1>4 DEF CrankTolerated, CrankFailed
<1> QED BY <1>1, <1>2, <1>3, <1>4

\* A market is taken from the queue: the runner holds it from now on.
LEMMA RunnerPops ==
  ASSUME Inv, NEW r \in Runners, Pop(r)
  PROVE  Inv'
<1> DEFINE pc == IF Len(fifo) > 1 THEN "resend" ELSE "wallet"
<1>0. /\ TypeOK /\ GuardsInv /\ QueueMatches /\ OneRunnerPerMarket
      /\ guards \in Nat
  BY DEF Inv, TypeOK, RunnersApart
<1>1. /\ fifo # <<>> /\ fifo' = Tail(fifo) /\ guards' = guards + 1
      /\ runner' = [runner EXCEPT ![r] = [pc |-> pc, market |-> Head(fifo)]]
      /\ UNCHANGED <<work, set, channel, free, price>> /\ runner[r].pc = "pop"
  BY DEF Pop, At
<1>2. /\ fifo' \in Seq(Markets) /\ Head(fifo) \in Markets
      /\ Len(fifo) \in Nat /\ Len(fifo') = Len(fifo) - 1
      /\ Head(fifo) \in set
      /\ IsInjective(fifo')
      /\ \A i \in DOMAIN fifo' : \E j \in DOMAIN fifo : fifo'[i] = fifo[j]
      /\ \A i \in DOMAIN fifo' : fifo'[i] # Head(fifo)
      /\ \E j \in DOMAIN fifo : fifo[j] = Head(fifo)
  BY <1>1, Popped
<1>3. pc \in Pcs /\ pc \in Holding /\ pc # "crank" /\ Head(fifo) \in Markets \cup {None}
  BY <1>2 DEF Pcs, Holding
<1> HIDE DEF pc
<1>4. /\ runner' \in [Runners -> [pc : Pcs, market : Markets \cup {None}]]
      /\ runner'[r].pc = pc /\ runner'[r].market = Head(fifo)
      /\ \A s \in Runners \ {r} : runner'[s] = runner[s]
      /\ Held' = Held \cup {r}
  BY <1>0, <1>1, <1>3, RunnerMoves
<1>5. TypeOK'
  BY <1>0, <1>1, <1>2, <1>4 DEF TypeOK
<1>6. GuardsInv'
  <2>1. Cardinality(Held') = Cardinality(Held) + 1
    BY <1>1, <1>4, FiniteRunners, FS_AddElement DEF Held, Holding
  <2>2. guards' = Cardinality(Held')
    BY <1>0, <1>1, <2>1 DEF GuardsInv
  <2> QED BY <1>0, <1>2, <1>4, <2>2 DEF GuardsInv
<1>7. QueueMatches'
  <2>1. Len(fifo') + guards' = Cardinality(set')
    BY <1>0, <1>1, <1>2 DEF QueueMatches
  <2>2. \A i \in DOMAIN fifo' : fifo'[i] \in set'
    BY <1>0, <1>1, <1>2 DEF QueueMatches
  <2>3. \A s \in Runners : runner'[s].pc \in Holding => runner'[s].market \in set'
    BY <1>0, <1>1, <1>2, <1>4 DEF QueueMatches
  <2> QED BY <2>1, <2>2, <2>3 DEF QueueMatches
<1>8. OneRunnerPerMarket'
  <2>1. \A s \in Runners \ {r} : runner[s].pc \in Holding => runner[s].market # Head(fifo)
    BY <1>0, <1>2 DEF OneRunnerPerMarket
  <2>2. ASSUME NEW s \in Runners, runner'[s].pc \in Holding
        PROVE  /\ \A u \in Runners \ {s} :
                    runner'[u].pc \in Holding => runner'[u].market # runner'[s].market
               /\ \A i \in DOMAIN fifo' : fifo'[i] # runner'[s].market
    <3>1. CASE s = r
      BY <1>2, <1>4, <2>1, <3>1
    <3>2. CASE s # r
      BY <1>0, <1>2, <1>4, <2>1, <2>2, <3>2 DEF OneRunnerPerMarket
    <3> QED BY <3>1, <3>2
  <2> QED BY <1>2, <2>2 DEF OneRunnerPerMarket
<1>9. WorkSignalled'
  <2>1. CASE Len(fifo) > 1
    <3>1. pc = "resend"
      BY <2>1 DEF pc
    <3> QED BY <1>4, <3>1 DEF WorkSignalled
  <2>2. CASE ~(Len(fifo) > 1)
    <3>1. Len(fifo') \in Nat /\ (fifo' # <<>> => Len(fifo') > 0)
      BY <1>2, LenProperties, EmptySeq
    <3>2. fifo' = <<>>
      BY <1>2, <2>2, <3>1
    <3> QED BY <3>2 DEF WorkSignalled
  <2> QED BY <2>1, <2>2
<1>10. WalletsConserved'
  <2>1. Cardinality(Cranking') = Cardinality(Cranking)
    BY <1>1, <1>3, Borrowed
  <2> QED BY <1>1, <2>1, Pool DEF WalletsConserved, Cranking
<1> QED BY <1>5, <1>6, <1>7, <1>8, <1>9, <1>10 DEF Inv, RunnersApart

\* The guard is dropped: the market is nobody's.
LEMMA RunnerDrops ==
  ASSUME Inv, NEW r \in Runners, DropGuard(r)
  PROVE  Inv'
<1>0. /\ TypeOK /\ GuardsInv /\ QueueMatches /\ OneRunnerPerMarket /\ WorkSignalled
      /\ guards \in Nat /\ Len(fifo) \in Nat /\ set \subseteq Markets
      /\ runner[r].market \in Markets \cup {None} /\ None \in Markets \cup {None}
  BY LenProperties DEF Inv, TypeOK, RunnersApart
<1>1. /\ set' = set \ {runner[r].market} /\ guards' = guards - 1
      /\ UNCHANGED <<work, fifo, channel, free, price>>
      /\ runner[r].pc \in {"done", "failed"}
  BY DEF DropGuard, At
<1>2. PICK pc \in {"status", "delay"}, m \in Markets \cup {None} :
        /\ runner' = [runner EXCEPT ![r] = [pc |-> pc, market |-> m]]
        /\ pc = "status" => m = runner[r].market
  <2>1. CASE runner[r].pc = "done"
    <3>1. Goto(r, "status") /\ "status" \in Pcs
      BY <2>1 DEF DropGuard, At, Pcs
    <3> QED BY <1>0, <3>1, GotoMoves
  <2>2. CASE runner[r].pc = "failed"
    <3>1. Finish(r, "delay") /\ "delay" \in Pcs
      BY <2>2 DEF DropGuard, At, Pcs
    <3> QED BY <1>0, <3>1, FinishMoves
  <2> QED BY <1>1, <2>1, <2>2
<1>3. pc \in Pcs /\ pc \notin Holding /\ pc # "crank" /\ runner[r].pc # "crank"
  BY <1>1, <1>2 DEF Pcs, Holding
<1>4. /\ runner' \in [Runners -> [pc : Pcs, market : Markets \cup {None}]]
      /\ runner'[r].pc = pc /\ runner'[r].market = m
      /\ \A s \in Runners \ {r} : runner'[s] = runner[s]
      /\ Held' = Held \ {r}
  BY <1>0, <1>2, <1>3, RunnerMoves
<1>5. runner[r].pc \in Holding /\ runner[r].market \in Markets /\ runner[r].market \in set
  BY <1>0, <1>1 DEF GuardsInv, QueueMatches, Holding
<1>6. Cardinality(Held') = Cardinality(Held) - 1 /\ Cardinality(Held') \in Nat
  <2>1. r \in Held
    BY <1>5 DEF Held
  <2>2. Cardinality(Held') = Cardinality(Held) - 1
    BY <1>4, <2>1, FiniteRunners, FS_RemoveElement
  <2>3. IsFiniteSet(Held \ {r})
    BY FiniteRunners, FS_Subset
  <2> QED BY <1>4, <2>2, <2>3, FS_CardinalityType
<1>7. GuardsInv'
  <2>1. guards' = Cardinality(Held')
    BY <1>0, <1>1, <1>6 DEF GuardsInv
  <2> QED BY <1>0, <1>2, <1>3, <1>4, <1>5, <2>1 DEF GuardsInv
<1>8. TypeOK'
  <2>1. guards' \in Nat
    BY <1>0, <1>1, <1>6 DEF GuardsInv
  <2> QED BY <1>0, <1>1, <1>4, <2>1 DEF TypeOK
<1>9. QueueMatches'
  <2>1. Cardinality(set') = Cardinality(set) - 1 /\ Cardinality(set) \in Nat
    <3>1. IsFiniteSet(set)
      BY <1>0, ConstantsAssumption, FS_Subset DEF ConstantsOK, RunnersFinite
    <3>2. Cardinality(set \ {runner[r].market}) = Cardinality(set) - 1
      BY <1>5, <3>1, FS_RemoveElement
    <3>3. Cardinality(set) \in Nat
      BY <3>1, FS_CardinalityType
    <3> QED BY <1>1, <3>2, <3>3
  <2>2. Len(fifo') + guards' = Cardinality(set')
    BY <1>0, <1>1, <2>1 DEF QueueMatches
  <2>3. \A i \in DOMAIN fifo' : fifo'[i] \in set'
    BY <1>0, <1>1, <1>5 DEF QueueMatches, OneRunnerPerMarket
  <2>4. \A s \in Runners : runner'[s].pc \in Holding => runner'[s].market \in set'
    BY <1>0, <1>1, <1>3, <1>4, <1>5 DEF QueueMatches, OneRunnerPerMarket
  <2> QED BY <2>2, <2>3, <2>4 DEF QueueMatches
<1>10. OneRunnerPerMarket'
  BY <1>0, <1>1, <1>3, <1>4 DEF OneRunnerPerMarket
<1>11. WorkSignalled'
  <2>1. runner[r].pc \notin {"pop", "resend", "resending", "signal"}
    BY <1>1
  <2> QED BY <1>0, <1>1, <1>4, <2>1 DEF WorkSignalled
<1>12. WalletsConserved'
  <2>1. Cardinality(Cranking') = Cardinality(Cranking)
    BY <1>2, <1>3, Borrowed
  <2> QED BY <1>1, <2>1, Pool DEF WalletsConserved, Cranking
<1> QED BY <1>7, <1>8, <1>9, <1>10, <1>11, <1>12 DEF Inv, RunnersApart

\* A runner that sees more work queues the market, and has to signal.
LEMMA RunnerQueues ==
  ASSUME Inv, NEW r \in Runners, MoreWork(r), runner[r].market \notin set
  PROVE  Inv'
<1>0. /\ TypeOK /\ GuardsInv /\ QueueMatches /\ OneRunnerPerMarket
      /\ None \in Markets \cup {None}
  BY DEF Inv, TypeOK, RunnersApart
<1>1. /\ Push(runner[r].market) /\ Finish(r, "signal") /\ runner[r].pc = "status"
      /\ UNCHANGED <<work, channel, free, price>>
  BY DEF MoreWork, At
<1>2. runner[r].market \in Markets
  BY <1>0, <1>1 DEF GuardsInv
<1>3. /\ fifo' \in Seq(Markets) /\ set' \subseteq Markets /\ UNCHANGED guards
      /\ Len(fifo') + guards' = Cardinality(set')
      /\ \A i \in DOMAIN fifo' : fifo'[i] \in set'
      /\ IsInjective(fifo')
      /\ \A i \in DOMAIN fifo' :
           fifo'[i] = runner[r].market \/ \E j \in DOMAIN fifo : fifo'[i] = fifo[j]
      /\ set' = set \cup {runner[r].market}
  BY <1>1, <1>2, Pushed
<1>4. /\ runner' = [runner EXCEPT ![r] = [pc |-> "signal", market |-> None]]
      /\ "signal" \in Pcs /\ "signal" \notin Holding
  BY <1>0, <1>1, FinishMoves DEF Pcs, Holding
<1>5. /\ runner' \in [Runners -> [pc : Pcs, market : Markets \cup {None}]]
      /\ runner'[r].pc = "signal"
      /\ \A s \in Runners \ {r} : runner'[s] = runner[s]
      /\ Held' = Held \ {r}
  BY <1>0, <1>4, RunnerMoves
<1>6. Held' = Held
  BY <1>1, <1>5 DEF Held, Holding
<1>7. TypeOK'
  BY <1>0, <1>1, <1>3, <1>5 DEF TypeOK
<1>8. GuardsInv'
  BY <1>0, <1>3, <1>4, <1>5, <1>6 DEF GuardsInv
<1>9. QueueMatches'
  BY <1>0, <1>3, <1>4, <1>5 DEF QueueMatches
<1>10. OneRunnerPerMarket'
  <2>1. \A s \in Runners : runner[s].pc \in Holding => runner[s].market # runner[r].market
    BY <1>0 DEF QueueMatches
  <2>2. \A s \in Runners : runner'[s].pc \in Holding => runner'[s] = runner[s]
    BY <1>4, <1>5
  <2> QED BY <1>0, <1>3, <2>1, <2>2 DEF OneRunnerPerMarket
<1>11. WorkSignalled'
  BY <1>5 DEF WorkSignalled
<1>12. WalletsConserved'
  <2>1. Cardinality(Cranking') = Cardinality(Cranking)
    BY <1>0, <1>1, <1>4, Borrowed
  <2> QED BY <1>1, <2>1, Pool DEF WalletsConserved, Cranking
<1> QED BY <1>7, <1>8, <1>9, <1>10, <1>11, <1>12 DEF Inv, RunnersApart

\* At the start nobody holds a market and every wallet is in the pool.
LEMMA StartsApart == Init => Inv
<1> SUFFICES ASSUME Init PROVE Inv
  OBVIOUS
<1>1. Idle.pc = "receive" /\ Idle \in [pc : Pcs, market : Markets \cup {None}]
  BY DEF Idle, Pcs
<1>2. Held = {} /\ Cranking = {}
  BY <1>1 DEF Init, Held, Cranking, At, Holding
<1>3. Cardinality({}) = 0 /\ Len(<<>>) = 0 /\ <<>> \in Seq(Markets) /\ DOMAIN <<>> = {}
  BY FS_EmptySet
<1>4. TypeOK
  BY <1>1, <1>3, ConstantsAssumption DEF Init, TypeOK, ConstantsOK, BoundsNat
<1>5. GuardsInv
  BY <1>1, <1>2, <1>3 DEF Init, GuardsInv, Holding
<1>6. QueueMatches
  BY <1>1, <1>3 DEF Init, QueueMatches, Holding
<1>7. OneRunnerPerMarket
  BY <1>1, <1>3 DEF Init, OneRunnerPerMarket, Holding, IsInjective
<1>8. WorkSignalled
  BY DEF Init, WorkSignalled
<1>9. WalletsConserved
  <2>1. Wallets \in Nat
    BY ConstantsAssumption DEF ConstantsOK, BoundsNat
  <2>2. free + Cardinality(Cranking) = Wallets
    BY <1>2, <1>3, <2>1 DEF Init
  <2> QED BY <2>2 DEF WalletsConserved, Cranking
<1> QED BY <1>4, <1>5, <1>6, <1>7, <1>8, <1>9 DEF Inv, RunnersApart

\* However the runners, the price task and the markets interleave: a market
\* is with one runner or waits once, the set and the guards of the queue agree
\* with who holds what, waiting work is signalled or about to be, and a wallet
\* is in the pool or with one runner.
THEOREM NeverInTheWay == Spec => []RunnersApart
<1>1. Inv /\ [Next]_vars => Inv'
  <2> SUFFICES ASSUME Inv, [Next]_vars PROVE Inv'
    OBVIOUS
  <2>1. CASE (\E m \in Markets : NewWork(m)) \/ Price \/ UNCHANGED vars
    BY <2>1, OtherStep
  <2>2. ASSUME NEW r \in Runners, Step(r) PROVE Inv'
    <3>1. CASE Pop(r)
      BY <3>1, RunnerPops
    <3>2. CASE DropGuard(r)
      BY <3>2, RunnerDrops
    <3>3. CASE MoreWork(r)
      BY <3>3, RunnerWaits, RunnerQueues
    <3>4. CASE GetPoolWallet(r) \/ CrankDone(r) \/ CrankTolerated(r) \/ CrankFailed(r)
      BY <3>4, RunnerCranks
    <3>5. CASE Receive(r) \/ PopNothing(r) \/ CheckChannel(r) \/ Resend(r)
                 \/ NoMoreWork(r) \/ NoStatus(r) \/ Signal(r) \/ Delayed(r)
      BY <3>5, RunnerWaits
    <3> QED BY <2>2, <3>1, <3>2, <3>3, <3>4, <3>5 DEF Step
  <2> QED BY <2>1, <2>2 DEF Next
<1>2. Inv => RunnersApart
  BY DEF Inv
<1> QED BY <1>1, <1>2, StartsApart, PTL DEF Spec

=============================================================================

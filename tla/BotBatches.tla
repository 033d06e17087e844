----------------------------- MODULE BotBatches -----------------------------
(***************************************************************************)
(* Two servers of the bots that collect requests from a channel and pay     *)
(* them with one transaction: the faucet (app/faucet.rs), which taps the     *)
(* faucet contract for visitors and retries a failed batch together with     *)
(* the requests that came in meanwhile, and the minter of the test wallets   *)
(* (wallet_manager.rs), which tries once.  A transaction may fail, and it    *)
(* may be executed although its answer is lost.                              *)
(***************************************************************************)
EXTENDS Integers, Sequences, SequencesExt, FiniteSets

CONSTANTS
  Requests,   \* requests
  Wallets,    \* and the wallets they are for
  WalletOf,
  QueueSize,  \* capacity of the channel
  BatchSize,  \* requests in a transaction
  Retries,    \* attempts at a batch
  Faucet      \* TRUE for the faucet, FALSE for the minter

ConstantsOK ==
  /\ {QueueSize, BatchSize, Retries} \subseteq Nat \ {0} /\ Faucet \in BOOLEAN
  /\ WalletOf \in [Requests -> Wallets]

VARIABLES
  status,  \* where each request is
  queue,   \* the channel
  batch,   \* the requests in work
  tries,   \* failed attempts at the batch
  paid     \* payments for each request, on the chain

vars == <<status, queue, batch, tries, paid>>

Answers == {"ok", "error", "ineligible", "busy"}

Init ==
  /\ status = [r \in Requests |-> "new"]
  /\ queue = << >> /\ batch = << >> /\ tries = 0
  /\ paid = [r \in Requests |-> 0]

\* The faucet contract pays a wallet once within its limit of time.
Tapped(w) == \E r \in Requests : WalletOf[r] = w /\ paid[r] > 0

\* tap asks the contract whether the wallet is eligible; mint does not ask.
Ask(r) ==
  /\ status[r] = "new"
  /\ status' = [status EXCEPT ![r] = IF Faucet /\ Tapped(WalletOf[r]) THEN "ineligible" ELSE "asked"]
  /\ UNCHANGED <<queue, batch, tries, paid>>

\* The question itself may fail.
AskFails(r) ==
  /\ Faucet /\ status[r] = "new"
  /\ status' = [status EXCEPT ![r] = "error"]
  /\ UNCHANGED <<queue, batch, tries, paid>>

\* The faucet refuses a request when the channel is full (try_send), the
\* minter's caller waits (send).
Send(r) ==
  /\ status[r] = "asked"
  /\ IF Len(queue) < QueueSize
     THEN status' = [status EXCEPT ![r] = "queued"] /\ queue' = Append(queue, r)
     ELSE Faucet /\ status' = [status EXCEPT ![r] = "busy"] /\ UNCHANGED queue
  /\ UNCHANGED <<batch, tries, paid>>

Room(b) == IF BatchSize - Len(b) < Len(queue) THEN BatchSize - Len(b) ELSE Len(queue)

\* Mutant: the requests stay in the channel.
FillPeeking(b, n) ==
  /\ batch' = b \o SubSeq(queue, 1, n)
  /\ queue' = queue

\* Takes as many waiting requests as fit into the batch.
Fill(b, n) ==
  /\ batch' = b \o SubSeq(queue, 1, n)
  /\ queue' = SubSeq(queue, n + 1, Len(queue))

Receive ==
  /\ batch = << >> /\ queue # << >>
  /\ Fill(<< >>, Room(<< >>)) /\ tries' = 0
  /\ UNCHANGED <<status, paid>>

\* Mutant of the contract: wallets that were tapped are paid again.
ExecutedAgain(b) == [r \in Requests |-> IF r \in Range(b) THEN paid[r] + 1 ELSE paid[r]]

\* The transaction on the chain: the faucet passes over a wallet that was
\* tapped, also by an earlier recipient of the same batch.
Executed(b) ==
  LET first(r) == CHOOSE i \in 1..Len(b) : WalletOf[b[i]] = WalletOf[r] /\ \A j \in 1..(i - 1) : WalletOf[b[j]] # WalletOf[r]
  IN [r \in Requests |->
        IF r \in Range(b) /\ (Faucet => ~Tapped(WalletOf[r]) /\ b[first(r)] = r)
        THEN paid[r] + 1 ELSE paid[r]]

\* Mutant: only the request that started the batch is answered.
AnsweredFirst(b, answer) == [status EXCEPT ![b[1]] = answer]

Answered(b, answer) == [r \in Requests |-> IF r \in Range(b) THEN answer ELSE status[r]]

Succeed ==
  /\ batch # << >>
  /\ paid' = Executed(batch) /\ status' = Answered(batch, "ok")
  /\ batch' = << >> /\ tries' = 0
  /\ UNCHANGED queue

\* Mutant: a batch is never given up.
FailForever(executed) ==
  /\ batch # << >>
  /\ paid' = IF executed THEN Executed(batch) ELSE paid
  /\ Fill(batch, Room(batch)) /\ tries' = (tries + 1) % Retries /\ UNCHANGED status

\* Mutant: an error is answered as a success.
FailQuietly(executed) ==
  /\ batch # << >>
  /\ paid' = IF executed THEN Executed(batch) ELSE paid
  /\ status' = Answered(batch, "ok") /\ batch' = << >> /\ tries' = 0
  /\ UNCHANGED queue

\* Mutant: the minter tries again, too.
FailRetry(executed) ==
  /\ batch # << >> /\ tries < 2
  /\ paid' = IF executed THEN Executed(batch) ELSE paid
  /\ Fill(batch, Room(batch)) /\ tries' = tries + 1 /\ UNCHANGED status

\* An error, with or without an execution on the chain: the batch is tried
\* again with more requests, or everybody in it is told.
Fail(executed) ==
  /\ batch # << >>
  /\ paid' = IF executed THEN Executed(batch) ELSE paid
  /\ IF tries + 1 < Retries
     THEN Fill(batch, Room(batch)) /\ tries' = tries + 1 /\ UNCHANGED status
     ELSE /\ status' = Answered(batch, "error") /\ batch' = << >> /\ tries' = 0
          /\ UNCHANGED queue

Next ==
  \/ \E r \in Requests : Ask(r) \/ AskFails(r) \/ Send(r)
  \/ Receive \/ Succeed
  \/ \E executed \in BOOLEAN : Fail(executed)

\* The server's loop goes on and every transaction comes to an end; a caller
\* of the minter that waits for room is served.
Fairness ==
  /\ WF_vars(Receive) /\ WF_vars(Succeed \/ \E executed \in BOOLEAN : Fail(executed))
  /\ \A r \in Requests : WF_vars(Send(r))

Spec == Init /\ [][Next]_vars /\ Fairness

----------------------------------------------------------------------------
\* Nobody is told of a success whose wallet was not paid, in whichever batch
\* and attempt the payment was made.
OkMeansPaid == \A r \in Requests : status[r] = "ok" =>
  IF Faucet THEN Tapped(WalletOf[r]) ELSE paid[r] > 0

\* However often a batch is tried and its answer is lost, the faucet pays a
\* wallet once, and the minter pays a request once.
PaidOnce ==
  /\ \A r \in Requests : paid[r] <= 1
  /\ Faucet => \A w \in Wallets : Cardinality({r \in Requests : WalletOf[r] = w /\ paid[r] > 0}) <= 1

\* A request is in the channel or in the batch exactly while it waits.
WaitingOnce ==
  /\ IsInjective(queue \o batch)
  /\ \A r \in Requests : status[r] = "queued" <=> r \in Range(queue \o batch)

\* Every request that was asked for gets an answer, even when every
\* transaction fails and others keep joining its batch.
AllAnswered == \A r \in Requests : status[r] = "asked" ~> status[r] \in Answers
=============================================================================

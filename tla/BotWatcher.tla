----------------------------- MODULE BotWatcher -----------------------------
(***************************************************************************)
(* The watcher around one periodic task of the bots: it runs the task,     *)
(* cuts a run off that takes too long, retries, keeps the status the       *)
(* status page shows and tells Sentry about changes.  A task is a single   *)
(* piece of work, or one piece per market, done one after the other or in  *)
(* parallel.  Time passes in minutes.                                      *)
(***************************************************************************)
EXTENDS Integers, FiniteSets, FiniteSetsExt

CONSTANTS
  Kind,          \* "single", "sequential" or "parallel"
  Pieces,        \* number of markets; 1 for a single task
  OutOfDate,     \* out_of_date in minutes, 0 for None
  MaxRetries,    \* config.retries
  Delay,         \* config.delay in minutes, and delay_between_retries
  SoftErrors,    \* the task may end a run with set_error and an expiry
  Errors         \* error messages

ConstantsOK ==
  /\ Kind \in {"single", "sequential", "parallel"}
  /\ Pieces \in Nat \ {0} /\ (Kind = "single" => Pieces = 1)
  /\ {OutOfDate, MaxRetries, Delay} \subseteq Nat
  /\ SoftErrors \in BOOLEAN

MaxTask == 3    \* MAX_TASK_SECONDS
VeryLate == 5   \* 300 seconds
Expiry == 1     \* set_expiry
Never == -1

VARIABLES
  result,   \* last_result: its value, whether it expires, its age in minutes
  expire,   \* expire_last_result: minutes to go, or Never
  started,  \* minutes since current_run_started, or Never
  running,  \* minutes since the run began, or Never
  todo,     \* pieces of the run still to be done
  failed,   \* errors of the run
  total,    \* whether any run was counted
  retries,
  sleep,    \* minutes to go before the next run
  told,     \* what Sentry was told last
  misled,   \* history: it was told "fine" of a run that reported an error itself
  health,   \* environment: pieces of work succeed, may fail, or fail
  paused    \* environment: the chain appears to be paused

vars == <<result, expire, started, running, todo, failed, total, retries, sleep,
          told, misled, health, paused>>

task == <<result, expire, started, running, todo, failed, total, retries, sleep,
          told, misled>>

NotYetRun == "not yet run"
Fine == "fine"
Silent == "silent"

NoResult == [value |-> NotYetRun, soft |-> FALSE, age |-> 0]

Init ==
  /\ result = NoResult
  /\ expire = Never /\ started = Never /\ running = Never
  /\ todo = {} /\ failed = {}
  /\ total = FALSE /\ retries = 0 /\ sleep = 0
  /\ told = Silent /\ misled = FALSE
  /\ health = "good" /\ paused = FALSE

(***************************************************************************)
(* What the status page shows for a task that triggers alerts.             *)
(***************************************************************************)

IsErr == result.value \in Errors

IsExpired == expire = 0

IsOutOfDate ==
  IF started = Never \/ OutOfDate = 0 THEN "not"
  ELSE IF started >= VeryLate THEN "very"
  ELSE IF started >= OutOfDate THEN "slightly"
  ELSE "not"

Short ==
  CASE result.value = NotYetRun -> NotYetRun
    [] IsErr -> IF IsExpired THEN "error no alert" ELSE "error"
    [] OTHER -> [not |-> "success", slightly |-> "out of date",
                 very |-> "out of date error"][IsOutOfDate]

Alert == Short \in {"error", "out of date error"}

(***************************************************************************)
(* A run.                                                                  *)
(***************************************************************************)

Start ==
  /\ running = Never /\ sleep = 0
  /\ started' = 0 /\ running' = 0
  /\ todo' = 1..Pieces /\ failed' = {}
  /\ UNCHANGED <<result, expire, total, retries, sleep, told, misled, health, paused>>

\* The result of a run is kept when it was an error.
OutputSticky(value, soft) ==
  /\ result' = IF IsErr THEN result ELSE [value |-> value, soft |-> soft, age |-> 0]
  /\ expire' = IF soft THEN Expiry ELSE Never
  /\ retries' = 0 /\ total' = TRUE
  /\ told' = Fine /\ misled' = (soft /\ result.value # Fine)

\* The status after a run that came back with an output.
Output(value, soft) ==
  /\ result' = [value |-> value, soft |-> soft, age |-> 0]
  /\ expire' = IF soft THEN Expiry ELSE Never
  /\ retries' = 0 /\ total' = TRUE
  /\ told' = CASE result.value = Fine -> IF soft THEN value ELSE told
               [] OTHER -> Fine
  /\ misled' = (soft /\ result.value # Fine)

EndRun(pause) ==
  /\ started' = Never /\ running' = Never
  /\ todo' = {} /\ failed' = {}
  /\ sleep' = pause
  /\ UNCHANGED <<health, paused>>

GiveUpWhenSpent == retries + 1 >= MaxRetries

\* Retry unless the retries are spent or no run was ever counted.
GiveUp == retries + 1 >= MaxRetries \/ ~total

FailureQuiet(e) ==
  /\ result' = [value |-> e, soft |-> FALSE, age |-> 0]
  /\ retries' = 0 /\ expire' = Never /\ total' = TRUE
  /\ told' = IF IsErr THEN told ELSE e
  /\ misled' = (misled /\ result.value = e)

\* The status after a run that failed for good.
Failure(e) ==
  /\ result' = [value |-> e, soft |-> FALSE, age |-> 0]
  /\ retries' = 0 /\ expire' = Never /\ total' = TRUE
  /\ told' = IF result.value = e THEN told ELSE e
  /\ misled' = (misled /\ result.value = e)

RetryForever ==
  /\ retries' = 0 /\ expire' = Never /\ total' = TRUE
  /\ UNCHANGED <<result, told, misled>>

\* ... and after one that will be tried again.
Retry ==
  /\ retries' = retries + 1 /\ expire' = Never /\ total' = TRUE
  /\ UNCHANGED <<result, told, misled>>

FailWith(e) ==
  /\ IF paused THEN Output(Fine, FALSE)
     ELSE IF GiveUp THEN Failure(e) ELSE Retry
  /\ EndRun(Delay)

\* How a piece ends; a panic of a parallel piece is an error like another.
Outcome ==
  \/ health # "broken" /\ UNCHANGED failed
  \/ health # "good" /\ \E e \in Errors : failed' = failed \union {e}

\* A piece of work is done; the one after the other kind tells the watcher.
PieceDone(p) ==
  /\ p \in todo /\ (Kind = "sequential" => p = Min(todo))
  /\ Outcome
  /\ todo' = todo \ {p}
  /\ started' = IF Kind = "sequential" THEN 0 ELSE started
  /\ UNCHANGED <<result, expire, running, total, retries, sleep, told, misled, health, paused>>

\* The errors of the pieces make up one message.
Succeed ==
  /\ running # Never /\ todo = {} /\ failed = {}
  /\ Output(Fine, FALSE)
  /\ EndRun(Delay)

Fail ==
  /\ running # Never /\ todo = {}
  /\ \E e \in failed : FailWith(e)

\* A single task ends in an error it reports itself.
SoftError ==
  /\ SoftErrors /\ running # Never /\ todo = {}
  /\ \E e \in failed : Output(e, TRUE)
  /\ EndRun(0)

\* run_single_with_timeout: the run and its pieces are dropped.
TimedOut ==
  /\ OutOfDate > 0 /\ running = MaxTask
  /\ \E e \in Errors : FailWith(e)

\* A panic outside the parallel pieces ends every task; the bots restart.
Panic ==
  /\ running # Never /\ todo # {} /\ Kind # "parallel"
  /\ result' = NoResult /\ expire' = Never /\ total' = FALSE /\ retries' = 0
  /\ EndRun(0)
  /\ misled' = FALSE
  /\ UNCHANGED told

Older(n, cap) == IF n = Never THEN Never ELSE Min({n + 1, cap})
Younger(n) == IF n = Never THEN Never ELSE Max({n - 1, 0})

TickLate ==
  /\ result' = [result EXCEPT !.age = Older(@, Expiry)]
  /\ expire' = Younger(expire)
  /\ started' = Older(started, VeryLate) /\ running' = Older(running, VeryLate)
  /\ sleep' = Younger(sleep)
  /\ UNCHANGED <<todo, failed, total, retries, told, misled, health, paused>>

\* A minute passes; the timer of a run does not wait.
Tick ==
  /\ OutOfDate > 0 => running < MaxTask
  /\ result' = [result EXCEPT !.age = Older(@, Expiry)]
  /\ expire' = Younger(expire)
  /\ started' = Older(started, VeryLate) /\ running' = Older(running, VeryLate)
  /\ sleep' = Younger(sleep)
  /\ UNCHANGED <<todo, failed, total, retries, told, misled, health, paused>>

\* The nodes and the chain: what they do is not up to the bots.
Weather ==
  /\ health' \in {"good", "flaky", "broken"} /\ paused' \in BOOLEAN
  /\ UNCHANGED task

End == Succeed \/ Fail \/ SoftError \/ TimedOut

Next ==
  \/ Start \/ End \/ Panic \/ Tick \/ Weather
  \/ \E p \in todo : PieceDone(p)

Spec == Init /\ [][Next]_vars

PieceSucceeds == health = "good" /\ \E p \in todo : PieceDone(p)

\* The loop and the clock go on; a piece of work may hang for ever unless
\* all is well.
Fairness == WF_vars(Start) /\ WF_vars(End) /\ WF_vars(Tick) /\ WF_vars(PieceSucceeds)

FairSpec == Spec /\ Fairness

(***************************************************************************)
(* Properties.                                                             *)
(***************************************************************************)

\* A run is cut off long before the status page calls it very late, however
\* many markets it works through and whatever they do.
NeverVeryLate == IsOutOfDate # "very"

\* What Sentry was told last is what the task is like: the error it is in,
\* or that there is none.  It is not, of a task that reports errors itself: a run
\* that ends in one is told as a recovery from the error before, or as a start
\* without one (watcher.rs:483, :489).
TruthTold == result.value # NotYetRun => told = result.value

\* What holds: that is the only way in which Sentry is told anything else, and
\* what it is told then is that there is no error.
ToldOrMisled ==
  result.value # NotYetRun => told = result.value \/ (misled /\ told = Fine)

\* "We want to get to first failure quickly so we don't have a misleading
\* success status page": no run ends without a result to show.
FirstFailureShown ==
  [][running # Never /\ running' = Never /\ retries' > 0 => result'.value # NotYetRun]_vars

\* A task that fails or hangs from some time on, panics aside, is shown as
\* an alert from some time on.
BrokenShown ==
  (<>[](health = "broken" /\ ~paused) /\ <>[][~Panic]_vars) => <>[](Short = "error")

\* Once everything works again no alert is left, whatever errors there were.
RecoveryShown ==
  (<>[](health = "good") /\ <>[][~Panic]_vars) => <>[](~Alert)

\* "Controls the stickiness of this message. After how long should we treat
\* this as a non alert?"
ExpiredIsNoAlert == result.soft /\ result.age >= Expiry => ~Alert
=============================================================================

---------------------------- MODULE DeferredQueue ----------------------------
(***************************************************************************)
(* What the market promises a trader about a queued message, without the   *)
(* crank: messages are settled in the order in which they were queued,     *)
(* each exactly once, as a success or as a failure, and the collateral     *)
(* deposited with a message is held until that moment and not longer.      *)
(***************************************************************************)
EXTENDS Integers, Sequences

CONSTANT Deposits   \* collateral that may be deposited with a message

VARIABLES
  reqs,             \* all messages ever queued, in order
  escrow            \* collateral held for the pending ones

Pending == {i \in 1..Len(reqs) : reqs[i].status = "pending"}

Init == reqs = <<>> /\ escrow = 0

Submit ==
  \E d \in Deposits :
    /\ reqs' = Append(reqs, [deposit |-> d, status |-> "pending"])
    /\ escrow' = escrow + d

Settle ==
  \E i \in Pending, outcome \in {"success", "failure"} :
    /\ \A j \in Pending : i =< j
    /\ reqs' = [reqs EXCEPT ![i].status = outcome]
    /\ escrow' = escrow - reqs[i].deposit

Next == Submit \/ Settle

vars == <<reqs, escrow>>
Spec == Init /\ [][Next]_vars
==============================================================================

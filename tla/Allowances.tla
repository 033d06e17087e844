----------------------------- MODULE Allowances -----------------------------
(***************************************************************************)
(* The allowances of a CW20 token: how much of an owner's tokens a spender *)
(* may move, and until when.  The same code keeps them for the CW20        *)
(* contract and, once for LP and once for xLP, for the market.  Every      *)
(* allowance is stored twice, by owner and by spender.                     *)
(***************************************************************************)
EXTENDS Integers

NoEntry == [amount |-> 0, expires |-> -1]   \* the key is missing
Never == 1000                               \* an expiration that never comes
Unchanged == -1                             \* the message names no expiration

\* The entry a missing key stands for when it is increased.
Default(e) == IF e = NoEntry THEN [amount |-> 0, expires |-> Never] ELSE e

WithExpiry(e, expires) ==
  IF expires = Unchanged THEN e ELSE [e EXCEPT !.expires = expires]

Increased(e, x, expires) ==
  [WithExpiry(Default(e), expires) EXCEPT !.amount = @ + x]

\* An allowance that would reach zero is removed.
Decreased(e, x, expires) ==
  IF x < e.amount THEN [WithExpiry(e, expires) EXCEPT !.amount = @ - x]
  ELSE NoEntry

ExpiredLate(e, now) == now > e.expires

Expired(e, now) == now >= e.expires

MayDeduct(e, x, now) == e # NoEntry /\ ~Expired(e, now) /\ x <= e.amount

DeductedNothing(e, x) == e

Deducted(e, x) == [e EXCEPT !.amount = @ - x]
=============================================================================

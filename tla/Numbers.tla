------------------------------ MODULE Numbers ------------------------------
(***************************************************************************)
(* The variable acc holds a number that any sequence of operations worked  *)
(* on, as the fields of positions and of the liquidity pool are; an        *)
(* operation that fails leaves it alone, as a transaction that fails does. *)
(***************************************************************************)
EXTENDS Decimals

VARIABLES
  acc,   \* the number: [value, negative]
  from,  \* acc before the last operation
  op,    \* the last operation and its operand
  ok     \* whether it succeeded

vars == <<acc, from, op, ok>>

(***************************************************************************)
(* Any operation on any number.                                            *)
(***************************************************************************)

None == "none"

Init == acc = Zero /\ from = Zero /\ op = [name |-> None] /\ ok = TRUE

Apply(name, operand, r) ==
  /\ op.name = None
  /\ op' = [name |-> name, by |-> operand]
  /\ from' = acc
  /\ ok' = ~Fails(r)
  /\ acc' = IF Fails(r) THEN acc ELSE r

Add == \E x \in Numbers : Apply("add", x, CheckedAdd(acc, x))
Sub == \E x \in Numbers : Apply("sub", x, CheckedSub(acc, x))
Mul == \E x \in Numbers : Apply("mul", x, CheckedMul(acc, x))
Div == \E x \in Numbers : Apply("div", x, CheckedDiv(acc, x))
Negate == Apply("neg", None, Neg(acc))

\* Only a value that is NonZero, or not negative, has these operations.
UnsignedAdd ==
  ~acc.negative /\ \E x \in Numbers : Apply("add signed", x, AddSigned(acc, x))
NonZeroAdd ==
  ~acc.negative /\ acc.value # 0
  /\ \E x \in Numbers :
       \/ Apply("nonzero add", x, NonZeroAddSigned(acc, x))
       \/ Apply("nonzero sub", x, NonZeroSubSigned(acc, x))
NonZeroMul ==
  ~acc.negative /\ acc.value # 0
  /\ \E x \in Numbers :
       /\ ~x.negative /\ x.value # 0
       /\ \/ Apply("nonzero mul", x, CheckedMulNonZero(acc, x))
          \/ Apply("nonzero div", x, CheckedDivCollateral(acc, x))
NonZeroInverse == ~acc.negative /\ acc.value # 0 /\ Apply("inverse", None, NonZeroInv(acc))

\* An amount is sent to a token contract, and its integer is read back.
Send ==
  \E precision \in 0..Digits :
    LET sent == ToU128(acc, precision)
    IN Apply("send", precision, IF sent = Overflow THEN Failed ELSE FromU128(sent, precision))

Floor == ~acc.negative /\ \E precision \in 0..Digits :
           Apply("floor", precision, FloorWithPrecision(acc, precision))

Store == ~acc.negative /\ Apply("store", None, FromKeyBytes(KeyBytes(acc)))

Serialize == Apply("print", None, Parse(Text(acc)))

\* The next operation works on the outcome of this one.
Continue ==
  /\ op.name # None
  /\ op' = [name |-> None] /\ from' = Zero /\ ok' = TRUE
  /\ UNCHANGED acc

Next ==
  \/ Add \/ Sub \/ Mul \/ Div \/ Negate
  \/ UnsignedAdd \/ NonZeroAdd \/ NonZeroMul \/ NonZeroInverse
  \/ Send \/ Floor \/ Store \/ Serialize \/ Continue

Spec == Init /\ [][Next]_vars

(***************************************************************************)
(* Properties                                                              *)
(***************************************************************************)

Abs(i) == IF i < 0 THEN -i ELSE i
Did(name) == op.name = name

\* Whatever was calculated, 0 has one representation: the derived equality of
\* Signed compares the sign too, and new_negative and neg keep -0 out.
OneZero ==
  acc \in [value : 0..MaxRaw, negative : BOOLEAN] /\ (acc.negative => acc.value # 0)

\* Sums and differences (checked_add with its four cases of signs) are exact,
\* and fail exactly when the exact result does not fit.
SumsExact ==
  /\ Did("add") =>
       LET sum == Val(from) + Val(op.by)
       IN ok = (Abs(sum) <= MaxRaw) /\ (ok => Val(acc) = sum)
  /\ Did("sub") =>
       LET difference == Val(from) - Val(op.by)
       IN ok = (Abs(difference) <= MaxRaw) /\ (ok => Val(acc) = difference)

\* A product or a quotient is the exact one cut off towards 0, off by less than
\* one atomic: no value is created by rounding.
NeverMore ==
  /\ Did("mul") /\ ok =>
       LET exact == Val(from) * Val(op.by)
       IN /\ Abs(Val(acc)) * Scale <= Abs(exact)
          /\ Abs(exact) < (Abs(Val(acc)) + 1) * Scale
          /\ Val(acc) * exact >= 0
  /\ Did("div") /\ ok =>
       LET back == Val(acc) * Val(op.by)
       IN /\ Abs(back) <= Abs(Val(from)) * Scale
          /\ Abs(Val(from)) * Scale < (Abs(Val(acc)) + 1) * Abs(Val(op.by))
          /\ Val(acc) * Val(from) * Val(op.by) >= 0

\* The order of Signed (cmp) is that of the numbers they stand for.
OrderIsNumeric ==
  Did("add") => /\ Less(from, op.by) <=> Val(from) < Val(op.by)
                /\ Less(op.by, from) <=> Val(op.by) < Val(from)

\* The tolerant comparisons agree with each other wherever none of them
\* overflows: two numbers are approximately equal when neither is approximately
\* more, and strictly more leaves no room for equality.
ApproxAgree ==
  Did("mul") =>
    LET eq == ApproxEq(from, op.by)
        lt == ApproxLtRelaxed(from, op.by)
        gt == ApproxGtRelaxed(from, op.by)
        strict == ApproxGtStrict(from, op.by)
        eps == NewPositive(Eps)
    IN ~(\E r \in {CheckedSub(from, op.by), CheckedAdd(op.by, eps), CheckedSub(op.by, eps)} :
           Fails(r)) =>
         /\ eq <=> (lt /\ gt)
         /\ strict => (gt /\ ~eq)

\* An amount that goes out to a token contract and comes back is never more
\* than it was, and loses less than the smallest amount the token knows; what
\* is a whole number of those survives (to_u128_with_precision, into_u128,
\* from_u128, floor_with_precision).
TokensNotMade ==
  (Did("send") \/ Did("floor")) /\ ok =>
    /\ Val(acc) <= Val(from) /\ Val(from) < Val(acc) + Factor(op.by)
    /\ from.value % Factor(op.by) = 0 => acc = from

\* Keys are read back as what was stored, and the order in which storage
\* iterates over keys is the order of the numbers (to_unsigned_key_bytes).
KeysSorted ==
  /\ Did("store") => acc = from
  /\ Did("add") /\ ~from.negative /\ ~op.by.negative =>
       (KeyLess(KeyBytes(from), KeyBytes(op.by)) <=> Val(from) < Val(op.by))

\* A number that is printed and parsed again is the same number: what a message
\* or an event carries is what the other contract gets.
PrintedIsParsed == Did("print") => ok /\ acc = from

\* An unsigned or NonZero value only changes by a signed one when the outcome is
\* still unsigned, or NonZero.
StaysInType ==
  /\ Did("add signed") => ok = (Val(from) + Val(op.by) \in 0..MaxRaw)
  /\ Did("nonzero add") => ok = (Val(from) + Val(op.by) \in 1..MaxRaw)
  /\ Did("nonzero sub") => ok = (Val(from) - Val(op.by) \in 1..MaxRaw)

\* "NonZero<T>: a newtype wrapper which ensures that the value is not zero."
NonZeroIsNot == (Did("nonzero mul") \/ Did("nonzero div")) /\ ok => acc.value # 0

\* "Guaranteed not to fail, since all values here must be great than zero."
InverseExists == Did("inverse") => ok
=============================================================================

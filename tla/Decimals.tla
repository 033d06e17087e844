------------------------------ MODULE Decimals ------------------------------
(***************************************************************************)
(* The numbers all contracts calculate with.  A Decimal256 is a count of   *)
(* atomics, Scale of which make 1; a Signed value is a Decimal256 and a    *)
(* sign; a NonZero value is never 0.                                       *)
(***************************************************************************)
EXTENDS Integers, Sequences, SequencesExt

CONSTANTS
  Base,      \* 10 in the code
  Digits,    \* fractional digits, 18 in the code
  MaxRaw,    \* Decimal256::MAX in atomics
  MaxU128,   \* largest amount of a token contract
  Eps        \* EPS_E7 in atomics

Scale == Base ^ Digits

NumberConstants ==
  /\ {Base, Digits, MaxRaw, MaxU128, Eps} \subseteq Nat
  /\ Base >= 2
  /\ Scale * Scale <= MaxRaw /\ MaxU128 * Scale <= MaxRaw

(***************************************************************************)
(* Decimal256 and the constructors that keep 0 from being negative.        *)
(***************************************************************************)

Overflow == -1

Checked(raw) == IF raw \in 0..MaxRaw THEN raw ELSE Overflow

DecAdd(a, b) == Checked(a + b)
DecSub(a, b) == Checked(a - b)
DecMul(a, b) == Checked((a * b) \div Scale)
DecDiv(a, b) == IF b = 0 THEN Overflow ELSE Checked((a * Scale) \div b)

Signed(value, negative) == [value |-> value, negative |-> negative]
NewPositive(value) == Signed(value, FALSE)

Failed == Signed(Overflow, FALSE)
Fails(r) == r = Failed

NewNegativeRaw(value) == Signed(value, TRUE)

NewNegative(value) == Signed(value, value # 0)

WithSign(negative, r) ==
  IF r = Overflow THEN Failed
  ELSE IF negative THEN NewNegative(r) ELSE NewPositive(r)

Zero == NewPositive(0)
Val(n) == IF n.negative THEN -n.value ELSE n.value
Number(i) == IF i < 0 THEN NewNegative(-i) ELSE NewPositive(i)
Numbers == {Number(i) : i \in -MaxRaw..MaxRaw}

(***************************************************************************)
(* Operations on Signed.                                                   *)
(***************************************************************************)

Neg(n) == IF n.value = 0 THEN n ELSE [n EXCEPT !.negative = ~@]

CheckedAddNoSwap(a, b) ==
  IF a.negative = b.negative THEN WithSign(a.negative, DecAdd(a.value, b.value))
  ELSE WithSign(a.negative, DecSub(a.value, b.value))

CheckedAdd(a, b) ==
  IF a.negative = b.negative THEN WithSign(a.negative, DecAdd(a.value, b.value))
  ELSE IF a.value >= b.value THEN WithSign(a.negative, DecSub(a.value, b.value))
  ELSE WithSign(b.negative, DecSub(b.value, a.value))

CheckedSub(a, b) == CheckedAdd(a, Neg(b))

CheckedMulSigns(a, b) ==
  WithSign(a.negative \/ b.negative, DecMul(a.value, b.value))

CheckedMul(a, b) == WithSign(a.negative # b.negative, DecMul(a.value, b.value))

CheckedDivCeil(a, b) ==
  WithSign(a.negative # b.negative,
           IF b.value = 0 THEN Overflow
           ELSE Checked((a.value * Scale + b.value - 1) \div b.value))

CheckedDiv(a, b) == WithSign(a.negative # b.negative, DecDiv(a.value, b.value))

LessOrSame(a, b) ==
  IF a.negative = b.negative
  THEN IF a.negative THEN b.value <= a.value ELSE a.value <= b.value
  ELSE a.negative

Less(a, b) ==
  IF a.negative = b.negative
  THEN IF a.negative THEN b.value < a.value ELSE a.value < b.value
  ELSE a.negative

ApproxEq(a, b) == CheckedSub(a, b).value < Eps
ApproxLtRelaxed(a, b) == Less(a, CheckedAdd(b, NewPositive(Eps)))
ApproxGtRelaxedLoose(a, b) == ~Less(a, CheckedSub(b, NewPositive(Eps)))
ApproxGtRelaxed(a, b) == Less(CheckedSub(b, NewPositive(Eps)), a)
ApproxGtStrict(a, b) == Less(CheckedAdd(b, NewPositive(Eps)), a)

(***************************************************************************)
(* Unsigned values and NonZero.                                            *)
(***************************************************************************)

TryNonNegative(r) == IF Fails(r) \/ r.negative THEN Failed ELSE r
TryNonZeroLoose(r) == TryNonNegative(r)

TryNonZero(r) == IF Fails(TryNonNegative(r)) \/ r.value = 0 THEN Failed ELSE r

AddSigned(a, b) == TryNonNegative(CheckedAdd(a, b))
NonZeroAddSigned(a, b) == TryNonZero(CheckedAdd(a, b))
NonZeroSubSigned(a, b) == TryNonZero(CheckedAdd(a, Neg(b)))

\* These two make the result NonZero without looking at it.
CheckedMulNonZero(a, b) == WithSign(FALSE, DecMul(a.value, b.value))
CheckedDivCollateral(a, b) == WithSign(FALSE, DecDiv(a.value, b.value))

\* A panic when 1 / a has no atomics.
NonZeroInv(a) == TryNonZero(WithSign(FALSE, DecDiv(Scale, a.value)))

(***************************************************************************)
(* Conversions: to the integers of token contracts, to storage keys and to *)
(* text.                                                                   *)
(***************************************************************************)

Factor(precision) == Base ^ (Digits - precision)

ToU128Up(n, precision) ==
  IF n.negative \/ n.value \div Factor(precision) >= MaxU128 THEN Overflow
  ELSE (n.value + Factor(precision) - 1) \div Factor(precision)

ToU128(n, precision) ==
  IF n.negative \/ n.value \div Factor(precision) > MaxU128 THEN Overflow
  ELSE n.value \div Factor(precision)

FromU128(x, precision) == NewPositive(x * Factor(precision))

FloorWithPrecision(n, precision) ==
  NewPositive((n.value \div Factor(precision)) * Factor(precision))

\* The key is the value's digits of a fixed width, largest first.
Width == CHOOSE w \in 1..MaxRaw : Base ^ w > MaxRaw /\ Base ^ (w - 1) <= MaxRaw

KeyBytesLe(n) == [i \in 1..Width |-> (n.value \div Base ^ (i - 1)) % Base]

KeyBytes(n) == [i \in 1..Width |-> (n.value \div Base ^ (Width - i)) % Base]

FromKeyBytes(key) ==
  NewPositive(FoldLeft(LAMBDA sum, digit : sum * Base + digit, 0, key))

KeyLess(k, l) ==
  \E i \in 1..Width : k[i] < l[i] /\ \A j \in 1..(i - 1) : k[j] = l[j]

\* Text without trailing zeros; parsing takes trailing zeros, but no more than
\* Digits fractional digits, and takes "-0" for 0.
Fraction(n) == [i \in 1..Digits |-> (n.value \div Base ^ (Digits - i)) % Base]

Text(n) ==
  LET len == CHOOSE l \in 0..Digits :
               /\ \A i \in (l + 1)..Digits : Fraction(n)[i] = 0
               /\ l > 0 => Fraction(n)[l] # 0
  IN [minus |-> n.negative, whole |-> n.value \div Scale, frac |-> SubSeq(Fraction(n), 1, len)]

ParseNoPadding(text) ==
  WithSign(text.minus,
    Checked(text.whole * Scale + FoldLeft(LAMBDA sum, digit : sum * Base + digit, 0, text.frac)))

Parse(text) ==
  IF Len(text.frac) > Digits THEN Failed
  ELSE WithSign(text.minus,
         Checked(text.whole * Scale
                 + FoldLeft(LAMBDA sum, digit : sum * Base + digit, 0, text.frac)
                   * Base ^ (Digits - Len(text.frac))))

=============================================================================

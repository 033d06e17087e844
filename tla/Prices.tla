------------------------------- MODULE Prices -------------------------------
(***************************************************************************)
(* Markets, prices and amounts of tokens.  A market is written BASE_QUOTE, *)
(* with a plus where the collateral is not the one expected.  Its users    *)
(* see the price of the base asset in the quote asset; the protocol        *)
(* calculates with the price of the notional asset in collateral, which is *)
(* the inverse when the collateral is the base asset.  The machine takes   *)
(* any market through any sequence of prices and converts any amount       *)
(* under each of them.                                                     *)
(***************************************************************************)
EXTENDS Decimals

CONSTANTS
  Assets,     \* names of assets
  Fiat,       \* USD and EUR in the code
  Usd,        \* the asset that is the US dollar
  MaxPrice,   \* largest price in atomics
  MaxAmount,  \* largest amount converted, in atomics
  Places,     \* decimal places of the collateral token
  MaxI64      \* largest mantissa of a Pyth price

ConstantsOK ==
  /\ NumberConstants
  /\ Fiat \subseteq Assets /\ Usd \in Fiat
  /\ {MaxPrice, MaxAmount, Places, MaxI64} \subseteq Nat
  /\ MaxPrice <= MaxRaw /\ MaxAmount <= MaxRaw /\ Places <= Digits

VARIABLES
  market,  \* MarketId
  price,   \* PriceBaseInQuote in atomics
  last,    \* the price before
  op,      \* the last conversion and what it was given
  result   \* what it returned

vars == <<market, price, last, op, result>>

(***************************************************************************)
(* MarketId                                                                *)
(***************************************************************************)

Quote == "collateral is quote"
BaseAsset == "collateral is base"

\* Text: the two names, and how many plus signs follow each.
EncodedNoFiat(base, quote, type) ==
  [base |-> base, quote |-> quote,
   basePlus |-> IF type = BaseAsset /\ quote \notin Fiat THEN 1 ELSE 0, quotePlus |-> 0]

Encoded(base, quote, type) ==
  [base |-> base, quote |-> quote,
   basePlus |-> IF type = BaseAsset /\ quote \notin Fiat THEN 1 ELSE 0,
   quotePlus |-> IF type = Quote /\ quote \in Fiat THEN 1 ELSE 0]

MarketId(base, quote, type) == [base |-> base, quote |-> quote, type |-> type]

NoMarket == MarketId("none", "none", "none")

\* A name with plus signs left over is no fiat currency.
ParseMarket(text) ==
  LET baseIsCollateral == text.basePlus > 0
      quoteIsCollateral == text.quotePlus > 0
  IN IF \/ baseIsCollateral /\ text.quote \in Fiat /\ text.quotePlus = 0
        \/ quoteIsCollateral /\ ~(text.quote \in Fiat /\ text.quotePlus = 1)
        \/ baseIsCollateral /\ quoteIsCollateral
     THEN NoMarket
     ELSE MarketId(text.base, text.quote,
            IF baseIsCollateral THEN BaseAsset
            ELSE IF quoteIsCollateral THEN Quote
            ELSE IF text.quote \in Fiat THEN BaseAsset ELSE Quote)

Notional == IF market.type = Quote THEN market.base ELSE market.quote
Collateral == IF market.type = Quote THEN market.quote ELSE market.base

(***************************************************************************)
(* Prices                                                                  *)
(***************************************************************************)

Mul(a, b) == DecMul(a, b)
Div(a, b) == DecDiv(a, b)
Inv(p) == Div(Scale, p)

IntoNotionalPriceAsIs(p) == p

IntoNotionalPrice(p) == IF market.type = Quote THEN p ELSE Inv(p)

IntoBasePriceAsIs(p) == p

IntoBasePrice(p) == IF market.type = Quote THEN p ELSE Inv(p)

\* try_into_usd: the price of collateral in USD, if one asset is USD.
NoPrice == -1

TryIntoUsdSwapped(p) ==
  IF market.base = Usd THEN IF market.type = Quote THEN Inv(p) ELSE Scale
  ELSE IF market.quote = Usd THEN IF market.type = Quote THEN p ELSE Scale
  ELSE NoPrice

TryIntoUsd(p) ==
  IF market.base = Usd THEN IF market.type = Quote THEN Inv(p) ELSE Scale
  ELSE IF market.quote = Usd THEN IF market.type = Quote THEN Scale ELSE p
  ELSE NoPrice

PriceNotional == IntoNotionalPrice(price)

NotionalToCollateral(n) == Mul(n, PriceNotional)
CollateralToNotional(c) == Div(c, PriceNotional)
BaseToCollateralAlways(b) == Mul(b, PriceNotional)

BaseToCollateral(b) == IF market.type = Quote THEN Mul(b, PriceNotional) ELSE b
CollateralToBase(c) == IF market.type = Quote THEN Div(c, PriceNotional) ELSE c
CollateralToUsd(c) == Mul(c, TryIntoUsd(price))
UsdToCollateral(u) == Div(u, TryIntoUsd(price))
NotionalToUsd(n) ==
  IF Notional = Usd THEN n ELSE CollateralToUsd(NotionalToCollateral(n))

\* A Pyth price is an integer and an exponent.  To it: the digits of the text
\* without the point; from it: multiplied or divided by a power of the base.
ToPyth(raw) ==
  LET text == Text(NewPositive(raw))
      mantissa == FoldLeft(LAMBDA sum, digit : sum * Base + digit, text.whole, text.frac)
  IN [price |-> IF mantissa > MaxI64 THEN Overflow ELSE mantissa, expo |-> Len(text.frac)]

FromPythTimes(p) == Mul(p.price * Scale, (Base ^ p.expo) * Scale)

FromPyth(p) == Div(p.price * Scale, (Base ^ p.expo) * Scale)

(***************************************************************************)
(* The collateral token                                                    *)
(***************************************************************************)

IntoU128(amount) == ToU128(NewPositive(amount), Places)

RoundDownToPrecision(amount) ==
  IF IntoU128(amount) = Overflow THEN Overflow ELSE FromU128(IntoU128(amount), Places).value

ValidateCollateralLoose(amount) ==
  IF IntoU128(amount) > 0 THEN amount ELSE Overflow

ValidateCollateral(amount) ==
  IF IntoU128(amount) > 0 /\ RoundDownToPrecision(amount) = amount THEN amount ELSE Overflow

\* A message with funds: without any, the message goes to the contract itself.
\* For a native coin the program panics when a non-zero amount rounds to 0.
Panic == -2

IntoExecuteMsg(kind, amount) ==
  CASE IntoU128(amount) = Overflow -> Overflow
    [] amount # 0 /\ IntoU128(amount) = 0 /\ kind = "native" -> Panic
    [] OTHER -> IntoU128(amount)

(***************************************************************************)
(* Any market, any price, any conversion.                                  *)
(***************************************************************************)

None == "none"
NoOp == [name |-> None]

Types == {Quote, BaseAsset}
Texts == [base : Assets, quote : Assets, basePlus : 0..2, quotePlus : 0..2]

\* Pairs of different assets; both prices are given to the market by an oracle,
\* which never gives 0, and must have an inverse.
Init ==
  /\ market \in {MarketId(b, q, t) : b \in Assets, q \in Assets, t \in Types}
  /\ market.base # market.quote
  /\ price = Scale /\ last = Scale /\ op = NoOp /\ result = 0

SetPrice(p) ==
  /\ op = NoOp /\ Inv(p) > 0
  /\ price' = p /\ last' = price
  /\ UNCHANGED <<market, op, result>>

Convert(name, given, r) ==
  /\ op = NoOp
  /\ op' = [name |-> name, given |-> given] /\ result' = r
  /\ last' = price
  /\ UNCHANGED <<market, price>>

ThenBack(r, Back(_)) == IF r = Overflow THEN Overflow ELSE Back(r)

Done ==
  /\ op # NoOp /\ op' = NoOp /\ result' = 0
  /\ UNCHANGED <<market, price, last>>

Next ==
  \/ \E p \in 1..MaxPrice : SetPrice(p)
  \/ \E a \in 0..MaxAmount :
       \/ Convert("notional", a, CollateralToNotional(a))
       \/ Convert("collateral back", a, ThenBack(CollateralToNotional(a), NotionalToCollateral))
       \/ Convert("base", a, CollateralToBase(a))
       \/ Convert("base back", a, ThenBack(CollateralToBase(a), BaseToCollateral))
       \/ /\ TryIntoUsd(price) # NoPrice
          /\ \/ Convert("usd", a, CollateralToUsd(a))
             \/ Convert("usd back", a, ThenBack(UsdToCollateral(a), CollateralToUsd))
             \/ Convert("notional usd", a, NotionalToUsd(a))
       \/ Convert("pyth", a, IF ToPyth(a).price = Overflow THEN Overflow ELSE FromPyth(ToPyth(a)))
       \/ Convert("round down", a, RoundDownToPrecision(a))
       \/ Convert("validate", a, ValidateCollateral(a))
       \/ \E kind \in {"native", "cw20"} :
            Convert(kind, a, IntoExecuteMsg(kind, a))
  \/ \E text \in Texts :
       price = Scale /\ Convert("parse", text, IF ParseMarket(text) = NoMarket THEN 0 ELSE 1)
  \/ Done

Spec == Init /\ [][Next]_vars

(***************************************************************************)
(* Properties                                                              *)
(***************************************************************************)

Did(name) == op.name = name /\ result >= 0

\* The text of a market is parsed as that market and no other, the pluses say
\* exactly what differs from the default, and the assertion of parse, that
\* writing the market again gives the text, never fails.  (With two pluses, the
\* first one belongs to the name of the base asset.)
MarketNames ==
  /\ ParseMarket(Encoded(market.base, market.quote, market.type)) = market
  /\ op.name = "parse" /\ result = 1 =>
       LET m == ParseMarket(op.given)
       IN \/ Encoded(m.base, m.quote, m.type) = op.given
          \/ op.given.basePlus > 1

\* A higher price for the users is a price that is not lower for the protocol,
\* or not higher when collateral is the base asset: the price tests of orders
\* and positions, which use the protocol's price, cannot go the wrong way.
PricesKeepOrder ==
  last < price =>
    IF market.type = Quote THEN IntoNotionalPrice(last) < IntoNotionalPrice(price)
    ELSE IntoNotionalPrice(last) >= IntoNotionalPrice(price)

\* Going to the protocol's price and back never gives the users a lower price.
PriceRoundTrip == IntoBasePrice(PriceNotional) >= price \/ IntoBasePrice(PriceNotional) = Overflow

\* Collateral that is exchanged for another unit and back is never more than it
\* was, whatever the price: conversions create no value.
NothingGained ==
  \A name \in {"collateral back", "base back", "usd back"} : Did(name) => result <= op.given

\* A notional of US dollars is worth itself, and by way of collateral it is
\* worth no more: both ways of notional_to_usd agree up to rounding.
DollarsAgree ==
  /\ Did("notional usd") /\ Notional = Usd => CollateralToUsd(NotionalToCollateral(op.given)) <= op.given
  /\ Did("usd") /\ Collateral = Usd => result = op.given

\* A price in Pyth's form is read as the price it was made from.
PythRoundTrip == Did("pyth") => result = op.given

\* An amount passes validate_collateral exactly when sending it loses nothing,
\* and rounding down gives amounts that pass.
ValidIsExact ==
  /\ op.name = "validate" => (result >= 0) = (op.given > 0 /\ RoundDownToPrecision(op.given) = op.given)
  /\ Did("round down") => result <= op.given /\ (result > 0 => ValidateCollateral(result) = result)

\* "impossible 0 result": an amount that is not 0 is not 0 in another unit.
NeverNothing ==
  \A name \in {"notional", "base", "usd"} : Did(name) /\ op.given > 0 => result > 0

\* An amount that rounds to 0 "bubbles up" as no funds: the message is sent
\* without any.
DustSends == op.name \in {"native", "cw20"} => result # Panic
=============================================================================

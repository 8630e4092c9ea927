------------------------------ MODULE Pricing ------------------------------
(***************************************************************************)
(* The arithmetic of rates and amounts (rate_service, routing_service and  *)
(* quote_service), in integers.  A rate r stands for r / RateScale, so that *)
(* RateScale is 10^8 in the code; an amount is in minor units, of which    *)
(* every supported currency has a hundred; a request may be finer than     *)
(* that, by AmountScale.  Nothing bounds a spread, so that a rate may be   *)
(* zero or negative, and the amounts with it.                              *)
(*                                                                         *)
(* Decimal keeps 28 digits between roundings, which is exact for sums and  *)
(* products of this size and close enough for quotients: a quotient of     *)
(* such integers that is not half-way is further from half-way than that.  *)
(***************************************************************************)
EXTENDS Integers

CONSTANTS
  RateScale,    \* 10^RATE_DECIMAL_PLACES
  AmountScale,  \* how much finer than a minor unit a request may be
  SpreadScale   \* 10^8 in the code: a spread s stands for s / SpreadScale

ASSUME ScalesAssumption ==
  /\ RateScale \in Nat \ {0}
  /\ AmountScale \in Nat \ {0}
  /\ SpreadScale \in Nat \ {0}

Magnitude(n) == IF n < 0 THEN -n ELSE n

\* Decimal.quantize of a quotient with ROUND_HALF_UP: half-way goes away from zero.
RoundHalfUp(n, d) ==
  LET nearest == (2 * Magnitude(n) + Magnitude(d)) \div (2 * Magnitude(d))
  IN  IF (n < 0) = (d < 0) THEN nearest ELSE -nearest

-----------------------------------------------------------------------------
(* Rates *)

\* _quantize_rate(1 / rate), and the rate between two currencies that are both
\* quoted against USD.
Inverted(rate) == RoundHalfUp(RateScale * RateScale, rate)

Crossed(base, quote) == RoundHalfUp(quote * RateScale, base)

BuyRate(mid, spread) == RoundHalfUp(mid * (SpreadScale + spread), SpreadScale)

SellRate(mid, spread) == RoundHalfUp(mid * (SpreadScale - spread), SpreadScale)

-----------------------------------------------------------------------------
(* Amounts over one leg, and over two *)

QuantizeAmount(amount) == RoundHalfUp(amount, AmountScale)

Converted(source, rate) == RoundHalfUp(source * rate, RateScale)

BackSolved(destination, rate) == RoundHalfUp(destination * RateScale, rate)

ConvertedTwice(source, first, last) ==
  RoundHalfUp(source * first * last, RateScale * RateScale)

BackSolvedTwice(destination, first, last) ==
  RoundHalfUp(destination * RateScale * RateScale, first * last)

Compounded(first, last) == RoundHalfUp(first * last, RateScale)

\* _verify_direct_pair_invariant
DirectPairHolds(source, rate, destination) ==
  Converted(source, rate) = destination
=============================================================================

------------------------------ MODULE DecimalMath ------------------------------
(***************************************************************************)
(* The fixed-point arithmetic of utils/math.ts and what prices are made of *)
(* with it.  A coefficient c with exponent e stands for c * 10^e; BN's     *)
(* division truncates, and all coefficients here are natural numbers.      *)
(***************************************************************************)
EXTENDS Integers

CONSTANTS UsdDecimals,   \* USD_DECIMALS (6)
          BpsDecimals,   \* BPS_DECIMALS (4)
          RateDecimals   \* RATE_DECIMALS (9)

ASSUME ScaleAssumption ==
    /\ UsdDecimals \in Nat /\ RateDecimals \in Nat
    /\ BpsDecimals \in Nat \ {0}

Pow10[n \in Nat] == IF n = 0 THEN 1 ELSE 10 * Pow10[n - 1]

Pos(x) == IF x > 0 THEN x ELSE 0

\* What a function that may throw answers is a set: empty if it throws.

\* OraclePrice.scale_to_exponent: the target exponent must be negative.
ScaleTo(c, e, t) ==
    IF t >= 0 THEN {} ELSE {IF t > e THEN c \div Pow10[t - e] ELSE c * Pow10[e - t]}

\* checkedCeilDiv
CeilDiv(a, b) == IF a > 0 THEN (a - 1) \div b + 1 ELSE a \div b

\* checkedDecimalMul and checkedDecimalCeilMul, which differ in the division
DecimalMul(c1, e1, c2, e2, t) ==
    LET p == e1 + e2 - t
    IN  IF p > 0 THEN c1 * c2 * Pow10[p] ELSE (c1 * c2) \div Pow10[-p]

\* (mutant) rounded down
DecimalCeilMul_Floor(c1, e1, c2, e2, t) == DecimalMul(c1, e1, c2, e2, t)

DecimalCeilMul(c1, e1, c2, e2, t) ==
    LET p == e1 + e2 - t
    IN  IF p > 0 THEN c1 * c2 * Pow10[p] ELSE CeilDiv(c1 * c2, Pow10[-p])

\* checkedDecimalDiv, for c2 # 0: the dividend is scaled by every exponent that
\* asks for it, and what is over is taken back after the division.
DecimalDiv(c1, e1, c2, e2, t) ==
    LET scale == Pos(e1) + Pos(-e2) + Pos(-t)
        p == e1 - e2 - t - Pos(-e2) - Pos(-t)
        quotient == (c1 * Pow10[scale]) \div c2
    IN  IF p >= 0 THEN quotient * Pow10[p] ELSE quotient \div Pow10[-p]
-----------------------------------------------------------------------------
(* Prices.                                                                 *)

\* (mutant) the finer price is scaled to the coarser exponent
Cmp_Coarse(c1, e1, c2, e2) ==
    IF e1 = e2 THEN {c1 - c2}
    ELSE IF e1 > e2 THEN {c1 - s : s \in ScaleTo(c2, e2, e1)}
    ELSE {s - c2 : s \in ScaleTo(c1, e1, e2)}

\* OraclePrice.cmp: the coarser price is scaled to the finer exponent; the answer
\* is the sign of this difference.
Cmp(c1, e1, c2, e2) ==
    IF e1 = e2 THEN {c1 - c2}
    ELSE IF e1 < e2 THEN {c1 - s : s \in ScaleTo(c2, e2, e1)}
    ELSE {s - c2 : s \in ScaleTo(c1, e1, e2)}

\* applyRateMultiplier: zero means no multiplier.
Effective(price, e, rate) ==
    IF rate = 0 THEN price ELSE DecimalMul(price, e, rate, -RateDecimals, e)

\* (mutant) USD at the price without its rate
AssetAmountUsd_NoRate(tokens, decimals, price, e, rate) ==
    DecimalMul(tokens, -decimals, price, e, -UsdDecimals)

\* getTokenAmount, getAssetAmountUsd
TokenAmount(usd, decimals, price, e, rate) ==
    IF usd = 0 \/ price = 0 THEN 0
    ELSE DecimalDiv(usd, -UsdDecimals, Effective(price, e, rate), e, -decimals)

AssetAmountUsd(tokens, decimals, price, e, rate) ==
    DecimalMul(tokens, -decimals, Effective(price, e, rate), e, -UsdDecimals)

\* getPriceAfterSlippage: the limit moves by the spread, against the trader,
\* and not below zero.
Spread(price, e, bps) == DecimalCeilMul(price, e, bps, -BpsDecimals, e)

PriceAfterSlippage(isEntry, bps, price, e, side) ==
    LET spread == Spread(price, e, bps)
    IN  IF isEntry = (side = "long") THEN price + spread ELSE Pos(price - spread)
-----------------------------------------------------------------------------
(* The exact values, as fractions: p and q such that the value is p/q.     *)
Product(c1, e1, c2, e2, t) ==
    LET p == e1 + e2 - t IN <<c1 * c2 * Pow10[Pos(p)], Pow10[Pos(-p)]>>
Quotient(c1, e1, c2, e2, t) ==
    LET p == e1 - e2 - t IN <<c1 * Pow10[Pos(p)], c2 * Pow10[Pos(-p)]>>

IsFloor(r, f) == r * f[2] <= f[1] /\ f[1] < (r + 1) * f[2]
IsCeil(r, f) == f[1] <= r * f[2] /\ (r - 1) * f[2] < f[1]
=============================================================================

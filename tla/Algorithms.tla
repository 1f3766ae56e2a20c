------------------------------ MODULE Algorithms ------------------------------
(***************************************************************************)
(* The pure functions of the SDK, each asked about every input of a small  *)
(* set: a state is one question.                                           *)
(***************************************************************************)
EXTENDS Markets, DecimalMath, WireFormat

CONSTANTS Coefficients,   \* inputs: coefficients,
          Exponents,      \* their exponents,
          DivExponents,   \* the exponents of a dividend,
          Prices, PriceExponents, Rates, TokenDecimals, Bps,
          Lengths,        \* and what is written as a length
          Messages

\* Amounts are not negative.
ASSUME InputAssumption ==
    /\ \A S \in {Coefficients, Prices, Rates, TokenDecimals, Bps, Lengths} : S \subseteq Nat
    /\ \A S \in {Exponents, DivExponents, PriceExponents} : S \subseteq Int
    /\ Messages \subseteq Message /\ IsFiniteSet(Messages)

VARIABLE q   \* the question, or none

Arithmetic(E) == [c1 : Coefficients, e1 : E, c2 : Coefficients, e2 : Exponents, t : Exponents]
Amounts == [amount : Coefficients, decimals : TokenDecimals, price : Prices,
            e : PriceExponents, rate : Rates]
Limits == [price : Prices, e : PriceExponents, bps : Bps, entry : BOOLEAN, side : Sides]

About(topic, inputs) == [topic : {topic}, in : inputs]
NoQuestion == q = [topic |-> "none", in |-> 0]
Question ==
    \/ q \in About("product", Arithmetic(Exponents))
    \/ q \in About("quotient", Arithmetic(DivExponents))
    \/ q \in About("amount", Amounts)
    \/ q \in About("limit", Limits)
    \/ q \in About("length", Lengths)
    \/ q \in About("message", {0})
    \/ q \in About("market", [t : Symbols, c : Symbols])
Asked(topic) == q.topic = topic

Asks == (NoQuestion \/ Question) /\ [][FALSE]_q
-----------------------------------------------------------------------------
\* A product is the exact value rounded down or, in checkedDecimalCeilMul, up,
\* whatever the exponents.
ProductsAreExact ==
    Asked("product") =>
        LET x == q.in
            exact == Product(x.c1, x.e1, x.c2, x.e2, x.t)
        IN  /\ IsFloor(DecimalMul(x.c1, x.e1, x.c2, x.e2, x.t), exact)
            /\ IsCeil(DecimalCeilMul(x.c1, x.e1, x.c2, x.e2, x.t), exact)

\* "Mirrors the on-chain math.rs helpers so off-chain quotes match settlement":
\* a quotient is the exact value rounded down.
QuotientsAreExact ==
    Asked("quotient") /\ q.in.c2 # 0 =>
        LET x == q.in
        IN  IsFloor(DecimalDiv(x.c1, x.e1, x.c2, x.e2, x.t),
                    Quotient(x.c1, x.e1, x.c2, x.e2, x.t))

\* Prices compare as the numbers they stand for, and two prices can be compared if
\* their exponents are equal or one is negative; otherwise cmp throws.
CmpIsExact ==
    Asked("product") =>
        LET x == q.in
            lhs == x.c1 * Pow10[Pos(x.e1 - x.e2)]
            rhs == x.c2 * Pow10[Pos(x.e2 - x.e1)]
            answers == Cmp(x.c1, x.e1, x.c2, x.e2)
        IN  /\ \A cmp \in answers : (cmp > 0 <=> lhs > rhs) /\ (cmp < 0 <=> lhs < rhs)
            /\ answers # {} <=> x.e1 = x.e2 \/ x.e1 < 0 \/ x.e2 < 0

\* Results are the exact values, rounded as the functions' names say: quotes match
\* settlement.
ArithmeticIsExact == ProductsAreExact /\ QuotientsAreExact /\ CmpIsExact

\* Converting USD to tokens and back, or tokens to USD and back, gains nothing,
\* also for a token with a rate.
RoundTripsGainNothing ==
    Asked("amount") =>
        LET x == q.in
            toTokens(usd) == TokenAmount(usd, x.decimals, x.price, x.e, x.rate)
            toUsd(tokens) == AssetAmountUsd(tokens, x.decimals, x.price, x.e, x.rate)
        IN  Effective(x.price, x.e, x.rate) > 0 =>
                /\ toUsd(toTokens(x.amount)) <= x.amount
                /\ toTokens(toUsd(x.amount)) <= x.amount

\* The limit price is never tighter than the slippage asked for, never looser by
\* a whole unit, and never negative.
SlippageIsKept ==
    Asked("limit") =>
        LET x == q.in
            one == Pow10[BpsDecimals]
            limit == PriceAfterSlippage(x.entry, x.bps, x.price, x.e, x.side)
        IN  IF x.entry = (x.side = "long")
              THEN IsCeil(limit, <<x.price * (one + x.bps), one>>)
              ELSE limit >= 0 /\ (x.bps > one => limit = 0)
                   /\ (x.bps <= one => IsFloor(limit, <<x.price * (one - x.bps), one>>))

\* A length is read back as it was written, and the reader stops where it ends:
\* at the boundaries where another byte is needed, too.
LengthsAreRead == Asked("length") => Reads(Shortvec(q.in), q.in)

\* No two messages are the same bytes, and no length is misread.
BytesAreRead ==
    /\ LengthsAreRead
    /\ Asked("message") => Cardinality({Serialize(m) : m \in Messages}) = Cardinality(Messages)

\* The market a runner picks, by collateral or by side, is the one the client
\* trades, whatever symbols a user passes.
PickedIsTraded ==
    Asked("market") =>
        PickAgrees(q.in.t, q.in.c) /\ \A side \in Sides : SideAgrees(q.in.t, side)

\* Besides, under the default settings closePosition.ts and its like, which pick without
\* a client, address the market in which openPosition.ts opens.
MarketsAgree ==
    /\ PickedIsTraded
    /\ Asked("market") =>
           PickMarket(q.in.t, DefaultCollateral) = PickUnaided(q.in.t, DefaultCollateral)
=============================================================================

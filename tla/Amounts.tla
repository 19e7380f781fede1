------------------------------ MODULE Amounts -------------------------------
(***************************************************************************)
(* What the wallet computes with amounts: between wei and fixed point, the *)
(* largest amount to send and what it costs, and what the exchange and the *)
(* liquidity pool give.  Numbers are unsigned, of Width bits, and wrap     *)
(* around; a fixed point string is the digits before and after its point.  *)
(* A call is its inputs, and its result.                                   *)
(***************************************************************************)
EXTENDS Naturals, Sequences

CONSTANTS
    Width,       \* bits of a number: 256
    Decimals,    \* bound: decimals of a token or coin
    GasDecimals, \* decimals of a gas price: 9
    Digit,       \* bound: digits of the amounts that are converted
    MaxDigits,   \* bound: their length
    Number,      \* bound: amounts and reserves
    Thrown       \* no answer: an exception

\* Every amount and reserve fits.
ASSUME AmountsAssumption ==
    /\ Width \in Nat /\ GasDecimals \in Nat /\ MaxDigits \in Nat
    /\ Decimals \subseteq Nat /\ Digit \subseteq 0..9
    /\ Number \subseteq 0..2^Width - 1

VARIABLES
    input,    \* [fn, ...] what is asked
    output    \* what the code answers

amountVars == <<input, output>>

Invalid == <<>>                 \* the empty string
NotYet == <<>>
U(n) == n % 2^Width
Zeros(n) == [i \in 1..n |-> 0]

\* lexical_cast between digits and numbers; u256("") is 0.
value[s \in Seq(0..9)] == IF s = <<>> THEN 0 ELSE 10 * value[SubSeq(s, 1, Len(s) - 1)] + s[Len(s)]
digits[n \in Nat] == IF n < 10 THEN <<n>> ELSE Append(digits[n \div 10], n % 10)

WeiToFixedPoint(amount, d) ==
    IF Len(amount) <= d
    THEN [whole |-> <<0>>, frac |-> Zeros(d - Len(amount)) \o amount]
    ELSE [whole |-> SubSeq(amount, 1, Len(amount) - d),
          frac |-> SubSeq(amount, Len(amount) - d + 1, Len(amount))]

\* Leading zeros go; nothing left is 0.
strip[s \in Seq(0..9)] == IF s = <<>> THEN <<0>> ELSE IF s[1] = 0 THEN strip[Tail(s)] ELSE s

FixedPointToWei(p, d) ==
    IF Len(p.frac) > d THEN Invalid
    ELSE strip[p.whole \o p.frac \o Zeros(d - Len(p.frac))]
-----------------------------------------------------------------------------
\* Pangolin.  A product that wraps around does not divide back to its factor.
Wraps_Never(product, factor, of) == FALSE
Wraps(product, factor, of) == product \div factor # of

CalcExchangeAmountOut(in, reserveIn, reserveOut) ==
    LET withFee == U(in * 997)
        numerator == U(withFee * reserveOut)
        denominator == U(reserveIn * 1000) IN
    IF \/ Wraps(withFee, 997, in)
       \/ Wraps(numerator, reserveOut, withFee)
       \/ Wraps(denominator, 1000, reserveIn)
       \/ U(denominator + withFee) < denominator
    THEN Invalid ELSE digits[numerator \div U(denominator + withFee)]

\* A division by 0 throws, unless an overflow was noticed before it.
ExchangeDividesByZero(in, reserveIn, reserveOut) ==
    /\ ~Wraps(U(in * 997), 997, in)
    /\ reserveOut = 0 \/ (in = 0 /\ reserveIn = 0)

CalcLiquidityAmountOut(in, reserveIn, reserveOut) ==
    LET numerator == U(U(in * 1000) * reserveOut)
        denominator == U(reserveIn * 1000) IN
    IF \/ (numerator \div reserveOut) \div 1000 # in
       \/ Wraps(denominator, 1000, reserveIn)
    THEN Invalid ELSE digits[numerator \div denominator]

LiquidityDividesByZero(in, reserveIn, reserveOut) ==
    \/ reserveOut = 0
    \/ reserveIn = 0 /\ (U(U(in * 1000) * reserveOut) \div reserveOut) \div 1000 = in

\* QmlExchange: what does not fit is shown as 0.
CalculateExchangeAmount(in, reserveIn, reserveOut, inDecimals, outDecimals) ==
    LET inWei == value[FixedPointToWei(in, inDecimals)] IN
    IF ExchangeDividesByZero(inWei, reserveIn, reserveOut) THEN Thrown
    ELSE <<WeiToFixedPoint(CalcExchangeAmountOut(inWei, reserveIn, reserveOut), outDecimals)>>
CalculateAddLiquidityAmount(in, reserveIn, reserveOut, d) ==
    LET inWei == value[FixedPointToWei(in, d)] IN
    IF LiquidityDividesByZero(inWei, reserveIn, reserveOut) THEN Thrown
    ELSE <<WeiToFixedPoint(CalcLiquidityAmountOut(inWei, reserveIn, reserveOut), d)>>
-----------------------------------------------------------------------------
\* QmlSend.  The gas price is in Gwei.  Nobody looks whether the fee wraps around.
Fee(gasLimit, gasPrice) == U(gasLimit * value[FixedPointToWei(gasPrice, GasDecimals)])

GetRealMaxAVAXAmount(total, gasLimit, gasPrice, d) ==
    LET totalWei == value[FixedPointToWei(total, d)]
        fee == Fee(gasLimit, gasPrice) IN
    WeiToFixedPoint(digits[IF fee > totalWei THEN 0 ELSE totalWei - fee], d)

CalculateTransactionCost(amount, gasLimit, gasPrice, d) ==
    WeiToFixedPoint(digits[U(value[FixedPointToWei(amount, d)] + Fee(gasLimit, gasPrice))], d)

HasInsufficientFunds(sender, receiver, d) ==
    value[FixedPointToWei(receiver, d)] > value[FixedPointToWei(sender, d)]
-----------------------------------------------------------------------------
Text == UNION {[1..k -> Digit] : k \in 0..MaxDigits}
Wei == {s \in Text : s # <<>> /\ strip[s] = s}
Typed == [whole : Text, frac : Text]

Input ==
    [fn : {"convert"}, held : Wei, typed : Typed, d : Decimals]
    \cup [fn : {"exchange"}, a : Number, b : Number, c : Number, d : Decimals, e : Decimals]
    \cup [fn : {"liquidity", "send"}, a : Number, b : Number, c : Number, d : Decimals]

AmountInit == input \in Input /\ output = NotYet

\* The fields the amounts come from accept no more decimals than there are.
Shown(n, d) == WeiToFixedPoint(digits[n], d)

Compute ==
    LET i == input  d == input.d IN
    /\ output = NotYet
    /\ UNCHANGED input
    /\ \/ /\ i.fn = "convert"
          /\ output' = <<FixedPointToWei(WeiToFixedPoint(i.held, d), d),
                         FixedPointToWei(i.typed, d),
                         HasInsufficientFunds(WeiToFixedPoint(i.held, d), i.typed, d)>>
       \/ /\ i.fn = "exchange"
          /\ output' = CalculateExchangeAmount(Shown(i.a, d), i.b, i.c, d, i.e)
       \/ /\ i.fn = "liquidity"
          /\ output' = CalculateAddLiquidityAmount(Shown(i.a, d), i.b, i.c, d)
       \/ LET gasPrice == Shown(i.c, GasDecimals)
              largest == GetRealMaxAVAXAmount(Shown(i.a, d), i.b, gasPrice, d) IN
          /\ i.fn = "send"
          /\ output' = <<largest, CalculateTransactionCost(largest, i.b, gasPrice, d)>>

AmountSpec == AmountInit /\ [][Compute]_amountVars
-----------------------------------------------------------------------------
\* Properties

\* The number a fixed point string stands for.
Amount(p) == value[p.whole \o p.frac]
tenTo[n \in Nat] == IF n = 0 THEN 1 ELSE 10 * tenTo[n - 1]

\* What a call gives in plain arithmetic.
Exact(i, out) ==
    LET fits(n) == n < 2^Width
        typed == Amount(i.typed) * tenTo[i.d - Len(i.typed.frac)] IN
    CASE i.fn = "convert" ->
           /\ out[1] = i.held
           /\ IF Len(i.typed.frac) > i.d THEN out[2] = Invalid /\ ~out[3]
              ELSE value[out[2]] = typed /\ (out[3] <=> typed > value[i.held])
      [] i.fn = "exchange" ->
           IF fits(i.a * 997) /\ (i.c = 0 \/ (i.a = 0 /\ i.b = 0)) THEN out = Thrown
           ELSE /\ Len(out[1].frac) = i.e
                /\ Amount(out[1]) =
                      IF fits(i.a * 997 * i.c) /\ fits(i.b * 1000 + i.a * 997)
                      THEN (i.a * 997 * i.c) \div (i.b * 1000 + i.a * 997) ELSE 0
      [] i.fn = "liquidity" ->
           IF i.c = 0 \/ (i.b = 0 /\ fits(i.a * 1000 * i.c)) THEN out = Thrown
           ELSE Amount(out[1]) =
                   IF fits(i.a * 1000 * i.c) /\ fits(i.b * 1000) THEN (i.a * i.c) \div i.b ELSE 0
      [] i.fn = "send" ->
           fits(i.b * i.c) =>
              /\ Amount(out[1]) = IF i.b * i.c > i.a THEN 0 ELSE i.a - i.b * i.c
              /\ i.b * i.c <= i.a => Amount(out[2]) = i.a

\* Against plain arithmetic: an amount survives the conversion there and back; what the
\* user types is taken for its number of wei and compared as such, and for 0 if it has
\* too many decimals; the exchange gives x*997*R / (r*1000 + x*997) and the pool x*R/r,
\* rounded down and in the decimals of the token bought, or 0 exactly if an intermediate
\* product exceeds the width, and throws only on an empty pool; the largest
\* amount to send and its fee are what the account holds, unless the fee alone exceeds
\* that or wraps around.
AmountsExact == output # NotYet => Exact(input, output)
=============================================================================

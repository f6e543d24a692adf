------------------------------- MODULE Numbers -------------------------------
(***************************************************************************)
(* The numbers of a transaction in JavaScript doubles: the fee, a product  *)
(* that is rounded up, and the sequence, a uint64 read with Number and     *)
(* written back with String (client.ts).                                   *)
(*                                                                         *)
(* A double is a mantissa, below a power of two, times a power of two.     *)
(* Fractions are pairs <<a, b>>, b > 0.                                    *)
(***************************************************************************)
EXTENDS Integers

CONSTANTS
  Limit,           \* 2^53: mantissas of doubles are below it
  Scales,          \* powers of two and their inverses: exponents of doubles
  GasLimits,
  Prices,          \* decimal gas prices: fractions
  Sequences        \* sequences an account may have

ASSUME NumbersType ==
  /\ GasLimits \subseteq Nat /\ Sequences \subseteq Nat
  /\ Prices \subseteq Nat \X (Nat \ {0})
  /\ Limit \in Nat /\ <<Limit, 1>> \in Scales /\ Limit > 1

\* Each is twice or half of another one, but for 1.
ASSUME ScalesType ==
  \A s \in Scales :
    /\ s \in (Nat \ {0}) \X (Nat \ {0})
    /\ \/ s = <<1, 1>>
       \/ s[2] = 1 /\ s[1] % 2 = 0 /\ <<s[1] \div 2, 1>> \in Scales
       \/ s[1] = 1 /\ s[2] % 2 = 0 /\ <<1, s[2] \div 2>> \in Scales

VARIABLES
  payStage,        \* "asked", "priced", "signed", "accepted", "refused"
  gas, price,      \* of the request
  fee,             \* as it is signed
  sequence,        \* of the account, on the chain
  signedSequence   \* as it is signed

numberVars == <<payStage, gas, price, fee, sequence, signedSequence>>

-----------------------------------------------------------------------------
(* Doubles.                                                                  *)

Times(p, q) == <<p[1] * q[1], p[2] * q[2]>>
Over(p, q) == <<p[1] * q[2], p[2] * q[1]>>

CeilOf(p) == -((-p[1]) \div p[2])
FloorOf(p) == p[1] \div p[2]

\* To the nearest integer; to the even one of two.
Nearest(p) ==
  LET floor == p[1] \div p[2]
      rest == p[1] % p[2]
  IN IF 2 * rest > p[2] \/ (2 * rest = p[2] /\ floor % 2 = 1)
     THEN floor + 1 ELSE floor

\* The mantissa is in the upper half of what there is.
IsMantissa(p, limit) == limit * p[2] <= 2 * p[1] /\ p[1] < limit * p[2]

ScaleOf(p, limit) == CHOOSE s \in Scales : IsMantissa(Times(p, s), limit)

\* The double nearest to a fraction, with mantissas below the limit.
Rounded(p, limit) ==
  IF p[1] = 0 THEN <<0, 1>>
  ELSE Over(<<Nearest(Times(p, ScaleOf(p, limit))), 1>>, ScaleOf(p, limit))

\* Faulty variant: a bit of precision is lost.
ToLess(p) == Rounded(p, Limit \div 2)

ToDouble(p) == Rounded(p, Limit)

\* No exponent is too small or too large for the fractions there are.
InReach(p) == p[1] = 0 \/ \E s \in Scales : IsMantissa(Times(p, s), Limit)

ASSUME DoublesReach ==
  /\ \A s \in Sequences : InReach(<<s, 1>>)
  /\ \A p \in Prices :
       /\ InReach(p)
       /\ \A g \in GasLimits : InReach(Times(<<g, 1>>, ToDouble(p)))

-----------------------------------------------------------------------------
(* The transaction.                                                          *)

\* Faulty variant: Math.floor.
FeeRoundedDown(gasLimit, gasPrice) ==
  FloorOf(ToDouble(Times(<<gasLimit, 1>>, gasPrice)))

\* Faulty variant: one more, to be safe.
FeeAndOne(gasLimit, gasPrice) ==
  CeilOf(ToDouble(Times(<<gasLimit, 1>>, gasPrice))) + 1

\* gasPrice is the double the caller wrote a decimal price for.
gasToFee(gasLimit, gasPrice) == CeilOf(ToDouble(Times(<<gasLimit, 1>>, gasPrice)))

NumberInit ==
  /\ payStage = "asked"
  /\ gas \in GasLimits /\ price \in Prices
  /\ fee = 0
  /\ sequence \in Sequences /\ signedSequence = 0

PriceGas ==
  /\ payStage = "asked"
  /\ payStage' = "priced"
  /\ fee' = gasToFee(gas, ToDouble(price))
  /\ UNCHANGED <<gas, price, sequence, signedSequence>>

\* Number(baseAccount.sequence), String(sequence)
SignNumbers ==
  /\ payStage = "priced"
  /\ payStage' = "signed"
  /\ signedSequence' = FloorOf(ToDouble(<<sequence, 1>>))
  /\ UNCHANGED <<gas, price, fee, sequence>>

\* What the node asks for: the decimal price, times the gas, rounded up.
Required == CeilOf(Times(<<gas, 1>>, price))

\* External: a node whose minimum is the caller's price, and which knows the
\* sequence exactly.
CheckNumbers ==
  /\ payStage = "signed"
  /\ payStage' = IF fee >= Required /\ signedSequence = sequence
              THEN "accepted" ELSE "refused"
  /\ UNCHANGED <<gas, price, fee, sequence, signedSequence>>

\* Faulty variant: what was signed is not forgotten.
PayAgainStale ==
  /\ payStage = "accepted" /\ sequence + 1 \in Sequences
  /\ payStage' = "asked" /\ sequence' = sequence + 1
  /\ gas' \in GasLimits /\ price' \in Prices
  /\ fee' = 0 /\ UNCHANGED signedSequence

\* The account's next transaction.
PayAgain ==
  /\ payStage = "accepted" /\ sequence + 1 \in Sequences
  /\ payStage' = "asked" /\ sequence' = sequence + 1
  /\ gas' \in GasLimits /\ price' \in Prices
  /\ fee' = 0 /\ signedSequence' = 0

NumberNext == PriceGas \/ SignNumbers \/ CheckNumbers \/ PayAgain

NumberSpec == NumberInit /\ [][NumberNext]_numberVars

-----------------------------------------------------------------------------
(* Properties.                                                               *)

NumberTypeOK ==
  /\ payStage \in {"asked", "priced", "signed", "accepted", "refused"}
  /\ gas \in GasLimits /\ price \in Prices
  /\ fee \in Nat
  /\ sequence \in Sequences /\ signedSequence \in Nat
  /\ payStage = "asked" => fee = 0
  /\ payStage \in {"asked", "priced"} => signedSequence = 0

\* A price in units of its last decimal, times the gas, has a bit less than a
\* mantissa.
BitsToSpare == \A g \in GasLimits, p \in Prices : 2 * (g * p[1]) < Limit

\* Two roundings of the fee add up to less than one unit.
FeesAreSmall ==
  \A g \in GasLimits, p \in Prices :
    (g * p[1]) * (2 * Limit + 1) <= p[2] * (Limit * Limit)

\* Both roundings, of the price and of the product, may lose some of the fee,
\* but gasToFee's rounding up makes up for it: who pays the price the node asks
\* for is not refused, while there are BitsToSpare.
AskedFeeIsPaid == payStage # "asked" => fee >= Required

\* And it costs at most one unit of the fee coin.
LittleIsOverpaid == payStage # "asked" => fee <= Required + 1

\* Up to the limit (2^53) the sequence that is signed is the one the chain has,
\* so that one accepted transaction leads to the next.
SequenceIsExact == payStage \in {"signed", "accepted", "refused"} => signedSequence = sequence
=============================================================================

----------------------------- MODULE FixedPoint -----------------------------
(***************************************************************************)
(* The fixed-point arithmetic of mars-core.  A Decimal d is the natural    *)
(* number of its fractional units: the value 1.0 is One, ten to the        *)
(* eighteenth in the code and a parameter here.  What matters to every     *)
(* contract is which way each operation rounds; the width of the integers  *)
(* (Uint128) is left out, its overflows abort the transaction.             *)
(***************************************************************************)
EXTENDS Integers

CONSTANT One        \* DECIMAL_FRACTIONAL, the representation of 1.0

ASSUME OneAssumption == One \in Nat \ {0}

\* The quotient rounded up.
CeilDiv(a, b) == (a + (b - 1)) \div b

\* A product with a Decimal, rounded down: Decimal::checked_mul when a is a
\* Decimal, Uint128 * Decimal when it is an amount.
Mul(a, d) == (a * d) \div One

\* The ratio of two amounts as a Decimal, rounded down.  The code panics when
\* d is zero: every use is guarded by that.
FromRatio(n, d) == (n * One) \div d

\* An amount, or a Decimal, divided by a Decimal, rounded down and rounded up.
Div(a, d) == (a * One) \div d
DivCeil(a, d) == CeilDiv(a * One, d)

\* What the owners of contracts may set as a share of something.
AtMostOne(d) == d <= One

SmallerOf(a, b) == IF a <= b THEN a ELSE b

=============================================================================

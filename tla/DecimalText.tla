----------------------------- MODULE DecimalText ----------------------------
(***************************************************************************)
(* Decimals as texts: in every message, every stored record and every      *)
(* answer a Decimal is a string, "1.05", written without trailing zeros    *)
(* and read back digit by digit.                                           *)
(*                                                                         *)
(* A text is its whole part and the parts that follow a dot, each the      *)
(* number its digits make and how many they are: "1.05" is 1 and the part  *)
(* [number |-> 5, digits |-> 2].                                           *)
(***************************************************************************)
EXTENDS FixedPoint, Sequences

CONSTANTS
  Places,         \* DECIMAL_PLACES
  Tens,           \* the powers of ten, up to that of Places
  MaxAtomics,     \* the greatest Uint128
  NotADecimal     \* the error of from_str

DecimalTextAssumptions ==
  /\ Places \in Nat /\ MaxAtomics \in Nat
  /\ Tens \in [0 .. Places -> Nat \ {0}]
  /\ Tens[0] = 1 /\ Tens[Places] = One
  /\ NotADecimal \notin Nat

\* Display: no dot for a whole number, else the digits without the zeros at
\* their end: as few as say the same.
DigitsOf(fractional) ==
  CHOOSE n \in 0 .. Places :
    /\ fractional % Tens[Places - n] = 0
    /\ \A fewer \in 0 .. n - 1 : fractional % Tens[Places - fewer] # 0

Format(d) ==
  LET fractional == d % One
      digits == DigitsOf(fractional)
  IN  [whole |-> d \div One,
       parts |-> IF fractional = 0 THEN << >>
                 ELSE << [number |-> fractional \div Tens[Places - digits], digits |-> digits] >>]

\* from_str: more digits than there are places are refused, even zeros, and so
\* is a second dot and what is too big; nothing is rounded.
Parse(text) ==
  IF Len(text.parts) > 1 THEN NotADecimal
  ELSE IF text.parts = << >>
  THEN IF text.whole * One <= MaxAtomics THEN text.whole * One ELSE NotADecimal
  ELSE LET part == text.parts[1]
           atomics == (text.whole * One) + (part.number * Tens[Places - part.digits])
       IN  IF part.digits \in 1 .. Places /\ atomics <= MaxAtomics THEN atomics ELSE NotADecimal

\* Serialize and Deserialize, and to_std_decimal, which reads what is written
\* as the Decimal of cosmwasm_std.
Transmitted(d) == Parse(Format(d))

=============================================================================

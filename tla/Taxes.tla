------------------------------- MODULE Taxes --------------------------------
(***************************************************************************)
(* The chain takes a tax on top of every transfer of a native coin, a rate *)
(* of the amount up to a cap.  A contract that means to spend no more than *)
(* an amount sends what is left of it net of the tax.                      *)
(***************************************************************************)
EXTENDS FixedPoint

CONSTANTS
  TaxRate,      \* the rate of the chain, a Decimal
  TaxCap        \* the cap of the chain

ASSUME TaxAssumptions == TaxRate \in Nat /\ TaxCap \in Nat

\* What the chain takes from the sender of an amount, next to the amount.
Charged(amount) == SmallerOf(Mul(amount, TaxRate), TaxCap)

\* compute_tax: what remains of an amount divided by one plus the rate.
ComputeTax(amount) == SmallerOf(amount - Div(amount, One + TaxRate), TaxCap)

\* For DeductTax: the tax is left to the sender.
NoDeduction(amount) == amount

DeductTax(amount) == amount - ComputeTax(amount)

\* What a transfer costs its sender: the tax is on coins of the chain only.
CostOf(sent, native) == IF native THEN sent + Charged(sent) ELSE sent

=============================================================================

----------------------------- MODULE Allowances -----------------------------
(***************************************************************************)
(* The allowances of cw20-base, which both tokens take from that library:  *)
(* an owner lets a spender move up to an amount of its tokens, until a     *)
(* block.  An entry that was never made and one that was removed are the   *)
(* default entry: nothing, for ever.                                       *)
(***************************************************************************)
EXTENDS Integers

CONSTANT Never      \* the expiration of an allowance that does not expire

ASSUME NeverAssumption == Never \notin Nat

NoAllowance == [amount |-> 0, expires |-> Never]

\* Expiration::AtHeight: over from that block on.
IsExpired(allowance, block) == allowance.expires # Never /\ block >= allowance.expires

\* An expiration of the message replaces the one of the entry, none keeps it.
Expiring(allowance, expires) ==
  IF expires = Never THEN allowance ELSE [allowance EXCEPT !.expires = expires]

\* execute_increase_allowance
Increased(allowance, amount, expires) ==
  [Expiring(allowance, expires) EXCEPT !.amount = @ + amount]

\* execute_decrease_allowance: as much as is left, or more, removes the entry.
Decreased(allowance, amount, expires) ==
  IF amount < allowance.amount
  THEN [Expiring(allowance, expires) EXCEPT !.amount = @ - amount]
  ELSE NoAllowance

\* deduct_allowance refuses what has expired and what exceeds the allowance.
MaySpend(allowance, amount, block) ==
  ~IsExpired(allowance, block) /\ amount <= allowance.amount

\* For Deducted: the allowance outlives its use.
NotDeducted(allowance, amount) == allowance

Deducted(allowance, amount) == [allowance EXCEPT !.amount = @ - amount]

=============================================================================

----------------------------- MODULE LedgerSums -----------------------------
(***************************************************************************)
(* Totals over the ledgers of the contracts: a ledger is a function from   *)
(* addresses to amounts, and the contracts keep next to it a total         *)
(* (debt_total_scaled, total_supply, total_mars_for_claimers, ...) which   *)
(* is meant to be the sum of its entries.                                  *)
(*                                                                         *)
(* The sum is defined without recursion, as the number of the units the    *)
(* ledger holds, so that the facts about it in CommonProofs follow from    *)
(* the cardinality of finite sets.                                         *)
(***************************************************************************)
EXTENDS Naturals, FiniteSets

\* What a ledger becomes when an amount is added to, or taken from, an entry.
Credit(ledger, u, amount) == [ledger EXCEPT ![u] = @ + amount]
Debit(ledger, u, amount) == [ledger EXCEPT ![u] = @ - amount]

\* The units of x: one pair <<x, i>> for each unit the ledger f gives to x.
UnitsOf(f, x) == {x} \X (1 .. f[x])

\* All the units the ledger f gives to the members of S.
Units(f, S) == UNION {UnitsOf(f, x) : x \in S}

\* The sum of f[x] over the members x of S.
Total(f, S) == Cardinality(Units(f, S))

=============================================================================

------------------------------ MODULE Closure -------------------------------
(***************************************************************************)
(* The end of the red bank: it is migrated to a contract that only refunds *)
(* the holders of maTokens, some accounts at a time, from what it holds of *)
(* an asset.                                                               *)
(*                                                                         *)
(* Before the migration the red bank mints and burns maTokens and receives *)
(* and pays its asset in any proportion; which ones, says RedBank.         *)
(***************************************************************************)
EXTENDS MaToken, Taxes

CONSTANTS
  Sums,                 \* the amounts moved
  Fortune,              \* what the users have of the asset to begin with
  NativeAsset,          \* the asset is a coin of the chain
  PageLimit,            \* the accounts refunded by one call, ten in the code
  MaxSupply             \* bound: the maTokens

ASSUME ClosureAssumptions ==
  /\ Sums \subseteq Nat /\ Fortune \in [Holders -> Nat]
  /\ NativeAsset \in BOOLEAN
  /\ PageLimit \in Nat \ {0} /\ MaxSupply \in Nat

VARIABLES
  held,                 \* the asset the red bank holds, before and after
  wallets,              \* the asset of the users
  closed,               \* the red bank was migrated
  indebted              \* debt_total_scaled of the market is not zero

closureVars == <<maVars, held, wallets, closed, indebted>>

AssetCost(amount) == CostOf(amount, NativeAsset)

-----------------------------------------------------------------------------
(* The red bank as it was. *)

Deposit(u, amount, minted) ==
  /\ ~closed
  /\ amount <= wallets[u] /\ maSupply + minted <= MaxSupply
  /\ MaMint(u, minted)
  /\ held' = held + amount
  /\ wallets' = Debit(wallets, u, amount)
  /\ UNCHANGED <<closed, indebted>>

Withdraw(u, amount, burnt) ==
  /\ ~closed
  /\ AssetCost(amount) <= held
  /\ MaBurn(u, burnt)
  /\ held' = held - AssetCost(amount)
  /\ wallets' = Credit(wallets, u, amount)
  /\ UNCHANGED <<closed, indebted>>

Borrow(u, amount) ==
  /\ ~closed /\ AssetCost(amount) <= held
  /\ indebted' = TRUE
  /\ held' = held - AssetCost(amount)
  /\ wallets' = Credit(wallets, u, amount)
  /\ UNCHANGED <<maVars, closed>>

\* Part of the debts is repaid, or all.
Repay(u, amount) ==
  /\ ~closed /\ indebted /\ amount <= wallets[u]
  /\ indebted' \in BOOLEAN
  /\ held' = held + amount
  /\ wallets' = Debit(wallets, u, amount)
  /\ UNCHANGED <<maVars, closed>>

\* For Transfer: the contract of the refunds takes part in transfers.
TransferAnyTime(sender, recipient, amount) ==
  MaTransfer(sender, recipient, amount) /\ UNCHANGED <<held, wallets, closed, indebted>>

\* The finalization of a transfer is a message to the red bank, which the
\* contract it is migrated to does not know.
Transfer(sender, recipient, amount) ==
  /\ ~closed
  /\ MaTransfer(sender, recipient, amount)
  /\ UNCHANGED <<held, wallets, closed, indebted>>

Send(sender, contract, recipient, amount) ==
  /\ ~closed
  /\ MaSend(sender, contract, recipient, amount)
  /\ UNCHANGED <<held, wallets, closed, indebted>>

TransferFrom(p, recipient, amount) ==
  /\ ~closed
  /\ MaTransferFrom(p, recipient, amount)
  /\ UNCHANGED <<held, wallets, closed, indebted>>

Approve(p, amount) ==
  /\ maAllowances[p].amount + amount <= MaxSupply
  /\ MaApprove(p, amount)
  /\ UNCHANGED <<held, wallets, closed, indebted>>

Migrate ==
  /\ ~closed
  /\ closed' = TRUE
  /\ UNCHANGED <<maVars, held, wallets, indebted>>

-----------------------------------------------------------------------------
(* The refund. *)

\* For Share: of the supply before the refund, and in favour of the holder.
ShareOfAll(left, balance) == (left.amount * balance) \div maSupply
ShareRoundedUp(left, balance) == CeilDiv(left.amount * balance, left.supply)

\* Uint128::multiply_ratio
Share(left, balance) == (left.amount * balance) \div left.supply

LessShare(left, balance) ==
  [amount |-> left.amount - Share(left, balance), supply |-> left.supply - balance]

\* What is left of the asset and of the supply after i accounts of a page.
Remaining(page) ==
  LET left[i \in 0 .. Len(page)] ==
        IF i = 0 THEN [amount |-> held, supply |-> maSupply]
        ELSE LessShare(left[i - 1], maTokens[page[i]])
  IN  left

\* What an account of a page is refunded.
RefundOf(page, u) ==
  LET i == CHOOSE i \in DOMAIN page : page[i] = u
  IN  Remaining(page)[i - 1].amount - Remaining(page)[i].amount

Members(page) == {page[i] : i \in DOMAIN page}

\* The asset the refunds of a page take out of the red bank.
CostOfPage(page) ==
  Total([u \in Members(page) |-> AssetCost(RefundOf(page, u))], Members(page))

\* Neither a burn nor a transfer of nothing is accepted, and one that fails
\* undoes the others.
CanRefund(page) ==
  /\ ~indebted
  /\ \A u \in Members(page) : maTokens[u] > 0 /\ RefundOf(page, u) > 0
  /\ CostOfPage(page) <= held

Refund ==
  /\ closed
  /\ LET page == AllAccounts(PageLimit)
         members == Members(page)
     IN  /\ CanRefund(page)
         /\ maTokens' = [u \in Holders |-> IF u \in members THEN 0 ELSE maTokens[u]]
         /\ maSupply' = Remaining(page)[Len(page)].supply
         /\ held' = held - CostOfPage(page)
         /\ wallets' = [u \in Holders |-> IF u \in members THEN wallets[u] + RefundOf(page, u)
                                        ELSE wallets[u]]
  /\ UNCHANGED <<maListed, maAllowances, closed, indebted>>

-----------------------------------------------------------------------------
ClosureInit ==
  /\ MaInit
  /\ held = 0
  /\ wallets = Fortune
  /\ closed = FALSE
  /\ indebted = FALSE

RedBankStep(u) ==
  \E amount \in Sums :
    \/ \E shares \in Sums : Deposit(u, amount, shares) \/ Withdraw(u, amount, shares)
    \/ Borrow(u, amount)
    \/ Repay(u, amount)
    \/ \E recipient \in Holders : Transfer(u, recipient, amount)
    \/ \E contract, recipient \in Holders : Send(u, contract, recipient, amount)

SpenderStep(p) ==
  \E amount \in Sums :
    \/ Approve(p, amount)
    \/ \E recipient \in Holders : TransferFrom(p, recipient, amount)

ClosureNext ==
  \/ \E u \in Holders : RedBankStep(u)
  \/ \E p \in MaApprovals : SpenderStep(p)
  \/ Migrate
  \/ Refund

\* Refunds are asked for again and again, by whoever wants the users refunded.
ClosureFairness == WF_closureVars(Refund)

ClosureSpec == ClosureInit /\ [][ClosureNext]_closureVars /\ ClosureFairness

-----------------------------------------------------------------------------
ClosureTypeOK ==
  /\ maTokens \in [Holders -> Nat] /\ maListed \subseteq Holders /\ maSupply \in Nat
  /\ maAllowances \in [MaApprovals -> [amount : Nat, expires : {Never}]]
  /\ held \in Nat /\ wallets \in [Holders -> Nat]
  /\ closed \in BOOLEAN /\ indebted \in BOOLEAN

\* The supply is what the holders have, through transfers, spenders, burns and
\* refunds alike: the shares of a refund are shares of a whole.
SupplyIsHeld == maSupply = Total(maTokens, Holders)

\* A refund gives everybody at least its share of what is there, rounded down,
\* in whichever page it comes, and leaves nothing behind when it is the last.
RefundsAreFair ==
  [][ closed /\ maSupply' < maSupply =>
        /\ \A u \in Holders :
             maTokens'[u] < maTokens[u] =>
               wallets'[u] - wallets[u] >= (held * maTokens[u]) \div maSupply
        /\ maSupply' = 0 => held' = 0 ]_closureVars

\* The taxes the chain takes on what users receive.
Received(u) == IF wallets'[u] > wallets[u] THEN wallets'[u] - wallets[u] ELSE 0
TaxesPaid == Total([u \in Holders |-> AssetCost(Received(u)) - Received(u)], Holders)

\* Who waits for the next page is no worse off for the pages before it, but for
\* the taxes on what they paid: what is left by them, with these taxes, is worth
\* no less per maToken.
WaitingIsSafe ==
  [][ closed /\ maSupply' > 0 => held * maSupply' <= (held' + TaxesPaid) * maSupply ]_closureVars

\* Once a page of accounts can be refunded it is: nothing a user can still do
\* gets in the way of it.
PageIsRefunded ==
  closed /\ CanRefund(AllAccounts(PageLimit))
    ~> \A u \in Members(AllAccounts(PageLimit)) : maTokens[u] = 0

\* When there is enough for everybody and nobody owes anything, calls of the
\* refund end with everybody refunded.
EveryoneIsRefunded ==
  closed /\ ~indebted /\ held >= maSupply ~> maSupply = 0

=============================================================================

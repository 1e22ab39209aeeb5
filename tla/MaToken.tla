------------------------------ MODULE MaToken -------------------------------
(***************************************************************************)
(* The maToken of a market by itself: the cw20 token that represents       *)
(* deposits in the red bank, its minter, which alone burns it.  An account *)
(* that ever had tokens stays listed.                                      *)
(*                                                                         *)
(* A transfer that was not sent by the red bank is finalized there, within *)
(* the same transaction: the red bank may refuse it.  What the token       *)
(* reports to the incentives contract is in Incentives, what the red bank  *)
(* checks in RedBank.                                                      *)
(***************************************************************************)
EXTENDS LedgerSums, Allowances, Retaining

CONSTANTS
  Holders,            \* the accounts that may hold maTokens
  AddressOrder,       \* those accounts, in the order of their addresses
  MaApprovals         \* bound: the pairs <<owner, spender>> that are used

ASSUME MaTokenAssumptions ==
  /\ IsFiniteSet(Holders)
  /\ AddressOrder \in Seq(Holders)
  /\ Holders = {AddressOrder[i] : i \in DOMAIN AddressOrder}
  /\ \A i, j \in DOMAIN AddressOrder : AddressOrder[i] = AddressOrder[j] => i = j
  /\ MaApprovals \subseteq {p \in Holders \X Holders : p[1] # p[2]}

VARIABLES
  maTokens,           \* BALANCES
  maListed,           \* the accounts with an entry in BALANCES
  maSupply,           \* TOKEN_INFO.total_supply
  maAllowances        \* ALLOWANCES; here none expires

maVars == <<maTokens, maListed, maSupply, maAllowances>>

MaInit ==
  /\ maTokens = [u \in Holders |-> 0]
  /\ maListed = {}
  /\ maSupply = 0
  /\ maAllowances = [p \in MaApprovals |-> NoAllowance]

\* core::transfer
Move(sender, recipient, amount) ==
  /\ sender # recipient
  /\ amount > 0 /\ maTokens[sender] >= amount
  /\ maTokens' = Credit(Debit(maTokens, sender, amount), recipient, amount)
  /\ maListed' = maListed \cup {sender, recipient}
  /\ UNCHANGED maSupply

\* execute_transfer, and without finalization execute_transfer_on_liquidation
MaTransfer(sender, recipient, amount) ==
  Move(sender, recipient, amount) /\ UNCHANGED maAllowances

\* execute_send: the contract that gets the tokens is called, and may send them
\* on within the transaction.
MaSend(sender, contract, recipient, amount) ==
  /\ sender # contract /\ contract # recipient
  /\ amount > 0 /\ maTokens[sender] >= amount
  /\ maTokens' = Credit(Debit(maTokens, sender, amount), recipient, amount)
  /\ maListed' = maListed \cup {sender, contract, recipient}
  /\ UNCHANGED <<maSupply, maAllowances>>

\* execute_transfer_from and execute_send_from
MaTransferFrom(p, recipient, amount) ==
  /\ MaySpend(maAllowances[p], amount, 0)
  /\ maAllowances' = [maAllowances EXCEPT ![p] = Deducted(@, amount)]
  /\ Move(p[1], recipient, amount)

MaApprove(p, amount) ==
  /\ maAllowances' \in {[maAllowances EXCEPT ![p] = Increased(@, amount, Never)],
                        [maAllowances EXCEPT ![p] = Decreased(@, amount, Never)]}
  /\ UNCHANGED <<maTokens, maListed, maSupply>>

\* execute_mint and execute_burn, by the red bank
MaMint(recipient, amount) ==
  /\ amount > 0
  /\ maSupply' = maSupply + amount
  /\ maTokens' = Credit(maTokens, recipient, amount)
  /\ maListed' = maListed \cup {recipient}
  /\ UNCHANGED maAllowances

MaBurn(owner, amount) ==
  /\ amount > 0 /\ amount <= maTokens[owner] /\ amount <= maSupply
  /\ maTokens' = Debit(maTokens, owner, amount)
  /\ maSupply' = maSupply - amount
  /\ UNCHANGED <<maListed, maAllowances>>

\* The query AllAccounts: the first accounts with an entry, in the order of
\* their addresses; an entry of nothing is an entry.
AllAccounts(limit) ==
  LET entries == {i \in DOMAIN AddressOrder : AddressOrder[i] \in maListed}
      listed == Retained(AddressOrder, entries)
  IN  SubSeq(listed, 1, IF Len(listed) < limit THEN Len(listed) ELSE limit)

BalanceAndTotalSupply(u) == [balance |-> maTokens[u], total_supply |-> maSupply]

\* QueryMsg: what may be asked of the ledger.  The minter and the logo are left
\* out, the underlying balance, for which the red bank is asked, is in RedBank.
MaQuestions ==
  [ask : {"token_info"}]
  \cup [ask : {"balance", "balance_and_total_supply"}, address : Holders]
  \cup [ask : {"allowance"}, pair : MaApprovals]
  \cup [ask : {"all_accounts"}, limit : Nat]

MaAnswer(q) ==
  CASE q.ask = "balance"                  -> maTokens[q.address]
    [] q.ask = "balance_and_total_supply" -> BalanceAndTotalSupply(q.address)
    [] q.ask = "token_info"               -> [total_supply |-> maSupply]
    [] q.ask = "allowance"                -> maAllowances[q.pair]
    [] q.ask = "all_accounts"             -> AllAccounts(q.limit)

=============================================================================

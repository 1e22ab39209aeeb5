----------------------------- MODULE XMarsToken -----------------------------
(***************************************************************************)
(* The xMARS token with its allowances: a spender transfers, burns or      *)
(* sends what an owner let it.  On the ledger and its snapshots each of    *)
(* these is a step of the owner: the token with allowances implements      *)
(* XMarsSpec.                                                              *)
(***************************************************************************)
EXTENDS XMars, Allowances

CONSTANTS
  Approvals,        \* bound: the pairs <<owner, spender>> that are used
  Expirations,      \* the blocks at which an allowance may be let expire
  MaxCredit         \* bound: what a spender may be granted and not have used

ASSUME XMarsTokenAssumptions ==
  /\ Approvals \subseteq {p \in Accounts \X Accounts : p[1] # p[2]}
  /\ Expirations \subseteq Nat \cup {Never}
  /\ MaxCredit \in Nat

VARIABLES
  allowances,       \* ALLOWANCES, by owner and spender
  credit            \* history: all that was granted by increases, less all that
                    \* was moved in the name of the owner

approvalVars == <<allowances, credit>>
tokenVars == <<height, xmarsVars, approvalVars>>

TokenInit ==
  /\ XMarsInit
  /\ allowances = [p \in Approvals |-> NoAllowance]
  /\ credit = [p \in Approvals |-> 0]

IncreaseAllowance(p, amount, expires) ==
  /\ credit[p] + amount <= MaxCredit
  /\ allowances' = [allowances EXCEPT ![p] = Increased(@, amount, expires)]
  /\ credit' = [credit EXCEPT ![p] = @ + amount]
  /\ UNCHANGED <<height, xmarsVars>>

DecreaseAllowance(p, amount, expires) ==
  /\ allowances[p] # NoAllowance
  /\ allowances' = [allowances EXCEPT ![p] = Decreased(@, amount, expires)]
  /\ UNCHANGED <<height, xmarsVars, credit>>

\* The allowance is used up before the tokens move, in the same transaction.
DeductAllowance(p, amount) ==
  /\ MaySpend(allowances[p], amount, height)
  /\ allowances' = [allowances EXCEPT ![p] = Deducted(@, amount)]
  /\ credit' = [credit EXCEPT ![p] = @ - amount]

TransferFrom(p, recipient, amount) ==
  DeductAllowance(p, amount) /\ TransferXMars(p[1], recipient, amount) /\ UNCHANGED height

BurnFrom(p, amount) ==
  DeductAllowance(p, amount) /\ BurnXMars(p[1], amount) /\ UNCHANGED height

\* Sent to a contract that burns it: unstaked in the name of the spender.
SendFrom(p, contract, amount) ==
  DeductAllowance(p, amount) /\ SendAndBurnXMars(p[1], contract, amount) /\ UNCHANGED height

SpenderStep(p, amount) ==
  \/ \E recipient \in Accounts : TransferFrom(p, recipient, amount)
  \/ BurnFrom(p, amount)
  \/ SendFrom(p, StakingContract, amount)

OwnerStep(p, amount) ==
  \E expires \in Expirations \cup {Never} :
    \/ IncreaseAllowance(p, amount, expires)
    \/ DecreaseAllowance(p, amount, expires)

TokenNext ==
  \/ XMarsNext /\ UNCHANGED approvalVars
  \/ \E p \in Approvals, amount \in Amounts : OwnerStep(p, amount) \/ SpenderStep(p, amount)

TokenSpec == TokenInit /\ [][TokenNext]_tokenVars

-----------------------------------------------------------------------------
(* What the token answers when it is asked. *)

\* QueryMsg: what may be asked of the ledger, its snapshots and the allowances;
\* the lists of cw20, the minter and the logo are left out.
TokenQuestions ==
  [ask : {"token_info"}]
  \cup [ask : {"balance"}, address : Accounts]
  \cup [ask : {"balance_at"}, address : Accounts, block : Nat]
  \cup [ask : {"total_supply_at"}, block : Nat]
  \cup [ask : {"allowance"}, pair : Approvals]

TokenAnswer(q) ==
  CASE q.ask = "balance"         -> xmars[q.address]
    [] q.ask = "balance_at"      -> BalanceAt(q.block)[q.address]
    [] q.ask = "token_info"      -> [total_supply |-> xmarsSupply]
    [] q.ask = "total_supply_at" -> TotalSupplyAt(q.block)
    [] q.ask = "allowance"       -> allowances[q.pair]

-----------------------------------------------------------------------------
TokenTypeOK ==
  /\ XMarsTypeOK
  /\ allowances \in [Approvals -> [amount : Nat, expires : Nat \cup {Never}]]
  /\ credit \in [Approvals -> Int]

\* However grants, reductions and uses follow each other, a spender has never
\* moved more than the owner granted it, nor can it with what is left.
SpentWithinGrants ==
  \A p \in Approvals : allowances[p].amount \in 0 .. credit[p]

=============================================================================

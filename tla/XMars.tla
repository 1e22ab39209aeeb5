------------------------------- MODULE XMars --------------------------------
(***************************************************************************)
(* The xMARS token: a cw20 ledger that remembers every balance, and its    *)
(* total supply, by block.                                                 *)
(*                                                                         *)
(* The operators change the token within the transaction of a caller; the  *)
(* module that uses them says when.  XMarsToken adds the allowances of     *)
(* cw20, by which a spender moves or burns what an owner let it.           *)
(***************************************************************************)
EXTENDS Snapshots, LedgerSums

CONSTANTS
  Accounts,          \* the holders of xMARS, the staking contract among them
  StakingContract,   \* the minter, to which unstaked xMARS is sent
  InitialBalances,   \* what the token is instantiated with, for some accounts
  Amounts,           \* the amounts sent or asked for
  MaxXMars,          \* the cap of the minter, which bounds the supply
  MaxHeight          \* bound: the last block

ASSUME XMarsAssumptions ==
  /\ IsFiniteSet(Accounts) /\ StakingContract \in Accounts
  /\ Amounts \subseteq Nat /\ MaxXMars \in Nat /\ MaxHeight \in Nat
  /\ DOMAIN InitialBalances \subseteq Accounts
  /\ \A u \in DOMAIN InitialBalances : InitialBalances[u] \in Nat
  /\ Total(InitialBalances, DOMAIN InitialBalances) <= MaxXMars

VARIABLES
  height,            \* the present block
  xmars,             \* BALANCES
  xmarsSupply,       \* TOKEN_INFO.total_supply
  balanceSnapshots,  \* BALANCE_SNAPSHOTS, by account
  supplySnapshots    \* TOTAL_SUPPLY_SNAPSHOTS

xmarsVars == <<xmars, xmarsSupply, balanceSnapshots, supplySnapshots>>

\* The supply may not exceed the cap, neither at first nor when it is minted.
WithinCap(supply) == supply <= MaxXMars

\* create_accounts: the first balances, and their sum, are captured.
FirstBalances == [u \in Accounts |-> IF u \in DOMAIN InitialBalances THEN InitialBalances[u] ELSE 0]

XMarsInit ==
  LET supply == Total(FirstBalances, Accounts)
  IN  /\ height = 1
      /\ xmars = FirstBalances
      /\ WithinCap(supply) /\ xmarsSupply = supply
      /\ balanceSnapshots = [u \in Accounts |->
           IF u \in DOMAIN InitialBalances THEN Captured(NoHistory, height, FirstBalances[u])
           ELSE NoHistory]
      /\ supplySnapshots = IF supply > 0 THEN Captured(NoHistory, height, supply) ELSE NoHistory

\* The balances become those of ledger; those of us are captured.
SetBalances(ledger, us) ==
  /\ xmars' = ledger
  /\ balanceSnapshots' =
       [u \in Accounts |-> IF u \in us THEN Captured(balanceSnapshots[u], height, ledger[u])
                                       ELSE balanceSnapshots[u]]

SetSupply(supply) ==
  /\ xmarsSupply' = supply
  /\ supplySnapshots' = Captured(supplySnapshots, height, supply)

\* core::transfer, core::burn and execute_mint refuse an amount of zero.
TransferXMars(sender, recipient, amount) ==
  /\ amount > 0 /\ xmars[sender] >= amount
  /\ SetBalances(Credit(Debit(xmars, sender, amount), recipient, amount),
                 {sender, recipient})
  /\ UNCHANGED <<xmarsSupply, supplySnapshots>>

\* For MintXMars: the new supply is not captured.
MintXMarsUncaptured(recipient, amount) ==
  /\ amount > 0 /\ WithinCap(xmarsSupply + amount)
  /\ xmarsSupply' = xmarsSupply + amount
  /\ SetBalances(Credit(xmars, recipient, amount), {recipient})
  /\ UNCHANGED supplySnapshots

MintXMars(recipient, amount) ==
  /\ amount > 0 /\ WithinCap(xmarsSupply + amount)
  /\ SetSupply(xmarsSupply + amount)
  /\ SetBalances(Credit(xmars, recipient, amount), {recipient})

BurnXMars(owner, amount) ==
  /\ amount > 0 /\ xmars[owner] >= amount /\ xmarsSupply >= amount
  /\ SetSupply(xmarsSupply - amount)
  /\ SetBalances(Debit(xmars, owner, amount), {owner})

\* xMARS sent to a contract that burns it in the same transaction.
SendAndBurnXMars(sender, contract, amount) ==
  /\ amount > 0 /\ xmars[sender] >= amount /\ xmarsSupply >= amount
  /\ SetSupply(xmarsSupply - amount)
  /\ SetBalances(Debit(xmars, sender, amount), {sender, contract})

-----------------------------------------------------------------------------
(* The token by itself: its minter mints and burns whenever it likes. *)

NextBlock ==
  /\ height < MaxHeight
  /\ height' = height + 1
  /\ UNCHANGED xmarsVars

TokenStep(u, amount) ==
  \/ MintXMars(u, amount)
  \/ BurnXMars(u, amount)
  \/ SendAndBurnXMars(u, StakingContract, amount)
  \/ \E recipient \in Accounts : TransferXMars(u, recipient, amount)

XMarsNext ==
  \/ \E u \in Accounts, amount \in Amounts : TokenStep(u, amount) /\ UNCHANGED height
  \/ NextBlock

XMarsSpec == XMarsInit /\ [][XMarsNext]_<<height, xmarsVars>>

-----------------------------------------------------------------------------
XMarsTypeOK ==
  /\ height \in Nat \ {0}
  /\ xmars \in [Accounts -> Nat]
  /\ xmarsSupply \in Nat
  /\ \A u \in Accounts : /\ DOMAIN balanceSnapshots[u] \subseteq 1 .. height
                         /\ \A b \in DOMAIN balanceSnapshots[u] :
                              balanceSnapshots[u][b] \in Nat
  /\ DOMAIN supplySnapshots \subseteq 1 .. height

\* What the token answers for a block.
TotalSupplyAt(block) == ValueAt(supplySnapshots, block)
BalanceAt(block) == [u \in Accounts |-> ValueAt(balanceSnapshots[u], block)]

\* For every block, the balances remembered add up to the supply remembered:
\* a quorum is counted against exactly the votes that can be cast.
SnapshotsAddUp ==
  \A block \in 0 .. height :
    Total(BalanceAt(block), Accounts) = TotalSupplyAt(block)

\* The balances of xMARS are a voting power: whatever is minted, burnt or
\* transferred, what the snapshots answer for a past block is what the balances
\* were when it ended.
Implemented == INSTANCE VotingPower WITH
  power <- xmars,
  sealed <- [block \in 1 .. height - 1 |-> BalanceAt(block)],
  Powers <- [Accounts -> 0 .. MaxXMars],
  NoPower <- FirstBalances
XMarsIsVotingPower == Implemented!PowerSpec

=============================================================================

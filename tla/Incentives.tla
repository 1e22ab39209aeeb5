----------------------------- MODULE Incentives -----------------------------
(***************************************************************************)
(* The incentives contract and the maToken ledgers it follows: MARS is     *)
(* emitted every second and shared among the holders of a maToken.  Each   *)
(* change of a balance is reported with the balance and the supply before  *)
(* it, in the transaction of the change.                                   *)
(*                                                                         *)
(* The red bank decides when maTokens are minted, burnt and transferred;   *)
(* here that may happen at any time.                                       *)
(***************************************************************************)
EXTENDS FixedPoint, LedgerSums

CONSTANTS
  Users,             \* the holders of maTokens
  MaTokens,          \* the maTokens
  Amounts,           \* the amounts minted, burnt, transferred or funded
  Emissions,         \* the emissions per second the owner may set
  NoIncentive,       \* the absence of an incentive
  MaxSupply,         \* bound: the supply of a maToken
  MaxMars,           \* bound: the MARS the contract holds
  MaxTime            \* bound: the block time

AssetIncentives == [emission_per_second : Nat, index : Nat, last_updated : Nat]

ASSUME IncentivesAssumptions ==
  /\ IsFiniteSet(Users) /\ IsFiniteSet(MaTokens)
  /\ Amounts \subseteq Nat /\ Emissions \subseteq Nat
  /\ NoIncentive \notin AssetIncentives
  /\ MaxSupply \in Nat /\ MaxMars \in Nat /\ MaxTime \in Nat

VARIABLES
  balances,          \* the ledger of a maToken
  incentives,        \* ASSET_INCENTIVES: the incentive of a maToken, or NoIncentive
  userIndices,       \* USER_ASSET_INDICES, by maToken and user
  unclaimed,         \* USER_UNCLAIMED_REWARDS, by user
  mars,              \* the MARS of the contract
  time               \* the block time in seconds

vars == <<balances, incentives, userIndices, unclaimed, mars, time>>

Incentivized == {t \in MaTokens : incentives[t] # NoIncentive}
Supply(t) == Total(balances[t], Users)

\* For UpdatedIncentive: the emission goes to each token instead of being shared.
UpdatedIncentivePerToken(i, supply) ==
  [i EXCEPT !.index = IF supply > 0
              THEN @ + i.emission_per_second * (time - i.last_updated) * One
              ELSE @,
            !.last_updated = time]

\* asset_incentive_update_index: the emission since the last update, shared by
\* the supply during that time; nobody gets it while there is none.
UpdatedIncentive(i, supply) ==
  [i EXCEPT !.index = IF supply > 0
              THEN @ + FromRatio(i.emission_per_second * (time - i.last_updated), supply)
              ELSE @,
            !.last_updated = time]

AccruedRewards(balance, from, to) == Mul(balance, to) - Mul(balance, from)

-----------------------------------------------------------------------------
\* execute_balance_change, for the users us of a maToken whose balances were
\* those of ledger until now.
BalanceChange(t, us, ledger) ==
  IF incentives[t] = NoIncentive
  THEN UNCHANGED <<incentives, userIndices, unclaimed>>
  ELSE LET updated == UpdatedIncentive(incentives[t], Total(ledger, Users))
       IN  /\ incentives' = [incentives EXCEPT ![t] = updated]
           /\ userIndices' = [userIndices EXCEPT ![t] =
                [u \in Users |-> IF u \in us THEN updated.index ELSE @[u]]]
           /\ unclaimed' = [u \in Users |->
                IF u \in us
                THEN unclaimed[u]
                       + AccruedRewards(ledger[u], userIndices[t][u], updated.index)
                ELSE unclaimed[u]]

\* balance_change_msg: what the token reports is what was before the change.
BalanceChangeMsg(t, us) == BalanceChange(t, us, balances[t])

\* A maToken is minted, burnt or transferred.
Mint(t, u, amount) ==
  /\ amount > 0 /\ Supply(t) + amount <= MaxSupply
  /\ balances' = [balances EXCEPT ![t] = Credit(@, u, amount)]
  /\ BalanceChangeMsg(t, {u})
  /\ UNCHANGED <<mars, time>>

Burn(t, u, amount) ==
  /\ amount > 0 /\ balances[t][u] >= amount
  /\ balances' = [balances EXCEPT ![t] = Debit(@, u, amount)]
  /\ BalanceChangeMsg(t, {u})
  /\ UNCHANGED <<mars, time>>

Transfer(t, sender, recipient, amount) ==
  /\ sender # recipient
  /\ amount > 0 /\ balances[t][sender] >= amount
  /\ balances' = [balances EXCEPT ![t] = Credit(Debit(@, sender, amount), recipient, amount)]
  /\ BalanceChangeMsg(t, {sender, recipient})
  /\ UNCHANGED <<mars, time>>

\* For EmissionSet: the emission changes before the index is brought to now.
EmissionSetAtOnce(t, emission) ==
  IF incentives[t] = NoIncentive
  THEN [emission_per_second |-> emission, index |-> 0, last_updated |-> time]
  ELSE UpdatedIncentive([incentives[t] EXCEPT !.emission_per_second = emission], Supply(t))

EmissionSet(t, emission) ==
  IF incentives[t] = NoIncentive
  THEN [emission_per_second |-> emission, index |-> 0, last_updated |-> time]
  ELSE [UpdatedIncentive(incentives[t], Supply(t)) EXCEPT !.emission_per_second = emission]

\* The owner starts an incentive or changes its emission.
SetAssetIncentive(t) ==
  /\ \E emission \in Emissions : incentives' = [incentives EXCEPT ![t] = EmissionSet(t, emission)]
  /\ UNCHANGED <<balances, userIndices, unclaimed, mars, time>>

\* What the user has accrued on a maToken by now, and what a claim pays: users
\* without a balance are skipped.
AccruedOn(t, u) ==
  AccruedRewards(balances[t][u], userIndices[t][u],
                 UpdatedIncentive(incentives[t], Supply(t)).index)
Held(u) == {t \in Incentivized : balances[t][u] > 0}
Accrued(u) == [t \in MaTokens |-> IF t \in Held(u) THEN AccruedOn(t, u) ELSE 0]
UserUnclaimedRewards(u) == unclaimed[u] + Total(Accrued(u), MaTokens)

\* The queries: of a maToken's incentive, of a user's rewards.
QueryAssetIncentive(t) == incentives[t]
QueryUserUnclaimedRewards(u) == UserUnclaimedRewards(u)

\* QueryMsg: what may be asked, but for the configuration, which is fixed here.
Questions ==
  [ask : {"asset_incentive"}, ma_token_address : MaTokens]
  \cup [ask : {"user_unclaimed_rewards"}, user_address : Users]

Answer(q) ==
  CASE q.ask = "asset_incentive"        -> QueryAssetIncentive(q.ma_token_address)
    [] q.ask = "user_unclaimed_rewards" -> QueryUserUnclaimedRewards(q.user_address)

\* A user claims its rewards, which are staked for it by the staking contract.
ClaimRewards(u) ==
  /\ UserUnclaimedRewards(u) <= mars
  /\ incentives' = [t \in MaTokens |->
       IF t \in Held(u) THEN UpdatedIncentive(incentives[t], Supply(t)) ELSE incentives[t]]
  /\ userIndices' = [t \in MaTokens |->
       IF t \in Held(u) THEN [userIndices[t] EXCEPT ![u] = incentives'[t].index]
       ELSE userIndices[t]]
  /\ unclaimed' = [unclaimed EXCEPT ![u] = 0]
  /\ mars' = mars - UserUnclaimedRewards(u)
  /\ UNCHANGED <<balances, time>>

\* The contract is funded, and its owner may send messages in its name.
Fund(amount) ==
  /\ mars + amount <= MaxMars
  /\ mars' = mars + amount
  /\ UNCHANGED <<balances, incentives, userIndices, unclaimed, time>>
ExecuteCosmosMsg(amount) ==
  /\ mars >= amount
  /\ mars' = mars - amount
  /\ UNCHANGED <<balances, incentives, userIndices, unclaimed, time>>

Tick ==
  /\ time < MaxTime
  /\ time' = time + 1
  /\ UNCHANGED <<balances, incentives, userIndices, unclaimed, mars>>

Init ==
  /\ balances = [t \in MaTokens |-> [u \in Users |-> 0]]
  /\ incentives = [t \in MaTokens |-> NoIncentive]
  /\ userIndices = [t \in MaTokens |-> [u \in Users |-> 0]]
  /\ unclaimed = [u \in Users |-> 0]
  /\ mars = 0
  /\ time = 0

TokenStep(t, u, amount) ==
  \/ Mint(t, u, amount)
  \/ Burn(t, u, amount)
  \/ \E recipient \in Users : Transfer(t, u, recipient, amount)

\* The messages of the owner and of the users; a BalanceChange is part of the
\* TokenStep that reports it.
IncentivesStep ==
  \/ \E t \in MaTokens : SetAssetIncentive(t)
  \/ \E u \in Users : ClaimRewards(u)
  \/ \E amount \in Amounts : ExecuteCosmosMsg(amount)

Next ==
  \/ \E t \in MaTokens, u \in Users, amount \in Amounts : TokenStep(t, u, amount)
  \/ IncentivesStep
  \/ \E amount \in Amounts : Fund(amount)
  \/ Tick

Spec == Init /\ [][Next]_vars

-----------------------------------------------------------------------------
(* Properties. *)

TypeOK ==
  /\ balances \in [MaTokens -> [Users -> Nat]]
  /\ incentives \in [MaTokens -> AssetIncentives \cup {NoIncentive}]
  /\ userIndices \in [MaTokens -> [Users -> Nat]]
  /\ unclaimed \in [Users -> Nat]
  /\ mars \in Nat /\ time \in Nat
  /\ \A t \in Incentivized : incentives[t].last_updated <= time

\* Whoever holds an incentivized maToken has an index that is not ahead of the
\* token's, so that no accrual underflows: a new holder's is set before its
\* first balance counts.
IndexesDoNotRunAhead ==
  \A t \in Incentivized, u \in Users : userIndices[t][u] <= QueryAssetIncentive(t).index

\* Rewards move with time and nothing else: no mint, burn, transfer or change
\* of the emission, by whomever and in whatever order within a second, changes
\* what any user can claim, but for the user that claims.
RewardsMoveOnlyWithTime ==
  [][ \A u \in Users : time' = time =>
        \/ QueryUserUnclaimedRewards(u)' = QueryUserUnclaimedRewards(u)
        \/ QueryUserUnclaimedRewards(u)' = 0 /\ mars' = mars - QueryUserUnclaimedRewards(u) ]_vars

\* When time passes nobody loses rewards, and all users together gain no more
\* than was emitted, up to the rounding of each accrual and of the index.
EmittedOn(t) ==
  IF t \in Incentivized /\ Supply(t) > 0 THEN QueryAssetIncentive(t).emission_per_second ELSE 0
SlackOn(t) ==
  IF t \in Incentivized THEN Cardinality(Users) + CeilDiv(Supply(t), One) ELSE 0
Emitted == Total([t \in MaTokens |-> EmittedOn(t)], MaTokens)
Slack == Total([t \in MaTokens |-> SlackOn(t)], MaTokens)
AllRewards == Total([u \in Users |-> QueryUserUnclaimedRewards(u)], Users)
EmissionIsShared ==
  [][ time' # time =>
        /\ \A u \in Users : QueryUserUnclaimedRewards(u)' >= QueryUserUnclaimedRewards(u)
        /\ AllRewards' <= AllRewards + Emitted * (time' - time) + Slack ]_vars

=============================================================================

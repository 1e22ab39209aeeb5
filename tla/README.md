# Mars Core in TLA+

TLA+ specifications of the contracts of Mars Core and of the script that deploys
them, the TLC models that check them on small instances, and TLAPS proofs about
their contracts. Paths are relative
to the repository (`src/contracts/...`, `src/packages/...`).

## The system

Mars is a set of CosmWasm contracts on one chain. A contract runs only when a
transaction calls it. The chain executes transactions one after the other, in
blocks, and a transaction with every message it leads to either succeeds as a
whole or changes nothing. Between contracts there are no threads and no lost
messages; only the deployment script, which talks to the chain from outside, can
be stopped between two transactions or lose an answer. What makes the system hard
is elsewhere:

- any number of users call the contracts in any order, several times in a block;
- state is kept in several contracts which must agree (balances in the tokens,
  indexes in the red bank and the incentives contract, snapshots for governance);
- a value is often computed from one that was stored in an earlier block, which
  must have been brought up to date first (indexes, snapshots, slashes);
- every amount is an integer and every rate a decimal fraction that is rounded,
  somewhere in favour of the user and elsewhere of the protocol;
- prices move and parameters are changed between two steps of a user;
- contracts look each other up by name when they need to, in a table somebody has
  to fill and may change.

| component | state | operations | interacts with |
|---|---|---|---|
| red bank | markets (terms, rates, indexes, debt total), user records (collateral and borrowed bits), debts, loan limits | init and update asset, update limit, update config, deposit, withdraw, borrow, repay, liquidate, collateral status, finalize transfer | mints, burns and moves maTokens; reads prices from the oracle; pays protocol rewards to the collector |
| interest rate models | rate, transactions and time since its last change (dynamic model) | recompute the rates at every operation | part of the red bank |
| maToken | balances, the accounts listed, supply, allowances | mint, burn, transfer, send, spend in another's name, transfer on liquidation | asks the red bank to finalize transfers; reports balances to incentives before they change |
| incentives | emission and index of a maToken; index and accrued rewards of a user | set incentive, balance change, claim, payments of the owner | called by the maToken; claims are staked |
| staking | MARS for claimers, claims, slash events, cooldown | stake, unstake, claim, transfer MARS (slash), swap, update config | mints and burns xMARS |
| xMARS token | balances, supply and their snapshots per block, allowances | mint, burn, transfer, send, the same in another's name, approve | voting power of the council |
| vesting | allocations, unlock schedule, snapshots of voting power | create allocation, withdraw | voting power of the council; asks staking for the MARS to xMARS ratio |
| council | configuration, proposals, votes | submit, vote, end, execute, update config | reads voting power at a past block; proposals carry messages to any contract |
| oracle | owner, price sources, TWAP snapshots | update config, set asset, record snapshots, query | read by the red bank; reads Astroport's pairs, the chain's rates, the hubs of staked Luna, and itself |
| rewards collector | balances, shares, enabled assets, owner | withdraw from the red bank, swap, distribute, update both configurations, a message of the owner | red bank, staking, safety fund, treasury, by way of the address provider |
| red bank closure | that of the red bank it replaces by migration | refund the first accounts the maToken lists | maToken |
| address provider | owner, addresses of the contracts | update, query | all |
| treasury, safety fund | funds, owner | a message of the owner, swap, change of owner | paid by the collector |
| swaps and taxes | none | build the messages of a transfer net of tax, or of an exchange | every contract that pays a native coin |
| deployment script | the transaction it is at | instantiate, configure, hand over | all, from the deployer's wallet |

What makes each correct, in a line: the **red bank** can pay its depositors, its
totals are the sums of what users owe, values move with time only, no user
operation makes a position unhealthy and liquidations take no more than they
may; **incentives** share out what is emitted, whatever the balances do;
**staking** always holds what its claimers are due and dilutes nobody; **xMARS**
and **vesting** answer for a past block what was true at its end; **vesting**
holds what it has not released; the **council** holds the deposits of its active
proposals, counts nobody twice and never changes an outcome; the **oracle**
averages over the window it was told and keeps no more snapshots than that takes;
a **closure** pays every holder the same per maToken; the **collector** pays out
the shares it is configured with and no more than it has; the **deployment** ends
with every contract in the hands of the council.

## The modules

| module | models | extends or instantiates |
|---|---|---|
| `FixedPoint` | `Decimal` and `math.rs`: products, quotients and their rounding | |
| `DecimalText` | a `Decimal` as the text it is stored and sent as | `FixedPoint` |
| `Taxes` | the tax on native coins and its deduction | `FixedPoint` |
| `LedgerSums` | the total of a function of natural numbers | |
| `Retaining` | what `Vec::retain` leaves of a sequence | |
| `Allowances` | what an owner lets a spender have, and until when | |
| `InterestRateModels` | the linear and the dynamic model | `FixedPoint` |
| `RedBank` | the red bank with the maTokens of its assets | `InterestRateModels`, `LedgerSums` |
| `MaToken` | one maToken by itself | `LedgerSums`, `Allowances`, `Retaining` |
| `Closure` | the red bank of one asset, its migration and the refunds | `MaToken`, `Taxes` |
| `Incentives` | the incentives contract with the maTokens that report to it | `FixedPoint`, `LedgerSums` |
| `Snapshots` | values captured per block and read back | |
| `VotingPower` | **abstract**: a power of each account that changes within blocks and whose past never does | |
| `XMars` | the ledger of the xMARS token, shown to implement `VotingPower` | `Snapshots` |
| `XMarsToken` | the token with its allowances | `XMars`, `Allowances` |
| `Staking` | the staking contract, composed with the xMARS token | `XMars`, `FixedPoint` |
| `Vesting` | the vesting contract, shown to implement `VotingPower` | `Snapshots`, `FixedPoint` |
| `Council` | the council over any `VotingPower` | `VotingPower`, `FixedPoint` |
| `Oracle` | the oracle over Astroport's pairs and the chain's rates | `FixedPoint`, `Retaining` |
| `AddressProvider` | the table of addresses | |
| `RewardsCollector` | the collector and the funds it pays | `AddressProvider`, `Taxes`, `LedgerSums` |
| `Deployment` | the script, and the contracts of the revenue while it runs and after | `RewardsCollector` |
| `CommonProofs` | lemmas about the operators that several modules share | `FixedPoint`, `LedgerSums`, `Snapshots`, `Retaining` |
| `RedBankProofs`, `VestingProofs`, `CouncilProofs`, `IncentivesProofs` | theorems about the module of that name | that module, `CommonProofs` |
| `XMarsProofs` | theorems about the token, and about staking on top of it | `XMarsToken`, `Staking`, `CommonProofs` |
| `OracleProofs` | theorems about the oracle and the texts of its prices | `Oracle`, `DecimalText`, `CommonProofs` |
| `PayoutProofs` | theorems about what is paid out, refunds and distributions, and about what the deployment script leaves behind | `Closure`, `Deployment`, `CommonProofs` |
| `MC*` | constants for TLC | one of the above each |

`MaToken` is one token seen alone, with what decides refunds: who is listed,
and in which order. `RedBank` and `Incentives` each keep the ledgers of all
maTokens with what *they* decide about a transfer, so that neither has to carry
what the other does not look at.

Conventions that hold in all of them:

- **A step is a transaction with all its submessages**, so a deposit is one step
  that changes the cash, the market, the maTokens and the user record. A guard
  is a condition that would abort the transaction. The order of messages inside
  a transaction matters to the values, and the actions follow it: the rewards
  are minted with the accrual, before the user's own mint or burn; a maToken
  reports balances to the incentives before they change.
- **One** is the unit of a `Decimal` (ten to the eighteenth in the code, ten in
  the instances) and every rounding of the code is kept: `Mul`, `Div`,
  `FromRatio` truncate, `CeilDiv` does not. `ScalingFactor` is the code's
  `SCALING_FACTOR`, `SecondsPerYear` its number of seconds in a year. The width
  of integers is not modelled: the code is compiled with checked arithmetic and
  an overflow aborts the transaction.
- **Names** are the source's where TLA+ allows it.
- A few definitions just before another, whose comment begins with "For", are
  *variants*: what that definition would be with a plausible bug in it. No
  specification uses them. They are substituted one at a time to see that each
  checked property notices (`mutants` in `PROJECT.json`).

### Correspondence with the code

**RedBank.** `markets[a]` is `MARKETS` (the record keeps the fields of `Market`;
the maToken address and the bit of an asset become the asset itself); `limits`
and `uncollateralized` are `UNCOLLATERALIZED_LOAN_LIMITS` and the marker in
`Debt`; `debts` is `DEBTS`; `known`, `collateral` and `borrowed` are the
existence and the two bit sets of `USERS`; `closeFactor` is in `CONFIG`;
`maTokens` are the ledgers of the maToken contracts and `cash` the red bank's
balances. `price` is what the oracle answers and `now` the block time. Each
`execute_*` handler is the action of that name; the callback
`finalize_liquidity_token_transfer` belongs to `TransferMaToken`, and
`process_underlying_asset_transfer_to_liquidator` or its maToken counterpart to
`Liquidate`. `Accrue`, `Refresh`, `CanMintRewards` and `WithRewards` are
`apply_accumulated_interests` and `update_interest_rates`, which each handler
calls; `Reprices` says when `update_asset` does. Health is `HealthyWith`, over
explicit flags and ledgers, since a handler judges the position as it will be
after the messages it sends.

**Incentives.** `balances` are the maTokens' ledgers. Each change of a balance
is one action of the token with the `BalanceChange` it sends first, with the
balances and the supply before. A claim pays MARS out; the staking of it is not
part of this module.

**MaToken, Closure.** `maTokens` and `maListed` are `BALANCES`: an entry of zero
stays an entry, and `AllAccounts` is the token's query over the entries. `closed`
is whether the migration took place, `indebted` whether `debt_total_scaled` of
the market is other than zero, `held` the red bank's balance. Before the
migration the module allows any deposit, withdrawal, borrowing and repayment in
any proportion of asset to maTokens, which is more than `RedBank` does. After it
a transfer can no longer be finalized, since the message is unknown to the new
contract; that is why `PageIsRefunded` holds: nobody can empty an account
of a page that could be refunded.

**XMars, XMarsToken, Staking.** `Snapshots` models the `SnapshotMap`-like storage
of the token: a value captured for a block is overwritten within the block and
read back by the greatest block not after the one asked for. `XMarsToken` adds
`ALLOWANCES` and the handlers of `allowances.rs`, each of which uses up an
allowance and then does what the owner could; `credit` is a history variable.
`Staking` extends `XMars`, with the staking contract as the token's minter:
`Unstake` is the `send` of xMARS, the handler and the burn. Claims, `forClaimers`
and `slashes` are the contract's state of the same names. Supplies start from
the `initial_balances` of the token's instantiation.

**Vesting.** `allocations` is `ALLOCATIONS`; `powerSnapshots` and
`totalSnapshots` are `VOTING_POWER_SNAPSHOTS` and `TOTAL_VOTING_POWER_SNAPSHOTS`.
`xmarsPerMars` is what the staking contract answers when an allocation is created;
it must be one to one.

**Council.** A proposal keeps its status, deposit, heights, tallies and
messages; a message is an update of the council's configuration, which sets some
of its fields, in its execution order, or something that is not of interest here.
A proposal's messages succeed together or not at all. The voting power is that of
`VotingPower` at the block before the proposal; `XMars` and `Vesting` are shown to
implement this module by a refinement of their own, so that what holds in
`Council` holds over either.

**Oracle.** `sources` is `PRICE_SOURCES`, `snapshots` is
`ASTROPORT_TWAP_SNAPSHOTS`; `spot` and `cumulative` are Astroport's pairs, with a
cumulative price that wraps as theirs does, and `lunaRate` and `hubRate` what the
chain and the hubs say: they are external and change with every second.
`PriceGiven` is the match of `query_asset_price` on the source and `PriceThrough`
follows its queries to the oracle itself, cut off at as many as there are assets: a
longer chain is a circle, which the code would follow until it runs out of gas.
`QueryAssetPrice` is what the oracle answers, `AssetPrice` what the contracts get
through `helpers::query_price`, which answers one for uusd without asking. `past`
and `pairSince` are history variables for the properties. A price is a Decimal and
goes to the red bank as a text; `DecimalText` is that conversion, and the run `oracle` evaluates over a
range of numbers that it loses nothing (`TextsAreDecimals`, in `MCOracle`).
`Retained` is the `retain` that drops the snapshots older than the longest window.

**AddressProvider, RewardsCollector, Deployment.** `provider` is the provider's
`CONFIG`. `funds` are the balances of the collector and of whom it pays;
`collectorConfig` and `enabled` its `CONFIG` and `ASSET_CONFIG`. A recipient is
looked up in `provider` when it is paid. `Script` is the list of transactions of
`deploy.ts` in its order; `Transact` is what each of them does on chain and what
it requires. `Perform` is the next one succeeding, `Fail` the script stopping,
before or *after* its transaction was executed, `Rerun` a new start, which
knows nothing of the contracts made before. The collector and the council act
from the moment they exist, while the script runs and afterwards.

## What is checked

| run | properties | what it shows |
|---|---|---|
| `red_bank_health` | `DebtIsFlagged`, `HolderIsKnown`, `UsersKeepPositionsHealthy`, `LiquidationIsFair` | no sequence of operations by two users hides a debt from the health factor or leaves a holder without a record; a user's withdrawal, borrowing, transfer or change of collateral never leaves an unhealthy position, up to the roundings of the asset it withdraws or borrows (`RoundingSlack`); a liquidation happens to unhealthy positions only, repays at most the close factor and seizes at most the bonus |
| `red_bank_interest` | `DebtTotalIsSum`, `MarkerMatchesLimit`, `CollateralIsHeld`, `SolventUntilLiquidated`, `DepositsEarnLess`, `ValuesMoveOnlyWithTime`, `RateMovesOncePerBlock`, `AnswersAreKept`, `DepositorsLoseNothing` | with interest of the dynamic model, rewards, repricing, loans without collateral and liquidations at indexes that do not divide the amounts: debt totals are sums, no collateral bit outlives its maTokens, also when a liquidation takes them all, deposits are covered by cash and debts until a first liquidation, nothing but time changes what a scaled unit is worth, the calls of one block move the dynamic rate once at most, a deposit, a loan and a full repayment do what the queries announced, and no transaction lowers what the red bank holds and is owed less what maTokens and pending rewards can claim, at full precision, beyond the roundings `LostInRounding` allows it |
| `xmars` | `SnapshotsAddUp`, `SpentWithinGrants`, `XMarsIsVotingPower` | at every past block the balances add up to the supply, whoever moved them; nobody spends more than it was granted; the token implements `VotingPower` |
| `staking` | `ReservesAreHeld`, `ClaimsAreReserved`, `HoldersAreNotDiluted`, `SlashIsProportional` | the MARS for claimers is held and covers every claim after every slash; staking, unstaking and revenue never lower what a holder's xMARS is worth; a slash takes from stakers and claimers alike |
| `vesting` | `PowerIsLocked`, `PowersAddUp`, `ReleasesAreFinal`, `VestingIsVotingPower` | voting power is what is locked, its total the sum; what was withdrawn stays released under every pair of schedules |
| `council` | `DepositsAreHeld`, `VotesAreBacked`, `PassedByMajority`, `OutcomesAreFinal` | deposits are paid back once at most, votes are backed by power before the proposal, an outcome follows from the votes and is final |
| `incentives` | `RewardsMoveOnlyWithTime`, `EmissionIsShared` | rewards follow time and supply, and all users together get what was emitted up to rounding |
| `oracle` | `SnapshotsAreBounded`, `AveragesWithinWindow`, `RecordingKeepsAverages` | snapshots asked for at any pace stay within a bound; an average, and a share of the pool priced by it, lies between the prices of its window, across a wrap of the cumulative price and for snapshots of an earlier source with another window; what a recording drops was of no use |
| `closure` | `RefundsAreFair`, `WaitingIsSafe`, `PageIsRefunded` | of an asset with a tax: refunds pay at least the rounded share of what is there, in whichever page, leave nothing at the end, take nothing but the taxes from those who wait, and a page that can be refunded is |
| `deployment` | `DistributionFits`, `HandedOver`, `GetsDone`, `RewardsAreShared` | stopped at any transaction and started again, the script ends with every contract, address and market in place and nothing in the deployer's hands; revenue is shared as configured and costs no more than it amounts to |

The type invariants (`TypeOK` of each module) are in no configuration: a run
would meet a value of another type as an error, and what they say is part of the
inductive invariants proved of the contracts (of `Deployment`, the part about the
collector, the addresses of those it pays, and what the script has made). The same goes for three properties which every
run about something deeper would stumble over, and which are theorems:
`Incentives!IndexesDoNotRunAhead`, `Staking!AnswersAreKept` and
`Closure!SupplyIsHeld`.

### Divergences found

Two runs end in a counterexample: the property says what a comment of the
source says, and the code does otherwise.

| run | what happens |
|---|---|
| `liquidation_rounding` (`Solvent`) | a liquidation that pays the underlying asset burns the *truncated* scaled amount, which `interest_rates.rs:120` itself says a burn should not use: the deposits end up worth more than cash and debts together. `red_bank_interest` checks the same of histories without a liquidation (`SolventUntilLiquidated`); what a liquidation may cost at most is `DepositorsLoseNothing`, in the same run |
| `closure_repeated` (`EveryoneIsRefunded`) | `msg.rs:9` of the closure says to call the refund repeatedly until all users are refunded. It always takes the first accounts the maToken lists, and burns the balance of each; an account without a balance - refunded by an earlier call, for one - stays listed, and the maToken refuses to burn nothing. From the second page on nothing can be refunded |

Others were met while modelling. The models have these behaviours, and no run
demands otherwise:

- *Red bank.* A user whose debts are all uncollateralized cannot withdraw an
  asset flagged as collateral: the handler divides by the collateralized debt,
  zero (`contract.rs:862` says when the check is meant to apply). It can unflag
  the asset first. A full repayment by liquidation leaves the bit in
  `borrowed_assets` set (`red_bank/mod.rs:165` says the bit means a debt; it adds
  nothing to the health factor). `Market::validate` does not bound the
  reserve factor, which `interest_rate_models.rs:134` says is checked; a market
  above one refuses every refresh. Protocol rewards that are truncated to zero
  maTokens (`interest_rates.rs:91`) make the operation that accrues them fail,
  since the maToken refuses to mint nothing. The flags of a user have 128 bits
  and nothing bounds the number of markets (`accounts.rs:137`).
- *Staking.* A claim opened after a slash in the same block, at the rate the
  slash left, is slashed again, although a test comment (`contract.rs:1307`)
  says that previous slashes do not count. A claim worth nothing cannot be
  closed, since the token refuses to transfer zero, and its owner cannot open
  another.
- *Council.* `proposal_effective_delay` is counted from the end of the voting
  period although `council.rs:21` says "since a proposal succeeds": ended late, a
  proposal is executed at once. It and the expiration are read when a proposal is
  executed, so that a longer expiration revives one that had expired.
- *Oracle.* `execute_set_asset` (`contract.rs:91`) leaves the snapshots of the
  asset, which do not say of which pair they are. After the owner moved an asset to
  another pair, the query subtracts the cumulative price of the old pair from that
  of the new one, and takes a decrease for an overflow, as long as a snapshot of the
  old pair is within the tolerance of the window: until then the price is no average
  of either pair, where `oracle.rs:24` says "Astroport TWAP price quoted in UST".
  `AveragesWithinWindow` is therefore of averages from a snapshot taken since the
  pair was set. Of several snapshots within the tolerance the code takes the oldest,
  as its own comment says (`contract.rs:257`); `oracle.rs:40-41` says that the one
  closest to the window is taken. The properties are of the oldest. A tolerance that
  reaches the window admits a snapshot of this very second, and the query divides by
  zero; with a tolerance of zero a snapshot may be taken every time.
- *Closure.* Debts that are open at the migration can never be repaid, and while
  there are any the refund is refused.
- *Taxes.* A contract that exchanges its whole balance of a native coin leaves
  nothing for the tax, and the chain refuses the exchange. (A distribution deducts
  it.)
- *Tokens.* An account named twice in the xMARS token's `initial_balances` is
  counted twice in the supply and once in the balances.
- *Deployment.* Off the testnet the deployer gives up the minter of MARS in the
  third transaction; if the script stops after it, the new run cannot set the
  minter (`deploy.ts:99-108`). `GetsDone` is of the testnet configuration, where
  the deployer stays a minter. An asset whose pair cannot be queried is skipped
  by `setupOracle`, so that its market is opened without a price.

### Bounds, and why they are enough

`One` is 10, so that the fractions of the instances (close factor 5, thresholds
5 and 7, interest rates 1 to 8) do not divide the amounts and every rounding
direction shows. The counts are of distinct states.

- **red_bank_health** (24,188): two assets, two interchangeable users and the collector,
  prices 50 or 100 of one asset, amounts of 2, at most 4 scaled units and 4 of
  cash, close factor 5 or 20 (which `Config::validate` refuses). The time stands
  still (`SpecInBlock` has every step but `Tick`): interest is the other run's
  subject. Two users and two assets give a borrower, a liquidator, collateral and
  debt in different or the same asset, and a debt beside another one; a price that
  falls and recovers gives positions that turn unhealthy and are healed.
- **red_bank_interest** (318,206): one asset at a constant price, one user and the
  collector, amounts 1 and 2, a loan limit of 2, times 0 to 2, `ScalingFactor` 2,
  at most 4 scaled units and 2 of cash, a close factor of one half. The market
  follows the dynamic model, with thresholds of 2 transactions and 2 seconds, and
  the owner may update it to another reserve factor that also stops deposits and
  borrowing. Interest compounds twice, a part pays rewards, and 1 and 2 against a
  scale of 2 at indexes like 12/10 round in every direction. No price moves and none
  needs to: debts outgrow their collateral by interest. The properties are about a
  market and its sums; a second user adds a summand of the same kind. With one user
  a liquidation is of its own position and for the asset, whose burn is the one that
  is truncated; those by somebody else and for maTokens are in `red_bank_health`,
  and the theorems are of all of them. `liquidated` is a history variable of the
  instance. `MaxCash` also bounds what liquidators may send: a repayment that the
  rounding up of the rest swallows could be repeated forever.
  `liquidation_rounding` has a market with the linear model, at borrow indexes of two
  and more, amounts 1 and 3, times 0 to 3 and a `ScalingFactor` of 3.
- **xmars**: two holders and the staking contract, one of them with an initial
  balance, one allowance that may expire at block 2 and is granted up to 2, a
  supply of 2, blocks 0 to 3: several changes in a block, blocks without a
  change, and queries for all of them.
- **staking** (897,965): two users and the contract, at most 4 MARS and 3 xMARS,
  amounts 1 and 3, a cooldown of 1, blocks 0 to 2: two claims at different rates
  with slashes before, between and after them, in the same and in later blocks.
  The snapshots decide nothing in the staking contract, and states that differ in
  them alone are identified by a VIEW; none of this run's action properties
  mentions them.
- **vesting**: two users, schedules whose cliff is inside and beyond the
  duration (the code refuses neither), an unlock schedule that overlaps both,
  allocations of 1 or 4 out of 5 MARS, ratios one to one and not, seven time
  points past the end of both.
- **council**: two proposals, two voters with powers 1:1 or 1:3 that change in
  any block, two configurations to begin with, two lists of messages (in and out
  of order, one that does not validate), blocks to 5.
- **incentives** (243,642): one maToken, two users, supplies up to 3 and
  emissions 1 and 4 that a supply of 3 does not divide, 2 MARS to pay, four time
  points.
- **oracle** (571,474): a token that may be priced by the averages of two pairs
  with different windows or by one of them at once, with the shares of a pool, staked Luna
  and uusd beside it; cumulative prices that wrap at 13, which the higher
  price of the token reaches in four seconds; six seconds, twice the longest window.
- **closure** (209,390): three holders and pages of two, four maTokens, and users
  who own 5 of the asset to begin with: amounts of 1 and 2 against 1 and 2 maTokens
  make the red bank rich, poor, or even. The tax is a half, capped at 1, which an
  amount of 1 does not pay: refunds with and without a tax, and pages that the
  taxes make too expensive.
- **deployment** (352,994): a token and uusd, a tax of three tenths capped at 2,
  shares of 1 and 2 tenths and of one half each (and one pair that adds up to more
  than one), revenue of 7 at a time to at most 14, three runs of the script. No
  share divides 7, and the cap is reached by the larger parts only.

SYMMETRY is used where the instance's users are interchangeable and only safety
is checked. CHECK_DEADLOCK is FALSE in every configuration: time, heights,
supplies and runs are bounded, and a chain on which nobody sends a transaction is
not stuck. Where getting stuck would be a defect it is stated as a property:
`PageIsRefunded`, `EveryoneIsRefunded`, `GetsDone`.

### Fairness and liveness

A step of a contract is a transaction somebody outside decides to send; nothing
in the code runs on a schedule, retries or is otherwise bound to happen. "A
liquidatable position is liquidated" or "a proposal is ended" would hold under an
assumption about people, not about this code, and the specifications of the
contracts have no fairness. Two do:

- `Closure` has `WF_closureVars(Refund)`. Anybody may ask for a refund and gains by it,
  and the message's own description is to repeat the call.
  `PageIsRefunded` is then a claim about the code: once a page can be refunded
  nothing disables it for good. It is the lack of this for *all* pages that
  `closure_repeated` shows; weak fairness is enough for both.
- `Deployment` has `WF_vars(Perform)` and `WF_vars(Rerun)`: the script sends its
  next transaction when the one before is done, and an operator starts it again
  when it stopped. `Fail` is not fair, and happens at most `MaxRuns - 1` times:
  a script that always fails never gets done. `GetsDone` says that no place
  where it may have been stopped leaves something behind that the next run trips
  over.

## What is proved

The theorems hold for every value of the constants that meets the assumptions
named in the modules, and for behaviours of any length; TLC evaluates those
assumptions for its instances. They are weak: parameters are natural numbers,
`One` and `ScalingFactor` positive, configurations and models are those the
contracts' validation admits, sets of users and of assets finite. The two that are not obvious
are `MaxMars <= One` (see "What is assumed") and that no account is named twice
among a token's addresses.

Each contract has an inductive invariant (`TypeInv` with its companions,
`TokenInv`, `StakingInv`, `VestingInv`, `CouncilInv`, `IncentivesInv`,
`OracleInv`, `ClosureInv`), with one lemma per operation that it is kept, and a
theorem that it always holds; the safety invariants are its consequences and the
action properties are shown of a single step from it.

**Red bank** (`RedBankProofs`)

| theorem | of | argument |
|---|---|---|
| `TypeCorrect`, `TypeSafe` | `TypeInv`, `TypeOK` | `TypeOK` is not inductive: that an index stays a natural number needs rates to be natural, which needs utilization to be at most `One`, reserve factors at most `One` where rates are refreshed, and times that do not run ahead. `TypeInv` adds these |
| `DepositsNeverEarnMore` | `DepositsEarnLess` | part of `TypeInv`: the liquidity rate is the borrow rate times two fractions (`LiquidityRateBound`), and `IndexOrder` carries the order over to the indexes, roundings included |
| `DebtTotalsAreSums` | `DebtTotalIsSum` | `DebtInv` adds that an asset that is not listed has no debts; borrow, repay and liquidate change one entry and the total by the same amount (`DebtEntryStep`) |
| `DebtsAreFlagged` | `DebtIsFlagged` | by cases of the operations that clear a bit or raise a debt |
| `MarkersMatchLimits` | `MarkerMatchesLimit` | only the owner's grant changes either, and it changes both |
| `HoldersAreKnown` | `HolderIsKnown` | a balance rises by a deposit, a transfer, a liquidation or the rewards; each saves a record or belongs to the collector |
| `CollateralStays` | `CollateralIsHeld` | `FlagsAreHeld`, the same without regard to listings. Each place that burns or moves maTokens and leaves some behind must not clear the bit, and each that leaves none must; a withdrawal decides by the truncated amount. The theorem has the hypothesis `[]IndexesWithinPrecision`: at an index beyond `ScalingFactor * One` a rest that is not zero may be scaled to zero (`SomeIsScaled`), and the bit outlives the tokens |
| `ValuesNeverJump` | `ValuesMoveOnlyWithTime` | an operation that refreshes a market leaves its accrued indexes what they were at this instant (`RefreshedHolds`), and time raises them (`TimeHolds`) |
| `RatesMoveOnce` | `RateMovesOncePerBlock` | `ModelsAreDated`: a model's last update is not in the future. A refresh changes a dynamic rate only if its model was last updated before now and dates it now (`MovesOnce`), and a model the owner replaces it by is dated now before it is refreshed, so that the refresh leaves its rate alone |
| `RoundingFavoursTheBank` | the conversions of `interest_rates.rs` | at every index of every reachable state, scaling an amount and back loses for a deposit and gains for a debt, or leaves it |
| `AnswersStayKept` | `AnswersAreKept` | the queries accrue to the instant they are asked at, as the handlers do; for a full repayment by `DebtRoundTrip` |
| `PositionsStayHealthy` | `UsersKeepPositionsHealthy` | `HealthInv`: `TypeInv`, `DebtIsFlagged` and `MarkerMatchesLimit`, without which a debt would not count, that flags are of listed assets, and that a market's terms are those the owner may set. Both sides of the health factor are totals over the assets, so that a step is compared asset by asset. Deposits, repayments, other users' transactions and refreshes take nothing from a position; a withdrawal, a loan, a transfer and a change of collateral were checked, and differ from what was checked by the roundings of one asset; who is liquidated was not healthy |
| `DepositorsStayWhole` | `DepositorsLoseNothing` | from `TypeInv`: no index moves within a block, a refresh mints exactly the rewards that were pending (`RefreshLosesNothing`), and each conversion rounds a claim down when it is created and up when it is settled, a debt the other way. What may be lost is less than a unit for a debt that is recorded anew (`RepaidIsCovered`) and less than the index for the truncated burn of a liquidation |
| `LiquidationsAreFair` | `LiquidationIsFair` | of the other operations each lowers debts or users' maTokens, never both. What is repaid when all collateral is taken is at most what could be repaid otherwise (`CappedRepayFits`), what is seized is covered by what is repaid and the bonus (`SeizedIsCovered`), up to the two divisions when all is taken (`AllIsCovered`), and the rest of the debt grows by a bounded rounding when it is recorded anew (`RestRoundedUp`) |

**The xMARS token and staking** (`XMarsProofs`)

| theorem | of | argument |
|---|---|---|
| `TokenCorrect` | `TokenInv` | `XMarsInv` says that the last snapshots are the balances and the supply, and the supply their sum; `ApprovalInv` that what was granted covers what is left and what was spent |
| `SnapshotsStaySums` | `SnapshotsAddUp` | a capture changes the answer for its own block only (`ValueAt` after a capture), and there the sum moves with the entry |
| `SpendersStayWithinGrants` | `SpentWithinGrants` | the consequence of `ApprovalInv` |
| `AllowancesAddNothing` | | `TokenSpec => XMarsSpec`: an action of a spender is one of the owner's on the ledger |
| `BalancesAreVotingPower` | `XMarsIsVotingPower` | the refinement of `VotingPower`: initial states to initial states, each step to `ChangePower`, `SealBlock` or a stutter |
| `StakedIsVotingPower` | the same, of `Staking` | staking touches the token by its mint and its burn only, so its steps are steps of the ledger |
| `StakingCorrect` | `StakingInv` | adds to the types that the sum of what the claims are worth after every slash since is within `forClaimers`. A slash rounds its percentage, each claim loses it rounded in its own way: the sum stays covered because truncated parts never exceed the truncated whole (superadditivity), and the reserve stays within the balance because amounts are below the precision |
| `ReservesStayHeld`, `ClaimsStayReserved` | `ReservesAreHeld`, `ClaimsAreReserved` | consequences |
| `SlashesAreProportional` | `SlashIsProportional` | the rounding of the percentage costs at most one unit |
| `NobodyIsDiluted` | `HoldersAreNotDiluted` | both ratios are truncated in favour of those who stay |
| `AnswersStayKept` | `Staking!AnswersAreKept` | a stake mints, an unstake reserves and a claim pays what the queries said |

**Vesting** (`VestingProofs`). `VestingInv` says that what is withdrawn is
released, that the last snapshots are what is locked, and that the contract holds
their sum. From it `VestingCorrect`, `PowerStaysLocked` (`PowerIsLocked`),
`PowersStaySums` (`PowersAddUp`), `ReleasesStayFinal` (`ReleasesAreFinal`, since
what a schedule has released never recedes, cliffs beyond the duration included)
and the refinement `LockedIsVotingPower` (`VestingIsVotingPower`).

**Council** (`CouncilProofs`). `CouncilInv` adds to the types that a proposal
starts at a known block, that the configuration is valid and that the outcome of
a proposal is the one its tallies justify. From it `CouncilCorrect`,
`DepositsStay` (`DepositsAreHeld`, a sum over the active proposals), `VotesStayBacked`
(`VotesAreBacked`: the tallies are the sums of the ballots, one of each voter, with
the past power of each, which no later change of power touches), `MajoritiesDecide` (`PassedByMajority`) and `OutcomesStay`
(`OutcomesAreFinal`). Executing a proposal applies its messages in their order; which
configuration results depends on the last message that sets each field.

**Incentives** (`IncentivesProofs`). `IncentivesInv` adds to the types
`IndexesDoNotRunAhead` and that a token without an incentive has no indexes.
`IncentivesCorrect`, `IndexesStayBehind`, `RewardsFollowTime`
(`RewardsMoveOnlyWithTime`: what is reported before a change settles exactly what
was due under the balance and the supply before it) and `EmissionStaysShared`
(`EmissionIsShared`: the rewards of all users on all tokens are summed the other
way round, per token, where the users' balances add up to the supply; each index
and each user's share is rounded down once, which is the slack).

**Oracle** (`OracleProofs`). `OracleInv` says that the snapshots of an asset are no
closer to each other than the least tolerance the asset may have and all within its
longest window and tolerance; `PastInv` adds that a cumulative price, and each
snapshot since the asset has its pair, is what the pair has added up to then,
modulo the wrap.

| theorem | of | argument |
|---|---|---|
| `OracleCorrect` | `OracleInv` | one lemma per operation |
| `SnapshotsStayFew` | `SnapshotsAreBounded` | how many times there can be that far apart and that close together |
| `AveragesAreKept` | `RecordingKeepsAverages` | what can be selected now or later is recent enough not to be dropped, and the retained snapshots keep their order, so the one that is selected first stays so |
| `AveragesStayWithin` | `AveragesWithinWindow` | two snapshots differ by what the pair added between them (`AddedBetween`), which `Delta` finds but for the unit a wrap costs (`DeltaIs`), and which lies between what the least and the greatest price of the window would have added (`AverageBetween`); the value of a share grows with the prices of its pool (`ShareMono`), which are found two sources deep at most (`PricesOfAverages`) |
| `DecimalsSurvive` | | a price printed without trailing zeros and read back digit by digit is the price, for every number of places |

`AveragesStayWithin` has two hypotheses. `WindowsFit`: what a pair adds within a
window and a tolerance is less than the wrap, which is what a comment in the code
takes for granted ("assumes the cumulative price doesn't overflows more than once
during the period"); with 2^128 and six places of precision it takes a price of
10^18 over ten million years. `UstIsOne`: the price of uusd is the chain's rate of
uusd in uusd, as `setupOracle` configures it, or fixed at one, as the script
`oracle_spot_and_twap.ts` does, and no owner replaces it. The attempt at
this proof corrected the property: its lower bound used to be the least
price of the window less one unit of a cumulative price, but what is added in each
second is already cut to the places of a cumulative price, so that the bound is the
least price *with no more places than these* (`Coarse`), less that unit.

**Refunds and distributions** (`PayoutProofs`).

| theorem | of | argument |
|---|---|---|
| `ClosureCorrect`, `SupplyStaysHeld` | `ClosureInv`, `SupplyIsHeld` | every step of a maToken moves an entry and the supply together; a refund does so for a whole page |
| `RefundsStayFair` | `RefundsAreFair` | `LeftIsFair`, by the places of the page: what is left after the first i accounts is, per maToken, at least what was there, so each of the next ones gets at least its share; the refunds add up to what they take (`RefundsAddUp`) |
| `WaitingStaysSafe` | `WaitingIsSafe` | the same, at the end of the page; what it cost is what it paid and the taxes on it (`CostIsTaxed`) |
| `DistributionsFit` | `DistributionFits` | `FeesAreValid`: neither the owner nor a proposal ever leaves the collector with shares above one; an amount net of tax and the tax on it cost no more than the amount (`NetOfTax`), for every rate and cap |
| `RewardsGoToTheirShares` | `RewardsAreShared` | `FundsInv`: balances are amounts, and the address of a recipient is its own, one the council may set, or none; three addresses apart from each other receive three parts that add up to the amount (`PartsAddUp`), and no other step gives anything to staking's |
| `DoneIsHandedOver` | `HandedOver` | `ScriptInv`: what the transactions before the next one have made (contracts and their owners, settings, markets); where each transaction of the script is, for any lists of markets and strategies (`ScriptLayout`); what each does to what was made (`TransactionMakes`); and that nobody else takes any of it away while the script runs |

`RewardsGoToTheirShares` has the hypothesis `OwnersDoNotReceive`: no later owner of a
fund has the address of a recipient. Were the council to make the owner of a fund
the recipient of staking's part, what that owner has the fund pay it would look
like a part of a distribution.

`WaitingStaysSafe` holds whatever the tax, since the property says who bears it:
the shares of a page are computed without it (`contract.rs:65` of the closure),
so the red bank pays it on top, out of what is left for the later pages, and of
nothing else (`CostIsTaxed`). The last page can be refunded only where its taxes
are nothing, which is why `RefundsStayFair` needs no hypothesis about them either.

The attempts at the proofs of the red bank changed two of its properties.
`LiquidationIsFair` left out that what is repaid when all collateral is taken is
rounded down to units of the debt asset, which may be worth many uusd, and once
more by the bonus. `UsersKeepPositionsHealthy` had a slack chosen for its instance
which it granted to every step; it is now a function of the price and the index of
the asset drawn on, and steps that draw on none have no slack.

How the proofs are made:

- *Sums* are defined by the cardinality of a set of units (`LedgerSums`) instead
  of by recursion, so that what the provers know of finite sets applies; the
  operations need what a total is after one entry changed (`TotalUpdate`).
- *Induction*: the library's induction theorems take an operator as a parameter,
  which the provers cannot instantiate. Where a recursive function over blocks or
  over the places of a page is involved (`AfterSlashes`, `Remaining`) the argument
  is by the least counterexample: the set of places where the claim fails, if it
  is not empty, has a least element (`LeastOfSome`), and that the claim holds just
  before it contradicts that it fails there. The existence of such a function is
  shown in the same way.
- `CommonProofs` has the arithmetic of truncated division, the totals, the
  histories of snapshots and the order that `Retained` keeps.

### What is model-checked only

- `Solvent`: not true of the red bank, see "Divergences found". What a
  transaction may take from the depositors is proved (`DepositorsStayWhole`); that
  the deposits stay covered for good is not a consequence, since each repayment
  and each refresh after some time adds a rounding, and a market's life has no
  bound on their number. The run says that they do not add up to a unit there.
- `PageIsRefunded`, `EveryoneIsRefunded`, `GetsDone`: liveness is out of the
  prover's reach, and so is that an action is enabled.
- What `PriceThrough` computes for every chain of sources, other than the two deep
  that shares of a pool with an average need.

## What is assumed

- `CollateralIsHeld` is checked for indexes of at most `ScalingFactor` times
  `One`, which for the code means an index of a million; beyond, a scaled unit is
  worth more than a unit and the code's comparison of truncated amounts may clear
  a bit too early. The converse is not demanded: a user may hold maTokens that are
  not collateral.
- `MaxMars <= One` in `Staking`: amounts of MARS are below the precision of a
  `Decimal` (10^15 against 10^18). The slash percentage is rounded with that
  precision, and a contract that held more could reserve more than it holds.
- The council leaves the owners of the contracts alone until the script is done,
  and an update of the address provider names no empty address.
- `RewardsAreShared` is about assets without a tax, recipients with three
  different addresses, none of them the collector's or the council's.
- `AveragesWithinWindow` is about cumulative prices that wrap at most once within
  a window, and uusd configured to be worth one (`WindowsFit`, `UstIsOne`).
- External programs: Astroport's swaps (a receipt of MARS in `Staking`, any amount
  or a refusal in `RewardsCollector`), its pairs and the hubs of staked Luna
  (`Oracle`), and what a council message does to another contract (it succeeds
  and changes nothing in the council). The recipient of `TransferMars` is not the
  staking contract.
- The red bank is checked against prices that change arbitrarily within a finite
  set, which includes whatever the oracle does with them.

## Not modelled

- *Messages, errors, helpers*: serialization other than that of Decimals,
  validation of addresses and denominations, error texts, events. Messages are
  the parameters of the actions; an error is a step that does not exist.
- *Test support and test scripts*: they are not part of the running system.
- *`whitelist.ts`* (one message per entry), the uploads of code, the initial
  parameters and the chain's admins of each contract, which can migrate its code.
- The number of markets and the 128 bits of a user's flags: one guard, for which
  the instances would need as many markets as bits. The width of integers: the
  code is compiled with checked arithmetic and an overflow aborts the transaction.
- How many and which coins accompany a message, and refunds of what is left of a
  repayment to the sender's wallet; users' wallets are modelled where a property
  needs them (`Closure`). Native transfer taxes are in `Closure` and
  `RewardsCollector`, not in `RedBank`, where they only lower what a user
  receives.
- Marketing data of the tokens, pagination of queries other than `AllAccounts`,
  the texts and links of proposals.

## Plan

The core came first because it holds the users' funds: fixed point, interest,
red bank with its maTokens, incentives, xMARS, staking, vesting, council, the
abstract voting power. Then what surrounds it: allowances, the oracle, the
closure, taxes, the collector, the address provider and the deployment. The
proofs followed in the same order. What is left:

1. `RedBank`: what the roundings of a market's life add up to, as a function of
   the number of its transactions.
2. Abstract specifications worth adding: an ideal incentives contract that
   accrues every user at every instant, implemented by `Incentives` up to
   rounding; a staking pool of shares, implemented by `Staking`; `Council` over
   `Staking` and `Vesting` side by side, with both powers added up.

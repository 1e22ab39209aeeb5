------------------------------ MODULE RedBank -------------------------------
(***************************************************************************)
(* The red bank, the money market of the protocol, with the maToken        *)
(* ledgers it mints, burns and finalizes transfers of.                     *)
(*                                                                         *)
(* A message and all the messages it sends form one transaction: either    *)
(* every handler of it succeeds, and the transaction is one step here, or  *)
(* nothing of it remains, and the step does not exist.  Balances a handler *)
(* queries are those before the messages it sends.  Scaled amounts, the    *)
(* two indexes, and the directions in which the code rounds are kept.      *)
(*                                                                         *)
(* The tokens in the wallets of the users, the fees of native transfers    *)
(* and the allowances of the maTokens are left out.  A debt record that    *)
(* was never stored reads as a debt of zero, which every handler refuses   *)
(* or treats in the same way.                                              *)
(***************************************************************************)
EXTENDS InterestRateModels, LedgerSums

CONSTANTS
  Addresses,        \* the accounts, users and contracts alike
  Collector,        \* the protocol rewards collector
  Assets,           \* the assets that may get a market
  ScalingFactor,    \* SCALING_FACTOR, the extra precision of scaled amounts
  SecondsPerYear,   \* SECONDS_PER_YEAR, the time unit of the rates
  AssetParams,      \* AssetParams[a]: the parameters the owner may give to a
  CloseFactors,     \* the close factors the owner may set
  Limits,           \* the uncollateralized loan limits the owner may grant
  Prices,           \* Prices[a]: the prices the oracle may report for a
  Amounts,          \* the amounts users send with a message or ask for
  NoMarket,         \* the absence of a market
  MaxSupply,        \* bound: the maTokens of an asset deposits may create
  MaxCash,          \* bound: the cash deposits, repayments and liquidators add up to
  MaxTime,          \* bound: the block time
  MaxTxs            \* bound: the updates a dynamic model may skip in a row

\* What the owner may give with InitAsset and UpdateAsset.
Params ==
  [max_loan_to_value : Nat, liquidation_threshold : Nat, liquidation_bonus : Nat,
   reserve_factor : Nat, interest_rate_model : Models, active : BOOLEAN,
   deposit_enabled : BOOLEAN, borrow_enabled : BOOLEAN, initial_borrow_rate : Nat]

Markets ==
  [max_loan_to_value : Nat, liquidation_threshold : Nat, liquidation_bonus : Nat,
   reserve_factor : Nat, interest_rate_model : Models, active : BOOLEAN,
   deposit_enabled : BOOLEAN, borrow_enabled : BOOLEAN, borrow_rate : Nat,
   liquidity_rate : Nat, borrow_index : Nat, liquidity_index : Nat,
   indexes_last_updated : Nat, debt_total_scaled : Nat]

ASSUME RedBankAssumptions ==
  /\ IsFiniteSet(Addresses) /\ Collector \in Addresses /\ IsFiniteSet(Assets)
  /\ ScalingFactor \in Nat \ {0} /\ SecondsPerYear \in Nat \ {0}
  /\ CloseFactors \subseteq Nat /\ CloseFactors # {}
  /\ Limits \subseteq Nat /\ Amounts \subseteq Nat
  /\ MaxSupply \in Nat /\ MaxCash \in Nat /\ MaxTime \in Nat /\ MaxTxs \in Nat
  /\ NoMarket \notin Markets
  /\ AssetParams \in [Assets -> SUBSET Params]
  /\ Prices \in [Assets -> SUBSET Nat]
  /\ \A a \in Assets : Prices[a] # {} /\ 0 \notin Prices[a]

VARIABLES
  markets,          \* MARKETS: the market of an asset, or NoMarket
  known,            \* the addresses that have a record in USERS
  collateral,       \* User.collateral_assets: the assets flagged as collateral
  borrowed,         \* User.borrowed_assets: the assets flagged as borrowed
  debts,            \* DEBTS.amount_scaled, by asset and address
  uncollateralized, \* DEBTS.uncollateralized: the addresses marked, by asset
  limits,           \* UNCOLLATERALIZED_LOAN_LIMITS, by asset and address
  closeFactor,      \* CONFIG.close_factor
  maTokens,         \* the balances of the maToken of an asset
  cash,             \* the balance of the red bank itself in an asset
  price,            \* what the oracle reports for an asset
  now               \* the block time

position == <<known, collateral, borrowed>>
vars == <<markets, position, debts, uncollateralized, limits, closeFactor,
          maTokens, cash, price, now>>

Listed(a) == markets[a] # NoMarket

\* The maToken of a listed asset has called the red bank back in the transaction
\* that listed it, and is known as that market's from then on.
Registered(a) == Listed(a)

-----------------------------------------------------------------------------
(* Interest: indexes, scaled amounts and the refresh of a market. *)

\* calculate_applied_linear_interest_rate
AppliedInterest(index, rate, elapsed) ==
  Mul(index, One + Mul(rate, FromRatio(elapsed, SecondsPerYear)))

UpdatedIndex(m, index, rate) ==
  IF m.indexes_last_updated < now /\ rate > 0
  THEN AppliedInterest(index, rate, now - m.indexes_last_updated)
  ELSE index

BorrowIndex(m) == UpdatedIndex(m, m.borrow_index, m.borrow_rate)
LiquidityIndex(m) == UpdatedIndex(m, m.liquidity_index, m.liquidity_rate)

(* The variants that come before the definitions below are mistakes the runs  *)
(* refute; the specification uses none of them.                               *)

\* For ScaledDebt: a debt recorded with the rounding of a deposit.
ScaledDebtTruncated(amount, m) == Div(amount * ScalingFactor, BorrowIndex(m))

\* Deposits are truncated and debts rounded up, in both directions.
ScaledAmount(amount, index, operation) ==
  CASE operation = "truncate" -> Div(amount * ScalingFactor, index)
    [] operation = "ceil"     -> DivCeil(amount * ScalingFactor, index)

ScaledLiquidity(amount, m) == ScaledAmount(amount, LiquidityIndex(m), "truncate")
UnderlyingLiquidity(scaled, m) == Mul(scaled, LiquidityIndex(m)) \div ScalingFactor
ScaledDebt(amount, m) == ScaledAmount(amount, BorrowIndex(m), "ceil")
UnderlyingDebtAt(scaled, index) == CeilDiv(Mul(scaled, index), ScalingFactor)
UnderlyingDebt(scaled, m) == UnderlyingDebtAt(scaled, BorrowIndex(m))

\* For Accrue: interest that stays to be accrued again.
AccrueUndated(m) ==
  [m EXCEPT !.borrow_index = BorrowIndex(m), !.liquidity_index = LiquidityIndex(m)]

\* apply_accumulated_interests: the market with both indexes brought to now ...
Accrue(m) ==
  [m EXCEPT !.borrow_index = BorrowIndex(m),
            !.liquidity_index = LiquidityIndex(m),
            !.indexes_last_updated = now]

\* ... and the share of the interest that becomes protocol rewards, in
\* underlying and in the maTokens minted for it.
AccruedRewards(m) ==
  LET before == UnderlyingDebtAt(m.debt_total_scaled, m.borrow_index)
      after  == UnderlyingDebt(m.debt_total_scaled, m)
  IN  Mul(IF after > before THEN after - before ELSE 0, m.reserve_factor)
RewardsMint(m) == ScaledLiquidity(AccruedRewards(m), m)

\* The maToken refuses to mint nothing, and one() - reserve_factor must not
\* underflow: otherwise no operation of the market can be executed.
CanMintRewards(m) == AccruedRewards(m) > 0 => RewardsMint(m) > 0
WithinMaxTxs(model) ==
  model.kind = "dynamic" => model.txs_since_last_borrow_rate_update < MaxTxs
CanRefresh(m) ==
  /\ CanMintRewards(m)
  /\ m.reserve_factor <= One
  /\ WithinMaxTxs(m.interest_rate_model)

\* For UtilizationRate: the debt relative to what is left, not to the whole.
UtilizationOfAvailable(m, available) ==
  IF available = 0 THEN 0
  ELSE FromRatio(UnderlyingDebt(m.debt_total_scaled, m), available)

UtilizationRate(m, available) ==
  LET debt == UnderlyingDebt(m.debt_total_scaled, m)
  IN  IF debt = 0 THEN 0 ELSE FromRatio(debt, available + debt)

UpdateInterestRates(m, available) ==
  UpdateMarketInterestRatesWithModel(m, UtilizationRate(m, available), now)

\* For Refresh: a debt that changes without its total.
RefreshIgnoringDebt(m, debtTotal, available) == UpdateInterestRates(Accrue(m), available)

\* What every operation does to a market: accrue the interest, set the debt
\* total, and compute the rates for the liquidity that stays available.
Refresh(m, debtTotal, available) ==
  UpdateInterestRates([Accrue(m) EXCEPT !.debt_total_scaled = debtTotal], available)

WithRewards(ledger, m) == Credit(ledger, Collector, RewardsMint(m))

\* For Flag and KnownWith: a bit that is toggled, a record that is not saved.
Toggle(flags, u, a) ==
  [flags EXCEPT ![u] = IF a \in @ THEN @ \ {a} ELSE @ \cup {a}]
KnownWithout(us) == known

\* The bits of a user record, and the records that exist once us are saved.
Flag(flags, u, a) == [flags EXCEPT ![u] = @ \cup {a}]
Unflag(flags, u, a) == [flags EXCEPT ![u] = @ \ {a}]
KnownWith(us) == known \cup us

-----------------------------------------------------------------------------
(* Positions, in the uusd of the oracle. *)

CollateralValue(u, a, ledgers) ==
  Mul(UnderlyingLiquidity(ledgers[a][u], markets[a]), price[a])
DebtValue(u, a) == Mul(UnderlyingDebt(debts[a][u], markets[a]), price[a])

MaxDebt(u) ==
  Total([a \in collateral[u] |->
           Mul(CollateralValue(u, a, maTokens), markets[a].max_loan_to_value)],
        collateral[u])
WeightedThreshold(u, flagged, ledgers) ==
  Total([a \in flagged |->
           Mul(CollateralValue(u, a, ledgers), markets[a].liquidation_threshold)],
        flagged)
DebtOf(u, owed) == Total([a \in owed |-> DebtValue(u, a)], owed)
TotalDebt(u) == DebtOf(u, borrowed[u])
CollateralizedDebt(u) == DebtOf(u, {a \in borrowed[u] : u \notin uncollateralized[a]})

\* A position has the price of the assets it looks at and of no other.
HasPrice(u, a) == a \in collateral[u] \cup borrowed[u]

\* The health factor is at least one, or there is no collateralized debt.
HealthyWith(u, flagged, ledgers) ==
  LET debt == CollateralizedDebt(u)
  IN  debt > 0 => FromRatio(WeightedThreshold(u, flagged, ledgers), debt) >= One
Healthy(u) == HealthyWith(u, collateral[u], maTokens)

-----------------------------------------------------------------------------
(* The owner and the environment. *)

ValidParams(p) ==
  /\ AtMostOne(p.max_loan_to_value)
  /\ AtMostOne(p.liquidation_threshold)
  /\ AtMostOne(p.liquidation_bonus)
  /\ p.liquidation_threshold > p.max_loan_to_value

WithTime(model) ==
  IF model.kind = "linear" THEN model
  ELSE [model EXCEPT !.txs_since_last_borrow_rate_update = 0,
                     !.borrow_rate_last_updated = now]

CreateMarket(p) ==
  [max_loan_to_value     |-> p.max_loan_to_value,
   liquidation_threshold |-> p.liquidation_threshold,
   liquidation_bonus     |-> p.liquidation_bonus,
   reserve_factor        |-> p.reserve_factor,
   interest_rate_model   |-> WithTime(p.interest_rate_model),
   active                |-> p.active,
   deposit_enabled       |-> p.deposit_enabled,
   borrow_enabled        |-> p.borrow_enabled,
   borrow_rate           |-> p.initial_borrow_rate,
   liquidity_rate        |-> 0,
   borrow_index          |-> One,
   liquidity_index       |-> One,
   indexes_last_updated  |-> now,
   debt_total_scaled     |-> 0]

\* The owner lists an asset; the maToken it instantiates registers itself by
\* the callback in the same transaction.
InitAsset(a) ==
  /\ ~Listed(a)
  /\ \E p \in AssetParams[a] :
       /\ ValidParams(p) /\ ValidModel(p.interest_rate_model)
       /\ markets' = [markets EXCEPT ![a] = CreateMarket(p)]
  /\ UNCHANGED <<position, debts, uncollateralized, limits, closeFactor,
                 maTokens, cash, price, now>>

\* The owner changes the parameters of a market.  Interest accrues under the
\* old ones first, when the reserve factor or the model changes.
Reprices(m, p, replaceModel) == replaceModel \/ p.reserve_factor # m.reserve_factor
Amended(m, p, replaceModel) ==
  LET accrued == IF Reprices(m, p, replaceModel) THEN Accrue(m) ELSE m
  IN  [accrued EXCEPT
         !.max_loan_to_value = p.max_loan_to_value,
         !.liquidation_threshold = p.liquidation_threshold,
         !.liquidation_bonus = p.liquidation_bonus,
         !.reserve_factor = p.reserve_factor,
         !.active = p.active,
         !.deposit_enabled = p.deposit_enabled,
         !.borrow_enabled = p.borrow_enabled,
         !.interest_rate_model =
            IF replaceModel THEN WithTime(p.interest_rate_model) ELSE @]

UpdateAssetTo(a, p, replaceModel) ==
  LET m       == markets[a]
      updated == Amended(m, p, replaceModel)
  IN  /\ ValidParams(p) /\ ValidModel(p.interest_rate_model)
      /\ IF Reprices(m, p, replaceModel)
         THEN /\ CanMintRewards(m) /\ p.reserve_factor <= One
              /\ WithinMaxTxs(updated.interest_rate_model)
              /\ markets' = [markets EXCEPT ![a] = UpdateInterestRates(updated, cash[a])]
              /\ maTokens' = [maTokens EXCEPT ![a] = WithRewards(@, m)]
         ELSE /\ markets' = [markets EXCEPT ![a] = updated]
              /\ UNCHANGED maTokens

UpdateAsset(a) ==
  /\ Listed(a)
  /\ \E p \in AssetParams[a], replaceModel \in BOOLEAN : UpdateAssetTo(a, p, replaceModel)
  /\ UNCHANGED <<position, debts, uncollateralized, limits, closeFactor,
                 cash, price, now>>

\* For Marked: a revoked limit leaves the marker.
MarkedForGood(marked, u, limit) == marked \cup {u}

\* Debt.uncollateralized follows the limit.
Marked(marked, u, limit) == IF limit = 0 THEN marked \ {u} ELSE marked \cup {u}

\* The owner sets the limit up to which an address may borrow an asset without
\* collateral, never while it owes that asset under the ordinary terms.
UpdateUncollateralizedLoanLimit(u, a) ==
  /\ u \in known /\ limits[a][u] = 0 => Listed(a) /\ a \notin borrowed[u]
  /\ \E limit \in Limits :
       /\ limits' = [limits EXCEPT ![a][u] = limit]
       /\ uncollateralized' = [uncollateralized EXCEPT ![a] = Marked(@, u, limit)]
  /\ UNCHANGED <<markets, position, debts, closeFactor, maTokens, cash, price, now>>

\* Config::validate
ValidCloseFactors == {f \in CloseFactors : AtMostOne(f)}

\* The owner sets another close factor.
UpdateConfig ==
  /\ closeFactor' \in ValidCloseFactors
  /\ UNCHANGED <<markets, position, debts, uncollateralized, limits, maTokens,
                 cash, price, now>>

\* The oracle reports another price.
PriceChange(a) ==
  /\ \E p \in Prices[a] : price' = [price EXCEPT ![a] = p]
  /\ UNCHANGED <<markets, position, debts, uncollateralized, limits, closeFactor,
                 maTokens, cash, now>>

\* Block time passes.
Tick ==
  /\ now < MaxTime
  /\ now' = now + 1
  /\ UNCHANGED <<markets, position, debts, uncollateralized, limits, closeFactor,
                 maTokens, cash, price>>

-----------------------------------------------------------------------------
(* The users. *)

\* An amount of asset a, already received, is deposited on behalf of u.
Deposit(u, a, amount) ==
  LET m    == markets[a]
      mint == ScaledLiquidity(amount, m)
  IN  /\ Listed(a) /\ m.active /\ m.deposit_enabled
      /\ amount > 0
      /\ CanRefresh(m) /\ mint > 0
      /\ Total(maTokens[a], Addresses) + mint <= MaxSupply
      /\ cash[a] + amount <= MaxCash
      /\ collateral' = Flag(collateral, u, a)
      /\ known' = KnownWith({u})
      /\ cash' = [cash EXCEPT ![a] = @ + amount]
      /\ markets' = [markets EXCEPT ![a] = Refresh(m, m.debt_total_scaled, cash'[a])]
      /\ maTokens' = [maTokens EXCEPT ![a] = Credit(WithRewards(@, m), u, mint)]
      /\ UNCHANGED <<borrowed, debts, uncollateralized, limits, closeFactor, price, now>>

\* For StaysHealthyAfterWithdraw: the health factor before the withdrawal.
IsHealthyBeforeWithdraw(u, a, amount) == Healthy(u)

\* The health check of a withdrawal works on the position before it, less the
\* value of what is withdrawn; without collateralized debt it divides by zero.
StaysHealthyAfterWithdraw(u, a, amount) ==
  LET removed == Mul(Mul(amount, price[a]), markets[a].liquidation_threshold)
      before  == WeightedThreshold(u, collateral[u], maTokens)
      debt    == CollateralizedDebt(u)
  IN  /\ debt > 0
      /\ before >= removed
      /\ FromRatio(before - removed, debt) >= One

\* u burns maTokens for an amount of the underlying asset.
Withdraw(u, a, amount) ==
  LET m       == markets[a]
      balance == UnderlyingLiquidity(maTokens[a][u], m)
      burn    == maTokens[a][u] - ScaledLiquidity(balance - amount, m)
  IN  /\ Listed(a) /\ m.active
      /\ amount > 0 /\ amount <= balance
      /\ u \in known \cup {Collector}
      /\ a \in collateral[u] /\ borrowed[u] # {} => StaysHealthyAfterWithdraw(u, a, amount)
      /\ CanRefresh(m) /\ cash[a] >= amount /\ burn > 0
      /\ collateral' = IF amount = balance THEN Unflag(collateral, u, a) ELSE collateral
      /\ cash' = [cash EXCEPT ![a] = @ - amount]
      /\ markets' = [markets EXCEPT ![a] = Refresh(m, m.debt_total_scaled, cash'[a])]
      /\ maTokens' = [maTokens EXCEPT ![a] = WithRewards(Debit(@, u, burn), m)]
      /\ UNCHANGED <<known, borrowed, debts, uncollateralized, limits, closeFactor,
                     price, now>>

\* A debt is covered by the collateral at the loan to value of its assets, or
\* by the uncollateralized loan limit.
MayBorrow(u, a, amount) ==
  IF limits[a][u] = 0
  THEN u \in known /\ TotalDebt(u) + Mul(amount, price[a]) <= MaxDebt(u)
  ELSE UnderlyingDebt(debts[a][u], markets[a]) + amount <= limits[a][u]

\* u borrows an amount, which is sent to whom it names.
Borrow(u, a, amount) ==
  LET m      == markets[a]
      scaled == ScaledDebt(amount, m)
  IN  /\ Listed(a) /\ m.active /\ m.borrow_enabled
      /\ amount > 0
      /\ MayBorrow(u, a, amount)
      /\ CanRefresh(m) /\ cash[a] >= amount
      /\ borrowed' = Flag(borrowed, u, a)
      /\ known' = KnownWith({u})
      /\ debts' = [debts EXCEPT ![a][u] = @ + scaled]
      /\ cash' = [cash EXCEPT ![a] = @ - amount]
      /\ markets' = [markets EXCEPT ![a] =
                       Refresh(m, m.debt_total_scaled + scaled, cash'[a])]
      /\ maTokens' = [maTokens EXCEPT ![a] = WithRewards(@, m)]
      /\ UNCHANGED <<collateral, uncollateralized, limits, closeFactor, price, now>>

\* An amount, already received from the sender, repays the debt of u; what
\* exceeds the debt is sent to u.  The rates are computed before the refund.
Repay(sender, u, a, amount) ==
  LET m      == markets[a]
      owed   == UnderlyingDebt(debts[a][u], m)
      repaid == SmallerOf(amount, owed)
      after  == ScaledDebt(owed - repaid, m)
  IN  /\ sender # u => limits[a][u] = 0
      /\ Listed(a) /\ m.active
      /\ amount > 0 /\ debts[a][u] > 0
      /\ cash[a] + repaid <= MaxCash
      /\ CanRefresh(m)
      /\ debts[a][u] >= after
      /\ m.debt_total_scaled >= debts[a][u] - after
      /\ after = 0 => u \in known
      /\ debts' = [debts EXCEPT ![a][u] = after]
      /\ borrowed' = IF after = 0 THEN Unflag(borrowed, u, a) ELSE borrowed
      /\ cash' = [cash EXCEPT ![a] = @ + repaid]
      /\ markets' = [markets EXCEPT ![a] =
           Refresh(m, m.debt_total_scaled - (debts[a][u] - after), cash[a] + amount)]
      /\ maTokens' = [maTokens EXCEPT ![a] = WithRewards(@, m)]
      /\ UNCHANGED <<known, collateral, uncollateralized, limits, closeFactor, price, now>>

\* For Repayable: the whole debt at once.
RepayableInFull(sent, debt) == SmallerOf(sent, debt)

\* The share of a debt one liquidation may repay.
Repayable(sent, debt) == SmallerOf(sent, Mul(debt, closeFactor))

\* liquidation_compute_amounts: what is repaid of the debt, at most the close
\* factor's share of it, and what is seized of the collateral for it, at most
\* all of it.
LiquidationAmounts(u, collateralAsset, debtAsset, sent) ==
  LET debt     == UnderlyingDebt(debts[debtAsset][u], markets[debtAsset])
      balance  == UnderlyingLiquidity(maTokens[collateralAsset][u],
                                      markets[collateralAsset])
      withBonus == One + markets[collateralAsset].liquidation_bonus
      repay    == Repayable(sent, debt)
      seize    == Div(Mul(Mul(repay, price[debtAsset]), withBonus),
                      price[collateralAsset])
  IN  IF seize <= balance THEN [repay |-> repay, seize |-> seize]
      ELSE [repay |-> Div(Div(Mul(balance, price[collateralAsset]),
                              price[debtAsset]), withBonus),
            seize |-> balance]

\* u owes the debt asset, holds the other as collateral, and has no loan limit
\* and no healthy position to protect it.
Liquidatable(u, collateralAsset, debtAsset) ==
  /\ limits[debtAsset][u] = 0
  /\ Listed(collateralAsset) /\ markets[collateralAsset].active
  /\ u \in known /\ collateralAsset \in collateral[u]
  /\ UnderlyingLiquidity(maTokens[collateralAsset][u], markets[collateralAsset]) > 0
  /\ Listed(debtAsset) /\ debts[debtAsset][u] > 0
  /\ ~Healthy(u)
  /\ markets[debtAsset].active
  /\ HasPrice(u, collateralAsset) /\ HasPrice(u, debtAsset)

\* The liquidator takes the collateral as maTokens, or has them burnt for the
\* underlying asset: in both cases the truncated scaled amount.
TransferOnLiquidation(ledger, u, liquidator, seized) ==
  Credit(Debit(ledger, u, seized), liquidator, seized)
BurnOnLiquidation(ledger, u, seized) == Debit(ledger, u, seized)

\* For WhollySeized: the bit of collateral that is gone stays.
NeverSeized(seize, balance) == FALSE

\* Whether the collateral is gone, and its bit with it: the underlying amounts are
\* compared, not the maTokens.
WhollySeized(seize, balance) == seize = balance

\* For DebtAfterLiquidation: the rest is truncated.
DebtTruncatedAfterLiquidation(u, debtAsset, repaid) ==
  LET owed == UnderlyingDebt(debts[debtAsset][u], markets[debtAsset])
  IN  ScaledDebtTruncated(owed - repaid, markets[debtAsset])

\* What is left of the debt: the rest is recorded anew, rounded up.
DebtAfterLiquidation(u, debtAsset, repaid) ==
  LET owed == UnderlyingDebt(debts[debtAsset][u], markets[debtAsset])
  IN  ScaledDebt(owed - repaid, markets[debtAsset])

\* The liquidity left for the rates of both markets, once the liquidator got
\* its excess back and, unless it takes maTokens, the collateral.
CashAfterLiquidation(collateralAsset, debtAsset, repaid, paidOut) ==
  [a \in Assets |-> cash[a] + (IF a = debtAsset THEN repaid ELSE 0)
                            - (IF a = collateralAsset THEN paidOut ELSE 0)]

\* A liquidator repays part of the debt of an unhealthy position and takes
\* collateral for it, as maTokens or as the underlying asset.  What it sent in
\* excess returns to it.
Liquidate(liquidator, u, collateralAsset, debtAsset, sent, receiveMaToken) ==
  LET collMarket == markets[collateralAsset]
      debtMarket == markets[debtAsset]
      balance    == UnderlyingLiquidity(maTokens[collateralAsset][u], collMarket)
      amounts    == LiquidationAmounts(u, collateralAsset, debtAsset, sent)
      seized     == ScaledLiquidity(amounts.seize, collMarket)
      owed       == UnderlyingDebt(debts[debtAsset][u], debtMarket)
      after      == DebtAfterLiquidation(u, debtAsset, amounts.repay)
      debtTotal  == debtMarket.debt_total_scaled - (debts[debtAsset][u] - after)
      paidOut    == IF receiveMaToken THEN 0 ELSE amounts.seize
      moved      == IF receiveMaToken
                    THEN TransferOnLiquidation(maTokens[collateralAsset], u,
                                               liquidator, seized)
                    ELSE BurnOnLiquidation(maTokens[collateralAsset], u, seized)
      cashAfter  == CashAfterLiquidation(collateralAsset, debtAsset, amounts.repay, paidOut)
      \* the collateral market is only refreshed when its liquidity changes
      refreshed  == {debtAsset} \cup (IF receiveMaToken THEN {} ELSE {collateralAsset})
  IN  /\ sent > 0
      /\ Liquidatable(u, collateralAsset, debtAsset)
      /\ amounts.repay <= SmallerOf(sent, owed)
      /\ seized > 0 /\ seized <= maTokens[collateralAsset][u]
      /\ receiveMaToken => liquidator # u
      /\ cash[collateralAsset] + (IF collateralAsset = debtAsset THEN sent ELSE 0) >= paidOut
      /\ \A a \in refreshed : CanRefresh(markets[a]) /\ cashAfter[a] >= 0
      /\ cashAfter[debtAsset] <= MaxCash
      /\ after <= debts[debtAsset][u]
      /\ debtTotal >= 0
      /\ debts' = [debts EXCEPT ![debtAsset][u] = after]
      /\ markets' = [a \in Assets |->
           IF a \in refreshed
           THEN Refresh(markets[a],
                        IF a = debtAsset THEN debtTotal ELSE markets[a].debt_total_scaled,
                        cashAfter[a])
           ELSE markets[a]]
      /\ maTokens' = [a \in Assets |->
           LET ledger == IF a = collateralAsset THEN moved ELSE maTokens[a]
           IN  IF a \in refreshed THEN WithRewards(ledger, markets[a]) ELSE ledger]
      /\ cash' = cashAfter
      /\ collateral' = [v \in Addresses |->
           IF v = u /\ WhollySeized(amounts.seize, balance) THEN collateral[u] \ {collateralAsset}
           ELSE IF v = liquidator /\ receiveMaToken THEN collateral[v] \cup {collateralAsset}
           ELSE collateral[v]]
      /\ known' = IF receiveMaToken THEN KnownWith({liquidator}) ELSE known
      /\ UNCHANGED <<borrowed, uncollateralized, limits, closeFactor, price, now>>

\* u switches an asset it holds maTokens of on or off as collateral.
UpdateAssetCollateralStatus(u, a) ==
  /\ Listed(a)
  /\ \/ /\ a \notin collateral[u] /\ maTokens[a][u] > 0
        /\ collateral' = Flag(collateral, u, a)
     \/ /\ a \in collateral[u]
        /\ HealthyWith(u, collateral[u] \ {a}, maTokens)
        /\ collateral' = Unflag(collateral, u, a)
  /\ known' = KnownWith({u})
  /\ UNCHANGED <<markets, borrowed, debts, uncollateralized, limits, closeFactor,
                 maTokens, cash, price, now>>

\* maToken transfer and send: the balances move first, then the red bank
\* finalizes the transfer against the new balances and flags the collateral.
TransferMaToken(sender, recipient, a, amount) ==
  LET ledger == Credit(Debit(maTokens[a], sender, amount), recipient, amount)
      after  == [maTokens EXCEPT ![a] = ledger]
  IN  /\ Registered(a)
      /\ sender # recipient /\ amount > 0 /\ maTokens[a][sender] >= amount
      /\ sender \in known
      /\ HealthyWith(sender, collateral[sender], after)
      /\ maTokens' = after
      /\ collateral' = [v \in Addresses |->
           IF v = sender /\ maTokens[a][v] = amount THEN collateral[v] \ {a}
           ELSE IF v = recipient /\ maTokens[a][v] = 0 THEN collateral[v] \cup {a}
           ELSE collateral[v]]
      /\ known' = IF maTokens[a][recipient] = 0 THEN KnownWith({recipient}) ELSE known
      /\ UNCHANGED <<markets, borrowed, debts, uncollateralized, limits, closeFactor,
                     cash, price, now>>

-----------------------------------------------------------------------------
Init ==
  /\ markets = [a \in Assets |-> NoMarket]
  /\ known = {}
  /\ collateral = [u \in Addresses |-> {}]
  /\ borrowed = [u \in Addresses |-> {}]
  /\ debts = [a \in Assets |-> [u \in Addresses |-> 0]]
  /\ uncollateralized = [a \in Assets |-> {}]
  /\ limits = [a \in Assets |-> [u \in Addresses |-> 0]]
  /\ closeFactor \in ValidCloseFactors
  /\ maTokens = [a \in Assets |-> [u \in Addresses |-> 0]]
  /\ cash = [a \in Assets |-> 0]
  /\ price \in {p \in [Assets -> UNION {Prices[a] : a \in Assets}] :
                  \A a \in Assets : p[a] \in Prices[a]}
  /\ now = 0

\* The rewards collector only withdraws; every other address may do anything.
Users == Addresses \ {Collector}

\* A withdrawal without an amount asks for the whole balance.
WithdrawAmounts(u, a) ==
  IF Listed(a) THEN Amounts \cup {UnderlyingLiquidity(maTokens[a][u], markets[a])} ELSE {}

OwnerStep(a) ==
  \/ InitAsset(a)
  \/ UpdateAsset(a)
  \/ \E u \in Users : UpdateUncollateralizedLoanLimit(u, a)

\* ReceiveMsg, and its counterparts for the coins of the chain: what a user asks
\* for with an amount it sends along, each on behalf of, or against, a user u.
ReceiveStep(u, a, amount) ==
  \/ Deposit(u, a, amount)
  \/ \E sender \in Users : Repay(sender, u, a, amount)
  \/ \E liquidator \in Users, c \in Assets, receiveMaToken \in BOOLEAN :
       Liquidate(liquidator, u, c, a, amount, receiveMaToken)

UserStep(a) ==
  \/ \E u \in Users, amount \in Amounts :
       \/ ReceiveStep(u, a, amount)
       \/ Borrow(u, a, amount)
       \/ \E recipient \in Addresses : TransferMaToken(u, recipient, a, amount)
  \/ \E u \in Addresses : \E amount \in WithdrawAmounts(u, a) : Withdraw(u, a, amount)
  \/ \E u \in Users : UpdateAssetCollateralStatus(u, a)

Next ==
  \/ \E a \in Assets : OwnerStep(a) \/ UserStep(a) \/ PriceChange(a)
  \/ UpdateConfig
  \/ Tick

Spec == Init /\ [][Next]_vars

-----------------------------------------------------------------------------
(* What the red bank answers when it is asked. *)

QueryMarketsList == {a \in Assets : Listed(a)}

QueryConfig == [market_count |-> Cardinality(QueryMarketsList), close_factor |-> closeFactor]

QueryMarket(a) == markets[a]

QueryUncollateralizedLoanLimit(u, a) == limits[a][u]

QueryScaledLiquidityAmount(a, amount) == ScaledLiquidity(amount, markets[a])

\* For QueryScaledDebtAmount: answered from the index as it is stored.
ScaledDebtUndated(a, amount) ==
  DivCeil(amount * ScalingFactor, markets[a].borrow_index)

QueryScaledDebtAmount(a, amount) == ScaledDebt(amount, markets[a])

QueryUnderlyingLiquidityAmount(a, scaled) == UnderlyingLiquidity(scaled, markets[a])

QueryUnderlyingDebtAmount(a, scaled) == UnderlyingDebt(scaled, markets[a])

\* Of the maToken, which asks the red bank.
QueryUnderlyingAssetBalance(u, a) == QueryUnderlyingLiquidityAmount(a, maTokens[a][u])

QueryUserAssetDebt(u, a) ==
  [amount_scaled |-> debts[a][u], amount |-> UnderlyingDebt(debts[a][u], markets[a])]

\* Of every market; a debt that is not flagged is not looked up.
QueryUserDebt(u) ==
  [a \in QueryMarketsList |->
     IF a \in borrowed[u] THEN QueryUserAssetDebt(u, a)
     ELSE [amount_scaled |-> 0, amount |-> 0]]

QueryUserCollateral(u) == [a \in QueryMarketsList |-> a \in collateral[u]]

QueryUserPosition(u) ==
  [total_debt |-> TotalDebt(u),
   total_collateralized_debt |-> CollateralizedDebt(u),
   max_debt |-> MaxDebt(u),
   weighted_liquidation_threshold |-> WeightedThreshold(u, collateral[u], maTokens),
   healthy |-> Healthy(u)]

\* QueryMsg: what may be asked.  An asset that is not listed is answered with an
\* error.
Questions ==
  [ask : {"config", "markets_list"}]
  \cup [ask : {"market"}, asset : QueryMarketsList]
  \cup [ask : {"user_debt", "user_collateral", "user_position"}, user : Addresses]
  \cup [ask : {"user_asset_debt", "uncollateralized_loan_limit"},
        user : Addresses, asset : QueryMarketsList]
  \cup [ask : {"scaled_liquidity_amount", "scaled_debt_amount"},
        asset : QueryMarketsList, amount : Nat]
  \cup [ask : {"underlying_liquidity_amount", "underlying_debt_amount"},
        asset : QueryMarketsList, amount_scaled : Nat]

Answer(q) ==
  CASE q.ask = "config"          -> QueryConfig
    [] q.ask = "market"          -> QueryMarket(q.asset)
    [] q.ask = "markets_list"    -> QueryMarketsList
    [] q.ask = "user_debt"       -> QueryUserDebt(q.user)
    [] q.ask = "user_asset_debt" -> QueryUserAssetDebt(q.user, q.asset)
    [] q.ask = "user_collateral" -> QueryUserCollateral(q.user)
    [] q.ask = "uncollateralized_loan_limit" ->
         QueryUncollateralizedLoanLimit(q.user, q.asset)
    [] q.ask = "scaled_liquidity_amount" -> QueryScaledLiquidityAmount(q.asset, q.amount)
    [] q.ask = "scaled_debt_amount"      -> QueryScaledDebtAmount(q.asset, q.amount)
    [] q.ask = "underlying_liquidity_amount" ->
         QueryUnderlyingLiquidityAmount(q.asset, q.amount_scaled)
    [] q.ask = "underlying_debt_amount" ->
         QueryUnderlyingDebtAmount(q.asset, q.amount_scaled)
    [] q.ask = "user_position"   -> QueryUserPosition(q.user)

-----------------------------------------------------------------------------
(* Properties. *)

\* Every stored amount is a natural number (a Uint128 in the code: a step that
\* would make one negative aborts), every flag names an asset.
TypeOK ==
  /\ markets \in [Assets -> Markets \cup {NoMarket}]
  /\ known \subseteq Addresses
  /\ collateral \in [Addresses -> SUBSET Assets]
  /\ borrowed \in [Addresses -> SUBSET Assets]
  /\ debts \in [Assets -> [Addresses -> Nat]]
  /\ uncollateralized \in [Assets -> SUBSET Addresses]
  /\ limits \in [Assets -> [Addresses -> Nat]]
  /\ maTokens \in [Assets -> [Addresses -> Nat]]
  /\ cash \in [Assets -> Nat]
  /\ price \in [Assets -> Nat \ {0}]
  /\ closeFactor \in 0 .. One
  /\ now \in Nat

\* The total the interest is computed on is the sum of what the users owe:
\* borrow, repay and liquidate keep debt_total_scaled and DEBTS in step.
DebtTotalIsSum ==
  \A a \in Assets : Listed(a) => markets[a].debt_total_scaled = Total(debts[a], Addresses)

\* No debt escapes the health factor: whoever owes an asset has it flagged in
\* borrowed_assets, which is all get_user_position looks at.
DebtIsFlagged ==
  \A a \in Assets, u \in Addresses : debts[a][u] > 0 => a \in borrowed[u]

\* The marker that takes a debt out of the health factor is set exactly while
\* its owner has a loan limit, so such a debt is always bounded by one.
MarkerMatchesLimit ==
  \A a \in Assets, u \in Addresses : u \in uncollateralized[a] <=> limits[a][u] > 0

\* Whoever holds maTokens has a user record, the rewards collector excepted:
\* what the comment in execute_withdraw relies on.
HolderIsKnown ==
  \A a \in Assets, u \in Addresses : maTokens[a][u] > 0 => u \in known \cup {Collector}

\* A flagged collateral is there: no bit outlives the maTokens it stands for.
CollateralIsHeld ==
  \A u \in Addresses : \A a \in QueryMarketsList :
    QueryUserCollateral(u)[a] => maTokens[a][u] > 0

\* The red bank can meet the depositors: what it holds, and what its borrowers
\* are told they owe, covers what all maTokens are said to be worth.
Owed(a) == Total([u \in Addresses |-> QueryUserDebt(u)[a].amount], Addresses)
Deposited(a) ==
  Total([u \in Addresses |-> QueryUnderlyingAssetBalance(u, a)], Addresses)
Solvent == \A a \in QueryMarketsList : Deposited(a) <= cash[a] + Owed(a)

\* Depositors never earn more than borrowers pay: the liquidity index stays
\* below the borrow index.
DepositsEarnLess ==
  \A a \in Assets : Listed(a) => LiquidityIndex(markets[a]) <= BorrowIndex(markets[a])

\* What a deposit is worth and what a debt amounts to change with time only, and
\* never fall: an operation brings the indexes to the present before it sets
\* new rates, as the warning on apply_accumulated_interests demands.
ValuesMoveOnlyWithTime ==
  [][ \A a \in Assets : Listed(a) =>
        IF now' = now
        THEN /\ BorrowIndex(markets[a])' = BorrowIndex(markets[a])
             /\ LiquidityIndex(markets[a])' = LiquidityIndex(markets[a])
        ELSE /\ BorrowIndex(markets[a])' >= BorrowIndex(markets[a])
             /\ LiquidityIndex(markets[a])' >= LiquidityIndex(markets[a]) ]_vars

\* The rate of a dynamic model moves at most once in a block, whoever calls the
\* red bank how often: the guard its comment gives against calling it
\* repeatedly to drive the rate to an extreme.
RateMovesOncePerBlock ==
  [][ \A a \in Assets :
        (/\ Listed(a) /\ markets[a].interest_rate_model.kind = "dynamic"
         /\ markets'[a].interest_rate_model.kind = "dynamic"
         /\ markets'[a].borrow_rate # markets[a].borrow_rate) =>
          /\ markets[a].interest_rate_model.borrow_rate_last_updated < now
          /\ markets'[a].interest_rate_model.borrow_rate_last_updated = now ]_vars

\* What the red bank answers in a block is what it then does in that block, as
\* the comments of the queries say: a deposit mints the maTokens announced for
\* it, a loan adds the scaled debt announced for it, and a debt that is repaid
\* in full costs what was announced for cancelling it.  A query works on the
\* stored market, an operation after it brought the interest up to date.
MintsAsAnswered(a, u) ==
  (/\ maTokens'[a][u] > maTokens[a][u]
   /\ \A v \in Addresses : maTokens'[a][v] >= maTokens[a][v]) =>
     maTokens'[a][u] - maTokens[a][u] =
       Answer([ask |-> "scaled_liquidity_amount", asset |-> a, amount |-> cash'[a] - cash[a]])
LendsAsAnswered(a, u) ==
  debts'[a][u] > debts[a][u] =>
    debts'[a][u] - debts[a][u] =
      Answer([ask |-> "scaled_debt_amount", asset |-> a, amount |-> cash[a] - cash'[a]])
CancelsAsAnswered(a, u) ==
  (debts'[a][u] = 0 /\ debts[a][u] > 0 /\ maTokens'[a][u] >= maTokens[a][u]) =>
    cash'[a] - cash[a] =
      Answer([ask |-> "underlying_debt_amount", asset |-> a, amount_scaled |-> debts[a][u]])
AnswersAreKept ==
  [][ \A a \in Assets, u \in Users :
        MintsAsAnswered(a, u) /\ LendsAsAnswered(a, u) /\ CancelsAsAnswered(a, u) ]_vars

\* No transaction costs the depositors anything: what the red bank holds and is
\* owed, less what the maTokens and the rewards still to be minted can claim, never
\* falls while no time passes.  All four are compared at the full precision of the
\* indexes, not as the truncated amounts users see.  A deposit, a loan, a withdrawal
\* and a transfer lose nothing at all; a debt that is recorded anew may lose less
\* than one scaled unit, and a liquidation less than the index in parts of one.
Backed(a) ==
  cash[a] * ScalingFactor * One
  + markets[a].debt_total_scaled * BorrowIndex(markets[a])
Claimed(a) ==
  (Total(maTokens[a], Addresses) + RewardsMint(markets[a])) * LiquidityIndex(markets[a])
LostInRounding(a) ==
  (IF \E u \in Users : debts'[a][u] < debts[a][u] THEN One - 1 ELSE 0)
  + (IF \E u \in Users : maTokens'[a][u] < maTokens[a][u] /\ ~QueryUserPosition(u).healthy
     THEN LiquidityIndex(markets[a]) - 1 ELSE 0)
DepositorsLoseNothing ==
  [][ now' = now => \A a \in QueryMarketsList :
        Backed(a) - Claimed(a) <= (Backed(a) - Claimed(a))' + LostInRounding(a) ]_vars

\* What the roundings of one transaction may cost its sender, in uusd.  A scaled
\* amount is rounded to a unit of the index, which is what an amount of a few
\* units is worth once interest has accrued; the two products that weight it by
\* the price and by the threshold lose one each.
UnitsLost(a) ==
  IF Listed(a) /\ BorrowIndex(markets[a]) > One
  THEN CeilDiv(CeilDiv(BorrowIndex(markets[a]), One), ScalingFactor) ELSE 0
RoundingSlack(a) == CeilDiv(UnitsLost(a) * price[a], One) + 2

\* No user's transaction makes a healthy position unhealthy, its own or that of
\* somebody else: only prices, time and the owner can.  The roundings of the
\* asset that is withdrawn or borrowed may, and those of no other operation.
DrawsOn(u, a) == maTokens'[a][u] < maTokens[a][u] \/ debts'[a][u] > debts[a][u]
UsersKeepPositionsHealthy ==
  [][ UNCHANGED <<price, now, limits>>
      /\ (\A a \in Assets : Listed(a) =>
            markets'[a].liquidation_threshold = markets[a].liquidation_threshold)
      => \A u \in Users : QueryUserPosition(u).healthy =>
           LET debt      == QueryUserPosition(u).total_collateralized_debt
               threshold == QueryUserPosition(u).weighted_liquidation_threshold
           IN  \/ debt' <= threshold'
               \/ \E a \in Assets : DrawsOn(u, a) /\ debt' <= threshold' + RoundingSlack(a) ]_vars

\* What the rest of a debt may be rounded up by when it is recorded anew: nothing
\* before interest has accrued, then a unit as long as a scaled one is worth less.
RoundedUp(m) == CeilDiv((BorrowIndex(m) - 1) \div One, ScalingFactor)

\* Only a liquidation takes both maTokens and debt from a user, only from one
\* without a loan limit whose position is unhealthy, and at most the close
\* factor's share of the debt.  The value seized is at most the value repaid and
\* the bonus; when all of the collateral is taken what is repaid for it is rounded
\* down, in uusd, to units of the debt asset and to what the bonus leaves of them.
LiquidationIsFair ==
  [][ \A u \in Users, c, d \in Assets :
        (maTokens'[c][u] < maTokens[c][u] /\ debts'[d][u] < debts[d][u]) =>
          LET seized == QueryUnderlyingLiquidityAmount(c, maTokens[c][u] - maTokens'[c][u])
              owed   == QueryUserAssetDebt(u, d).amount
              repaid == owed - QueryUnderlyingDebtAmount(d, debts'[d][u])
              bonus  == One + QueryMarket(c).liquidation_bonus
              most(units) == Mul(Mul(repaid + RoundedUp(QueryMarket(d)) + units, price[d]), bonus)
          IN  /\ ~QueryUserPosition(u).healthy
              /\ QueryUncollateralizedLoanLimit(u, d) = 0
              /\ repaid * One <= owed * QueryConfig.close_factor
              /\ Mul(seized, price[c]) <=
                   IF c \in collateral'[u] THEN most(0)
                   ELSE most(1) + CeilDiv(price[d], One) + CeilDiv(bonus, One) ]_vars

=============================================================================

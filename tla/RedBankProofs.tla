--------------------------- MODULE RedBankProofs ---------------------------
(***************************************************************************)
(* What the red bank guarantees for any assets, addresses, amounts, rates  *)
(* and prices.                                                             *)
(***************************************************************************)
EXTENDS RedBank, CommonProofs

\* These name a set operation and no more: the proofs see through them.
USE DEF Flag, Unflag, KnownWith, Marked, Repayable, MayBorrow, Liquidatable,
        TransferOnLiquidation, BurnOnLiquidation, DebtAfterLiquidation,
        CashAfterLiquidation, WhollySeized, ValidCloseFactors, Registered,
        ValidLinear, ValidDynamic

-----------------------------------------------------------------------------
(* Interest rates. *)

\* Beyond the optimal utilization the slope is divided by a positive distance.
LEMMA LinearRateType ==
  ASSUME NEW model \in LinearModels, ValidModel(model),
         NEW utilization \in Nat, utilization <= One
  PROVE  LinearGetBorrowRate(model.params, utilization) \in Nat
<1> DEFINE p == model.params
           optimal == p.optimal_utilization_rate
<1>1. /\ optimal \in Nat /\ p.base \in Nat /\ p.slope_1 \in Nat /\ p.slope_2 \in Nat
      /\ optimal <= One
  BY DEF LinearModels, ValidModel
<1>2. CASE utilization = 0
  BY <1>1, <1>2 DEF LinearGetBorrowRate
<1>3. CASE utilization # 0 /\ utilization <= optimal
  <2>1. Div(utilization, optimal) \in Nat
    BY <1>1, <1>3, DivType
  <2>2. Mul(p.slope_1, Div(utilization, optimal)) \in Nat
    BY <1>1, <2>1, MulType
  <2> QED
    BY <1>1, <1>3, <2>2 DEF LinearGetBorrowRate
<1>4. CASE utilization # 0 /\ ~(utilization <= optimal)
  <2>1. utilization - optimal \in Nat /\ One - optimal \in Nat \ {0}
    BY <1>1, <1>4, OneAssumption
  <2>2. Mul(p.slope_2, utilization - optimal) \in Nat
    BY <1>1, <2>1, MulType
  <2>3. Div(Mul(p.slope_2, utilization - optimal), One - optimal) \in Nat
    BY <2>1, <2>2, DivType
  <2> QED
    BY <1>1, <1>4, <2>3 DEF LinearGetBorrowRate
<1> QED
  BY <1>2, <1>3, <1>4

\* The controller of the dynamic model yields a rate: a step down is cut at zero.
LEMMA DynamicRateType ==
  ASSUME NEW model \in DynamicModels, NEW utilization \in Nat, NEW rate \in Nat
  PROVE  DynamicGetBorrowRate(model.params, utilization, rate) \in Nat
<1> DEFINE p == model.params
           optimal == p.optimal_utilization_rate
           error == IF optimal > utilization THEN optimal - utilization
                                             ELSE utilization - optimal
           kp == IF error >= p.kp_augmentation_threshold THEN p.kp_2 ELSE p.kp_1
<1>1. /\ optimal \in Nat /\ p.min_borrow_rate \in Nat /\ p.max_borrow_rate \in Nat
      /\ p.kp_1 \in Nat /\ p.kp_2 \in Nat
  BY DEF DynamicModels
<1>2. error \in Nat /\ kp \in Nat
  BY <1>1
<1>3. Mul(kp, error) \in Nat
  BY <1>2, MulType
<1> HIDE DEF p, error, kp
<1>4. LET moved == IF optimal <= utilization THEN rate + Mul(kp, error)
                   ELSE IF rate > Mul(kp, error) THEN rate - Mul(kp, error) ELSE 0
      IN  (IF moved < p.min_borrow_rate THEN p.min_borrow_rate
           ELSE SmallerOf(moved, p.max_borrow_rate)) \in Nat
  BY <1>1, <1>3 DEF SmallerOf
<1> QED
  BY <1>4 DEF DynamicGetBorrowRate, p, error, kp

\* With a reserve factor of at most one, depositors earn at most the borrow rate.
LEMMA LiquidityRateBound ==
  ASSUME NEW rate \in Nat, NEW utilization \in Nat, NEW reserve \in Nat,
         utilization <= One, reserve <= One
  PROVE  /\ GetLiquidityRate(rate, utilization, reserve) \in Nat
         /\ GetLiquidityRate(rate, utilization, reserve) <= rate
<1>1. One - reserve \in Nat /\ One - reserve <= One
  BY OneAssumption
<1>2. Mul(rate, utilization) \in Nat /\ Mul(rate, utilization) <= rate
  BY MulType, MulByFraction
<1>3. /\ Mul(Mul(rate, utilization), One - reserve) \in Nat
      /\ Mul(Mul(rate, utilization), One - reserve) <= Mul(rate, utilization)
  BY <1>1, <1>2, MulType, MulByFraction
<1> QED
  BY <1>2, <1>3 DEF GetLiquidityRate

\* What is valid about a market once it is listed.
SoundMarket(m) == m \in Markets /\ ValidModel(m.interest_rate_model)

\* The state of a dynamic model moves on; its parameters stay.
NextModel(model, moves, time) ==
  IF model.kind = "linear" THEN model
  ELSE [model EXCEPT
          !.txs_since_last_borrow_rate_update = IF moves THEN 0 ELSE @ + 1,
          !.borrow_rate_last_updated = IF moves THEN time ELSE @]

\* The bookkeeping of a rate update keeps a model valid.
LEMMA NextModelIsValid ==
  ASSUME NEW model \in Models, ValidModel(model), NEW moves \in BOOLEAN, NEW time \in Nat
  PROVE  /\ NextModel(model, moves, time) \in Models
         /\ ValidModel(NextModel(model, moves, time))
<1>1. CASE model \in LinearModels
  BY <1>1 DEF NextModel, LinearModels, Models
<1>2. CASE model \in DynamicModels
  <2>1. model.kind = "dynamic"
    BY <1>2 DEF DynamicModels
  <2> DEFINE txs == IF moves THEN 0 ELSE model.txs_since_last_borrow_rate_update + 1
             updated == IF moves THEN time ELSE model.borrow_rate_last_updated
             next == [model EXCEPT !.txs_since_last_borrow_rate_update = txs,
                                   !.borrow_rate_last_updated = updated]
  <2>3. txs \in Nat /\ updated \in Nat
    BY <1>2 DEF DynamicModels
  <2>4. NextModel(model, moves, time) = next
    BY <2>1, Zenon DEF NextModel
  <2> HIDE DEF txs, updated
  <2>5. next \in DynamicModels /\ next.params = model.params /\ next.kind = model.kind
    BY <1>2, <2>3 DEF DynamicModels
  <2>2. /\ NextModel(model, moves, time) \in DynamicModels
        /\ NextModel(model, moves, time).params = model.params
        /\ NextModel(model, moves, time).kind = model.kind
    BY <2>4, <2>5
  <2> QED
    BY <2>1, <2>2 DEF Models, ValidModel
<1> QED
  BY <1>1, <1>2 DEF Models

\* Either model yields a rate for any utilization.
LEMMA BorrowRateType ==
  ASSUME NEW m \in Markets, ValidModel(m.interest_rate_model),
         NEW utilization \in Nat, utilization <= One
  PROVE  /\ m.interest_rate_model.kind = "linear" =>
               LinearGetBorrowRate(m.interest_rate_model.params, utilization) \in Nat
         /\ m.interest_rate_model.kind # "linear" =>
               DynamicGetBorrowRate(m.interest_rate_model.params, utilization,
                                    m.borrow_rate) \in Nat
<1>1. m.interest_rate_model \in LinearModels \cup DynamicModels /\ m.borrow_rate \in Nat
  BY DEF Markets, Models
<1>2. m.interest_rate_model \in LinearModels => m.interest_rate_model.kind = "linear"
  BY DEF LinearModels
<1>3. m.interest_rate_model \in DynamicModels => m.interest_rate_model.kind = "dynamic"
  BY DEF DynamicModels
<1> QED
  BY <1>1, <1>2, <1>3, LinearRateType, DynamicRateType

\* The last move of a dynamic model is not in the future.
Dated(model, time) == model.kind = "dynamic" => model.borrow_rate_last_updated <= time

\* Market m becomes r: its model stays dated, and the rate of a dynamic model
\* moves only if it did not yet move at this time, which then is its date.
MovesOnce(m, r, time) ==
  Dated(m.interest_rate_model, time) =>
    /\ Dated(r.interest_rate_model, time)
    /\ (/\ m.interest_rate_model.kind = "dynamic"
        /\ r.interest_rate_model.kind = "dynamic"
        /\ r.borrow_rate # m.borrow_rate) =>
         /\ m.interest_rate_model.borrow_rate_last_updated < time
         /\ r.interest_rate_model.borrow_rate_last_updated = time

\* A model that stays moves only when it should, and takes the date.
LEMMA NextModelMoves ==
  ASSUME NEW model \in Models, NEW moves \in BOOLEAN, NEW time \in Nat,
         Dated(model, time), model.kind = "dynamic"
  PROVE  LET next == NextModel(model, moves, time)
         IN  /\ next.kind = "dynamic"
             /\ moves => next.borrow_rate_last_updated = time
             /\ ~moves => next.borrow_rate_last_updated = model.borrow_rate_last_updated
             /\ model.borrow_rate_last_updated \in Nat
<1>1. model \in DynamicModels
  BY DEF Models, LinearModels
<1> DEFINE txs == IF moves THEN 0 ELSE model.txs_since_last_borrow_rate_update + 1
           updated == IF moves THEN time ELSE model.borrow_rate_last_updated
           next == [model EXCEPT !.txs_since_last_borrow_rate_update = txs,
                                 !.borrow_rate_last_updated = updated]
<1>2. NextModel(model, moves, time) = next
  BY Zenon DEF NextModel
<1>4. model.borrow_rate_last_updated \in Nat
  BY <1>1 DEF DynamicModels
<1> HIDE DEF txs, updated
<1>3. next.kind = "dynamic" /\ next.borrow_rate_last_updated = updated
  BY <1>1 DEF DynamicModels
<1> QED
  BY <1>2, <1>3, <1>4 DEF updated

\* An update of the rates changes nothing but the rates and the model's state,
\* and leaves the depositors' rate below the borrowers'.
LEMMA RateUpdate ==
  ASSUME NEW m, SoundMarket(m), m.reserve_factor <= One,
         NEW utilization \in Nat, utilization <= One, NEW time \in Nat
  PROVE  LET r == UpdateMarketInterestRatesWithModel(m, utilization, time)
         IN  /\ SoundMarket(r)
             /\ r.liquidity_rate <= r.borrow_rate
             /\ r.borrow_index = m.borrow_index
             /\ r.liquidity_index = m.liquidity_index
             /\ r.indexes_last_updated = m.indexes_last_updated
             /\ r.debt_total_scaled = m.debt_total_scaled
             /\ MovesOnce(m, r, time)
             /\ r.interest_rate_model.kind = m.interest_rate_model.kind
<1> DEFINE model == m.interest_rate_model
           moves == model.kind = "linear" \/ ShouldUpdateBorrowRate(model, time)
           rate == IF model.kind = "linear"
                   THEN LinearGetBorrowRate(model.params, utilization)
                   ELSE IF moves
                        THEN DynamicGetBorrowRate(model.params, utilization, m.borrow_rate)
                        ELSE m.borrow_rate
           liquidityRate == GetLiquidityRate(rate, utilization, m.reserve_factor)
           newModel == NextModel(model, moves, time)
           r == [m EXCEPT !.borrow_rate = rate, !.interest_rate_model = newModel,
                          !.liquidity_rate = liquidityRate]
<1>1. /\ m \in Markets /\ model \in Models /\ ValidModel(model)
      /\ m.borrow_rate \in Nat /\ m.reserve_factor \in Nat
  BY DEF SoundMarket, Markets
<1>2. moves \in BOOLEAN
  BY DEF ShouldUpdateBorrowRate
<1>3. rate \in Nat
  BY <1>1, BorrowRateType
<1>4. newModel \in Models /\ ValidModel(newModel)
  BY <1>1, <1>2, NextModelIsValid
<1>5. liquidityRate \in Nat /\ liquidityRate <= rate
  BY <1>1, <1>3, LiquidityRateBound
<1>6. UpdateMarketInterestRatesWithModel(m, utilization, time) = r
  BY DEF UpdateMarketInterestRatesWithModel, NextModel
<1>8. model.kind = "dynamic" /\ ~moves => rate = m.borrow_rate
  OBVIOUS
<1> HIDE DEF rate, liquidityRate, newModel
<1>7. /\ r \in Markets /\ r.interest_rate_model = newModel
      /\ r.liquidity_rate = liquidityRate /\ r.borrow_rate = rate
      /\ r.borrow_index = m.borrow_index /\ r.liquidity_index = m.liquidity_index
      /\ r.indexes_last_updated = m.indexes_last_updated
      /\ r.debt_total_scaled = m.debt_total_scaled
  BY <1>1, <1>3, <1>4, <1>5 DEF Markets
<1>9. MovesOnce(m, r, time)
  <2> SUFFICES ASSUME Dated(model, time)
               PROVE  /\ Dated(newModel, time)
                      /\ (/\ model.kind = "dynamic"
                          /\ newModel.kind = "dynamic" /\ rate # m.borrow_rate) =>
                            /\ model.borrow_rate_last_updated < time
                            /\ newModel.borrow_rate_last_updated = time
    BY <1>7 DEF MovesOnce
  <2>1. CASE model.kind = "dynamic"
    <3>1. /\ moves => newModel.borrow_rate_last_updated = time
          /\ ~moves => newModel.borrow_rate_last_updated = model.borrow_rate_last_updated
          /\ model.borrow_rate_last_updated \in Nat
      BY <1>1, <1>2, <2>1, NextModelMoves DEF newModel
    <3>2. moves => model.borrow_rate_last_updated < time
      BY <2>1, <3>1 DEF ShouldUpdateBorrowRate, Dated
    <3> QED
      BY <1>8, <2>1, <3>1, <3>2 DEF Dated
  <2>2. CASE model.kind # "dynamic"
    <3>1. newModel = model
      BY <1>1, <2>2 DEF newModel, NextModel, Models, LinearModels, DynamicModels
    <3> QED
      BY <2>2, <3>1 DEF Dated
  <2> QED
    BY <2>1, <2>2
<1>10. newModel.kind = model.kind
  BY <1>1, <1>2 DEF newModel, NextModel, Models, LinearModels, DynamicModels
<1> QED
  BY <1>4, <1>5, <1>6, <1>7, <1>9, <1>10 DEF SoundMarket

-----------------------------------------------------------------------------
(* Indexes. *)

\* Interest only makes an index grow, and more so with the rate and the time.
LEMMA AppliedInterestGrows ==
  ASSUME NEW index \in Nat, NEW rate \in Nat, NEW elapsed \in Nat
  PROVE  /\ AppliedInterest(index, rate, elapsed) \in Nat
         /\ index <= AppliedInterest(index, rate, elapsed)
<1>1. FromRatio(elapsed, SecondsPerYear) \in Nat
  BY RedBankAssumptions, FromRatioType
<1>2. Mul(rate, FromRatio(elapsed, SecondsPerYear)) \in Nat
  BY <1>1, MulType
<1>3. /\ One + Mul(rate, FromRatio(elapsed, SecondsPerYear)) \in Nat
      /\ One <= One + Mul(rate, FromRatio(elapsed, SecondsPerYear))
  BY <1>2, OneAssumption
<1> QED
  BY <1>3, MulType, MulByMore DEF AppliedInterest

\* A larger index, rate and time yield no smaller index after the interest.
LEMMA AppliedInterestMono ==
  ASSUME NEW index \in Nat, NEW rate \in Nat, NEW elapsed \in Nat,
         NEW index2 \in Nat, NEW rate2 \in Nat, NEW elapsed2 \in Nat,
         index <= index2, rate <= rate2, elapsed <= elapsed2
  PROVE  AppliedInterest(index, rate, elapsed) <= AppliedInterest(index2, rate2, elapsed2)
<1> DEFINE t == FromRatio(elapsed, SecondsPerYear)
           t2 == FromRatio(elapsed2, SecondsPerYear)
<1>1. t \in Nat /\ t2 \in Nat /\ t <= t2
  BY RedBankAssumptions, FromRatioType, FromRatioMono
<1>2. Mul(rate, t) \in Nat /\ Mul(rate2, t2) \in Nat /\ Mul(rate, t) <= Mul(rate2, t2)
  BY <1>1, MulType, MulMono
<1>3. /\ One + Mul(rate, t) \in Nat /\ One + Mul(rate2, t2) \in Nat
      /\ One + Mul(rate, t) <= One + Mul(rate2, t2)
  BY <1>2, OneAssumption
<1> QED
  BY <1>3, MulMono DEF AppliedInterest

\* Both indexes, brought up to date, are naturals and not below the stored ones.
LEMMA IndexType ==
  ASSUME NEW m \in Markets, now \in Nat
  PROVE  /\ BorrowIndex(m) \in Nat /\ m.borrow_index <= BorrowIndex(m)
         /\ LiquidityIndex(m) \in Nat /\ m.liquidity_index <= LiquidityIndex(m)
<1>1. /\ m.borrow_index \in Nat /\ m.liquidity_index \in Nat
      /\ m.borrow_rate \in Nat /\ m.liquidity_rate \in Nat
      /\ m.indexes_last_updated \in Nat
  BY DEF Markets
<1>2. ASSUME NEW index \in Nat, NEW rate \in Nat
      PROVE  UpdatedIndex(m, index, rate) \in Nat /\ index <= UpdatedIndex(m, index, rate)
  <2>1. CASE m.indexes_last_updated < now /\ rate > 0
    <3>1. now - m.indexes_last_updated \in Nat
      BY <1>1, <2>1
    <3> QED
      BY <2>1, <3>1, AppliedInterestGrows DEF UpdatedIndex
  <2>2. CASE ~(m.indexes_last_updated < now /\ rate > 0)
    BY <2>2 DEF UpdatedIndex
  <2> QED
    BY <2>1, <2>2
<1> QED
  BY <1>1, <1>2 DEF BorrowIndex, LiquidityIndex

\* Depositors' rates and indexes stay below the borrowers', and no index falls
\* below the one it started from.
MarketInv(m) ==
  /\ SoundMarket(m)
  /\ One <= m.liquidity_index
  /\ m.liquidity_index <= m.borrow_index
  /\ m.liquidity_rate <= m.borrow_rate

\* The liquidity index does not overtake the borrow index when both are
\* brought up to date.
LEMMA IndexOrder ==
  ASSUME NEW m, MarketInv(m), now \in Nat
  PROVE  /\ LiquidityIndex(m) <= BorrowIndex(m)
         /\ LiquidityIndex(m) \in Nat \ {0} /\ BorrowIndex(m) \in Nat \ {0}
         /\ One <= LiquidityIndex(m)
<1>1. m \in Markets
  BY DEF MarketInv, SoundMarket
<1>2. /\ m.borrow_index \in Nat /\ m.liquidity_index \in Nat
      /\ m.borrow_rate \in Nat /\ m.liquidity_rate \in Nat
      /\ m.indexes_last_updated \in Nat
  BY <1>1 DEF Markets
<1>3. /\ BorrowIndex(m) \in Nat /\ m.borrow_index <= BorrowIndex(m)
      /\ LiquidityIndex(m) \in Nat /\ m.liquidity_index <= LiquidityIndex(m)
  BY <1>1, IndexType
<1>4. LiquidityIndex(m) <= BorrowIndex(m)
  <2>1. CASE m.indexes_last_updated < now /\ m.liquidity_rate > 0
    <3>1. now - m.indexes_last_updated \in Nat /\ m.borrow_rate > 0
      BY <1>2, <2>1 DEF MarketInv
    <3> DEFINE elapsed == now - m.indexes_last_updated
    <3>3. elapsed \in Nat /\ elapsed <= elapsed
      BY <3>1
    <3>4. m.liquidity_index <= m.borrow_index /\ m.liquidity_rate <= m.borrow_rate
      BY DEF MarketInv
    <3> HIDE DEF elapsed
    <3>2. AppliedInterest(m.liquidity_index, m.liquidity_rate, elapsed)
            <= AppliedInterest(m.borrow_index, m.borrow_rate, elapsed)
      BY <1>2, <3>3, <3>4, AppliedInterestMono
    <3> USE DEF elapsed
    <3> QED
      BY <2>1, <3>1, <3>2 DEF BorrowIndex, LiquidityIndex, UpdatedIndex
  <2>2. CASE ~(m.indexes_last_updated < now /\ m.liquidity_rate > 0)
    <3>1. LiquidityIndex(m) = m.liquidity_index
      BY <2>2 DEF LiquidityIndex, UpdatedIndex
    <3> QED
      BY <1>2, <1>3, <3>1 DEF MarketInv
  <2> QED
    BY <2>1, <2>2
<1> QED
  BY <1>2, <1>3, <1>4, OneAssumption DEF MarketInv

\* Scaling an amount, in either direction and with either rounding, yields a
\* natural.
LEMMA ScalingType ==
  ASSUME NEW m, MarketInv(m), now \in Nat, NEW amount \in Nat
  PROVE  /\ ScaledLiquidity(amount, m) \in Nat
         /\ UnderlyingLiquidity(amount, m) \in Nat
         /\ ScaledDebt(amount, m) \in Nat
         /\ UnderlyingDebt(amount, m) \in Nat
<1>1. LiquidityIndex(m) \in Nat \ {0} /\ BorrowIndex(m) \in Nat \ {0}
  BY IndexOrder
<1>2. ScalingFactor \in Nat \ {0}
  BY RedBankAssumptions
<1>3. amount * ScalingFactor \in Nat
  BY <1>2, ProductType
<1>4. Mul(amount, LiquidityIndex(m)) \in Nat /\ Mul(amount, BorrowIndex(m)) \in Nat
  BY <1>1, MulType
<1>5. Mul(amount, LiquidityIndex(m)) \div ScalingFactor \in Nat
  BY <1>2, <1>4, DivFloor
<1>6. CeilDiv(Mul(amount, BorrowIndex(m)), ScalingFactor) \in Nat
  BY <1>2, <1>4, CeilDivCovers
<1> QED
  BY <1>1, <1>3, <1>5, <1>6, DivType
  DEF ScaledAmount, ScaledLiquidity, UnderlyingLiquidity, ScaledDebt, UnderlyingDebt, UnderlyingDebtAt

\* The maTokens minted as protocol rewards are an amount.
LEMMA RewardsType ==
  ASSUME NEW m, MarketInv(m), now \in Nat
  PROVE  RewardsMint(m) \in Nat
<1>1. /\ m.debt_total_scaled \in Nat /\ m.reserve_factor \in Nat
      /\ m.borrow_index \in Nat
  BY DEF MarketInv, SoundMarket, Markets
<1>2. UnderlyingDebt(m.debt_total_scaled, m) \in Nat
  BY <1>1, ScalingType
<1>3. Mul(m.debt_total_scaled, m.borrow_index) \in Nat
  BY <1>1, MulType
<1>4. UnderlyingDebtAt(m.debt_total_scaled, m.borrow_index) \in Nat
  BY <1>3, CeilDivCovers, RedBankAssumptions DEF UnderlyingDebtAt
<1> DEFINE before == UnderlyingDebtAt(m.debt_total_scaled, m.borrow_index)
           after == UnderlyingDebt(m.debt_total_scaled, m)
           interest == IF after > before THEN after - before ELSE 0
<1>6. interest \in Nat
  BY <1>2, <1>4
<1>7. AccruedRewards(m) = Mul(interest, m.reserve_factor)
  BY DEF AccruedRewards
<1> HIDE DEF interest
<1>5. AccruedRewards(m) \in Nat
  BY <1>1, <1>6, <1>7, MulType
<1> QED
  BY <1>5, ScalingType DEF RewardsMint

\* The utilization is a fraction: what is borrowed is part of debt and liquidity.
LEMMA UtilizationType ==
  ASSUME NEW m, MarketInv(m), now \in Nat, NEW available \in Nat
  PROVE  UtilizationRate(m, available) \in Nat /\ UtilizationRate(m, available) <= One
<1> DEFINE debt == UnderlyingDebt(m.debt_total_scaled, m)
<1>1. m.debt_total_scaled \in Nat
  BY DEF MarketInv, SoundMarket, Markets
<1>2. debt \in Nat
  BY <1>1, ScalingType
<1>3. CASE debt = 0
  BY <1>3, OneAssumption DEF UtilizationRate
<1>4. CASE debt # 0
  <2>1. available + debt \in Nat \ {0} /\ debt <= available + debt
    BY <1>2, <1>4
  <2>2. /\ FromRatio(debt, available + debt) \in Nat
        /\ FromRatio(debt, available + debt) <= One
    BY <1>2, <2>1, FromRatioType, FromRatioOfPart
  <2> QED
    BY <1>4, <2>2 DEF UtilizationRate
<1> QED
  BY <1>3, <1>4

\* Accruing brings a market to the present without changing what its deposits
\* and debts are worth.
LEMMA AccrueFacts ==
  ASSUME NEW m, MarketInv(m), now \in Nat
  PROVE  LET r == Accrue(m)
         IN  /\ MarketInv(r)
             /\ r.borrow_index = BorrowIndex(m)
             /\ r.liquidity_index = LiquidityIndex(m)
             /\ r.indexes_last_updated = now
             /\ r.debt_total_scaled = m.debt_total_scaled
             /\ r.reserve_factor = m.reserve_factor
             /\ r.interest_rate_model = m.interest_rate_model
             /\ r.borrow_rate = m.borrow_rate
<1>1. /\ BorrowIndex(m) \in Nat /\ LiquidityIndex(m) \in Nat
      /\ LiquidityIndex(m) <= BorrowIndex(m) /\ One <= LiquidityIndex(m)
  BY IndexOrder
<1>2. m \in Markets /\ ValidModel(m.interest_rate_model)
      /\ m.liquidity_rate <= m.borrow_rate
  BY DEF MarketInv, SoundMarket
<1> DEFINE b == BorrowIndex(m)
           l == LiquidityIndex(m)
           r == [m EXCEPT !.borrow_index = b, !.liquidity_index = l,
                          !.indexes_last_updated = now]
<1>3. Accrue(m) = r
  BY DEF Accrue
<1>4. b \in Nat /\ l \in Nat
  BY <1>1
<1> HIDE DEF b, l
<1>5. /\ r \in Markets /\ r.borrow_index = b /\ r.liquidity_index = l
      /\ r.indexes_last_updated = now
      /\ r.debt_total_scaled = m.debt_total_scaled
      /\ r.reserve_factor = m.reserve_factor
      /\ r.interest_rate_model = m.interest_rate_model
      /\ r.liquidity_rate = m.liquidity_rate /\ r.borrow_rate = m.borrow_rate
  BY <1>2, <1>4 DEF Markets
<1> QED
  BY <1>1, <1>2, <1>3, <1>5 DEF b, l, MarketInv, SoundMarket

\* Every operation that refreshes a market leaves it sound, with the debt total
\* it was given and up to date indexes.
LEMMA RefreshFacts ==
  ASSUME NEW m, MarketInv(m), m.reserve_factor <= One, now \in Nat,
         NEW debtTotal \in Nat, NEW available \in Nat
  PROVE  LET r == Refresh(m, debtTotal, available)
         IN  /\ MarketInv(r)
             /\ r.borrow_index = BorrowIndex(m)
             /\ r.liquidity_index = LiquidityIndex(m)
             /\ r.indexes_last_updated = now
             /\ r.debt_total_scaled = debtTotal
             /\ MovesOnce(m, r, now)
<1> DEFINE a == Accrue(m)
           d == [a EXCEPT !.debt_total_scaled = debtTotal]
           u == UtilizationRate(d, available)
<1>1. /\ MarketInv(a)
      /\ a.borrow_index = BorrowIndex(m) /\ a.liquidity_index = LiquidityIndex(m)
      /\ a.indexes_last_updated = now /\ a.reserve_factor = m.reserve_factor
      /\ a.interest_rate_model = m.interest_rate_model /\ a.borrow_rate = m.borrow_rate
  BY AccrueFacts
<1> HIDE DEF a
<1>2. /\ d \in Markets /\ d.debt_total_scaled = debtTotal
      /\ d.borrow_index = a.borrow_index /\ d.liquidity_index = a.liquidity_index
      /\ d.indexes_last_updated = a.indexes_last_updated
      /\ d.reserve_factor = a.reserve_factor
      /\ d.interest_rate_model = a.interest_rate_model
      /\ d.liquidity_rate = a.liquidity_rate /\ d.borrow_rate = a.borrow_rate
  BY <1>1 DEF MarketInv, SoundMarket, Markets
<1> HIDE DEF d
<1>3. MarketInv(d) /\ SoundMarket(d)
  BY <1>1, <1>2 DEF MarketInv, SoundMarket
<1>4. u \in Nat /\ u <= One
  BY <1>3, UtilizationType
<1>5. Refresh(m, debtTotal, available) = UpdateMarketInterestRatesWithModel(d, u, now)
  BY DEF Refresh, UpdateInterestRates, a, d
<1> HIDE DEF u
<1>6. LET r == UpdateMarketInterestRatesWithModel(d, u, now)
      IN  /\ SoundMarket(r)
          /\ r.liquidity_rate <= r.borrow_rate
          /\ r.borrow_index = d.borrow_index
          /\ r.liquidity_index = d.liquidity_index
          /\ r.indexes_last_updated = d.indexes_last_updated
          /\ r.debt_total_scaled = d.debt_total_scaled
          /\ MovesOnce(d, r, now)
  BY <1>1, <1>2, <1>3, <1>4, RateUpdate
<1>7. MovesOnce(m, Refresh(m, debtTotal, available), now)
  BY <1>1, <1>2, <1>5, <1>6 DEF MovesOnce
<1> QED
  BY <1>1, <1>2, <1>3, <1>5, <1>6, <1>7 DEF MarketInv

-----------------------------------------------------------------------------
(* Types.  Every amount a handler stores is a natural number, so none of its   *)
(* subtractions underflows that does not abort.                                *)

TypeInv ==
  /\ TypeOK
  /\ \A a \in Assets : Listed(a) => MarketInv(markets[a])

\* The steps of Next, their parameters drawn from the types they have.
StepOf(a) ==
  \/ InitAsset(a) \/ UpdateAsset(a) \/ PriceChange(a)
  \/ \E u \in Addresses :
       \/ UpdateUncollateralizedLoanLimit(u, a)
       \/ UpdateAssetCollateralStatus(u, a)
       \/ \E amount \in Nat :
            \/ Deposit(u, a, amount) \/ Withdraw(u, a, amount) \/ Borrow(u, a, amount)
            \/ \E other \in Addresses :
                 Repay(other, u, a, amount) \/ TransferMaToken(u, other, a, amount)
       \/ \E liquidator \in Addresses, c \in Assets, amount \in Nat,
            receiveMaToken \in BOOLEAN : Liquidate(liquidator, u, c, a, amount, receiveMaToken)

\* Every amount a user may withdraw is a natural.
LEMMA WithdrawAmountsType ==
  ASSUME TypeInv, NEW a \in Assets, NEW u \in Addresses
  PROVE  WithdrawAmounts(u, a) \subseteq Nat
<1>1. Amounts \subseteq Nat
  BY RedBankAssumptions
<1>2. maTokens[a][u] \in Nat /\ now \in Nat
  BY DEF TypeInv, TypeOK
<1>3. CASE Listed(a)
  <2>1. UnderlyingLiquidity(maTokens[a][u], markets[a]) \in Nat
    BY <1>2, <1>3, ScalingType DEF TypeInv
  <2> QED
    BY <1>1, <2>1 DEF WithdrawAmounts
<1> QED
  BY <1>3 DEF WithdrawAmounts

\* Every step is an operation on an asset, a change of the configuration or
\* the passing of time.
LEMMA NextSteps ==
  ASSUME TypeInv, Next
  PROVE  (\E a \in Assets : StepOf(a)) \/ UpdateConfig \/ Tick
<1>1. Users \subseteq Addresses /\ Amounts \subseteq Nat
  BY RedBankAssumptions DEF Users
<1>2. ASSUME NEW a \in Assets, OwnerStep(a)
      PROVE  StepOf(a)
  BY <1>1, <1>2 DEF OwnerStep, StepOf
<1>3. ASSUME NEW a \in Assets, UserStep(a)
      PROVE  StepOf(a)
  <2>1. \A u \in Addresses : WithdrawAmounts(u, a) \subseteq Nat
    BY WithdrawAmountsType
  <2>2. CASE \E u \in Users, amount \in Amounts :
               \E liquidator \in Users, c \in Assets, receiveMaToken \in BOOLEAN :
                 Liquidate(liquidator, u, c, a, amount, receiveMaToken)
    BY <1>1, <2>2 DEF StepOf
  <2>3. CASE \E u \in Users, amount \in Amounts :
               \/ Deposit(u, a, amount)
               \/ Borrow(u, a, amount)
               \/ \E sender \in Users : Repay(sender, u, a, amount)
               \/ \E recipient \in Addresses : TransferMaToken(u, recipient, a, amount)
    BY <1>1, <2>3 DEF StepOf
  <2>4. CASE \E u \in Addresses : \E amount \in WithdrawAmounts(u, a) : Withdraw(u, a, amount)
    BY <2>1, <2>4 DEF StepOf
  <2>5. CASE \E u \in Users : UpdateAssetCollateralStatus(u, a)
    BY <1>1, <2>5 DEF StepOf
  <2> QED
    BY <1>3, <2>2, <2>3, <2>4, <2>5 DEF UserStep, ReceiveStep
<1> QED
  BY <1>2, <1>3 DEF Next, StepOf

\* A credit changes one entry of a ledger.
LEMMA CreditType ==
  ASSUME NEW ledger \in [Addresses -> Nat], NEW u \in Addresses, NEW amount \in Nat
  PROVE  /\ Credit(ledger, u, amount) \in [Addresses -> Nat]
         /\ \A v \in Addresses \ {u} : Credit(ledger, u, amount)[v] = ledger[v]
  BY DEF Credit

\* A ledger stays one when an amount is credited, or one it covers is debited.
LEMMA LedgerType ==
  ASSUME NEW ledger \in [Addresses -> Nat], NEW u \in Addresses, NEW amount \in Nat
  PROVE  /\ Credit(ledger, u, amount) \in [Addresses -> Nat]
         /\ Credit(ledger, u, amount)[u] = ledger[u] + amount
         /\ \A v \in Addresses : ledger[v] <= Credit(ledger, u, amount)[v]
         /\ \A v \in Addresses \ {u} : Credit(ledger, u, amount)[v] = ledger[v]
         /\ amount <= ledger[u] =>
              /\ Debit(ledger, u, amount) \in [Addresses -> Nat]
              /\ Debit(ledger, u, amount)[u] = ledger[u] - amount
              /\ \A v \in Addresses \ {u} : Debit(ledger, u, amount)[v] = ledger[v]
  BY DEF Credit, Debit

\* The mint of the protocol rewards leaves a ledger.
LEMMA WithRewardsType ==
  ASSUME NEW ledger \in [Addresses -> Nat], NEW m, MarketInv(m), now \in Nat
  PROVE  /\ WithRewards(ledger, m) \in [Addresses -> Nat]
         /\ \A v \in Addresses : ledger[v] <= WithRewards(ledger, m)[v]
         /\ \A v \in Addresses \ {Collector} : WithRewards(ledger, m)[v] = ledger[v]
<1>1. RewardsMint(m) \in Nat /\ Collector \in Addresses
  BY RewardsType, RedBankAssumptions
<1> QED
  BY <1>1, LedgerType DEF WithRewards

\* A step that leaves one market sound, and every other as it was.
LEMMA OneMarketStep ==
  ASSUME TypeInv, NEW a \in Assets, NEW r, MarketInv(r), markets' = [markets EXCEPT ![a] = r]
  PROVE  /\ markets' \in [Assets -> Markets \cup {NoMarket}]
         /\ markets'[a] = r
         /\ \A b \in Assets \ {a} : markets'[b] = markets[b]
         /\ \A b \in Assets : Listed(b)' => MarketInv(markets'[b])
  BY DEF TypeInv, TypeOK, MarketInv, SoundMarket, Listed

\* A model the owner sets starts valid.
LEMMA WithTimeIsValid ==
  ASSUME NEW model \in Models, ValidModel(model), now \in Nat
  PROVE  WithTime(model) \in Models /\ ValidModel(WithTime(model))
<1>1. CASE model \in LinearModels
  BY <1>1 DEF WithTime, LinearModels, Models
<1>2. CASE model \in DynamicModels
  <2>1. model.kind = "dynamic"
    BY <1>2 DEF DynamicModels
  <2>2. /\ WithTime(model) \in DynamicModels
        /\ WithTime(model).params = model.params
        /\ WithTime(model).kind = model.kind
    BY <1>2, <2>1 DEF WithTime, DynamicModels
  <2> QED
    BY <2>1, <2>2 DEF Models, ValidModel
<1> QED
  BY <1>1, <1>2 DEF Models

\* A market that is created is sound.
LEMMA NewMarketIsSound ==
  ASSUME NEW p \in Params, ValidModel(p.interest_rate_model), now \in Nat
  PROVE  MarketInv(CreateMarket(p))
<1>1. p.interest_rate_model \in Models
  BY DEF Params
<1>2. /\ WithTime(p.interest_rate_model) \in Models
      /\ ValidModel(WithTime(p.interest_rate_model))
  BY <1>1, WithTimeIsValid
<1>3. CreateMarket(p) \in Markets
  BY <1>2, OneAssumption DEF CreateMarket, Params, Markets
<1>4. /\ CreateMarket(p).interest_rate_model = WithTime(p.interest_rate_model)
      /\ CreateMarket(p).liquidity_rate = 0
      /\ CreateMarket(p).borrow_rate = p.initial_borrow_rate
      /\ CreateMarket(p).borrow_index = One
      /\ CreateMarket(p).liquidity_index = One
  BY DEF CreateMarket
<1>5. p.initial_borrow_rate \in Nat
  BY DEF Params
<1> QED
  BY <1>2, <1>3, <1>4, <1>5, OneAssumption DEF MarketInv, SoundMarket

\* InitAsset keeps the type invariant.
LEMMA InitAssetType ==
  ASSUME TypeInv, NEW a \in Assets, InitAsset(a)
  PROVE  TypeInv'
<1>1. PICK p \in AssetParams[a] :
        /\ ValidModel(p.interest_rate_model)
        /\ markets' = [markets EXCEPT ![a] = CreateMarket(p)]
  BY DEF InitAsset
<1>2. p \in Params /\ now \in Nat
  BY RedBankAssumptions DEF TypeInv, TypeOK
<1>3. MarketInv(CreateMarket(p))
  BY <1>1, <1>2, NewMarketIsSound
<1>4. /\ markets' \in [Assets -> Markets \cup {NoMarket}]
      /\ \A b \in Assets : Listed(b)' => MarketInv(markets'[b])
  BY <1>1, <1>3, OneMarketStep
<1> QED
  BY <1>4 DEF TypeInv, TypeOK, InitAsset, position

\* What UpdateAsset leaves of a market: sound, with the same debt total, and
\* with indexes that are untouched or brought to now.
LEMMA UpdateAssetMarket ==
  ASSUME TypeInv, NEW a \in Assets, UpdateAsset(a)
  PROVE  /\ Listed(a)
         /\ \E r : /\ markets' = [markets EXCEPT ![a] = r]
                   /\ MarketInv(r)
                   /\ r.debt_total_scaled = markets[a].debt_total_scaled
                   /\ MovesOnce(markets[a], r, now)
                   /\ \/ /\ r.borrow_index = BorrowIndex(markets[a])
                         /\ r.liquidity_index = LiquidityIndex(markets[a])
                         /\ r.indexes_last_updated = now
                         /\ maTokens' = [maTokens EXCEPT ![a] = WithRewards(@, markets[a])]
                      \/ /\ r.borrow_index = markets[a].borrow_index
                         /\ r.liquidity_index = markets[a].liquidity_index
                         /\ r.borrow_rate = markets[a].borrow_rate
                         /\ r.liquidity_rate = markets[a].liquidity_rate
                         /\ r.indexes_last_updated = markets[a].indexes_last_updated
                         /\ r.reserve_factor = markets[a].reserve_factor
                         /\ maTokens' = maTokens
         /\ maTokens' = maTokens \/ maTokens' = [maTokens EXCEPT ![a] = WithRewards(@, markets[a])]
<1> DEFINE m == markets[a]
<1>1. Listed(a) /\ MarketInv(m) /\ now \in Nat /\ cash[a] \in Nat
  BY DEF UpdateAsset, TypeInv, TypeOK
<1>2. PICK p \in AssetParams[a], replaceModel \in BOOLEAN : UpdateAssetTo(a, p, replaceModel)
  BY DEF UpdateAsset
<1> DEFINE reprice == Reprices(m, p, replaceModel)
           accrued == IF reprice THEN Accrue(m) ELSE m
           model == IF replaceModel THEN WithTime(p.interest_rate_model)
                    ELSE accrued.interest_rate_model
           updated == [accrued EXCEPT
                          !.max_loan_to_value = p.max_loan_to_value,
                          !.liquidation_threshold = p.liquidation_threshold,
                          !.liquidation_bonus = p.liquidation_bonus,
                          !.reserve_factor = p.reserve_factor,
                          !.active = p.active,
                          !.deposit_enabled = p.deposit_enabled,
                          !.borrow_enabled = p.borrow_enabled,
                          !.interest_rate_model = model]
           r == IF reprice THEN UpdateInterestRates(updated, cash[a]) ELSE updated
<1>11. updated = Amended(m, p, replaceModel)
  BY Zenon DEF Amended
<1> HIDE DEF updated
<1>3. /\ ValidModel(p.interest_rate_model)
      /\ reprice => p.reserve_factor <= One
      /\ markets' = [markets EXCEPT ![a] = r]
      /\ reprice => maTokens' = [maTokens EXCEPT ![a] = WithRewards(@, m)]
      /\ ~reprice => maTokens' = maTokens
  <2>1. CASE reprice
    BY <1>2, <1>11, <2>1 DEF UpdateAssetTo
  <2>2. CASE ~reprice
    BY <1>2, <1>11, <2>2 DEF UpdateAssetTo
  <2> QED
    BY <2>1, <2>2
<1>4. p \in Params
  BY RedBankAssumptions
<1>5. /\ MarketInv(accrued)
      /\ accrued.debt_total_scaled = m.debt_total_scaled
      /\ reprice => /\ accrued.borrow_index = BorrowIndex(m)
                    /\ accrued.liquidity_index = LiquidityIndex(m)
                    /\ accrued.indexes_last_updated = now
      /\ ~reprice => accrued = m
      /\ accrued.interest_rate_model = m.interest_rate_model
      /\ accrued.borrow_rate = m.borrow_rate
  BY <1>1, AccrueFacts
<1>12. /\ replaceModel => reprice
       /\ ~reprice => p.reserve_factor = m.reserve_factor
  BY DEF Reprices
<1> HIDE DEF m, accrued
<1>6. model \in Models /\ ValidModel(model)
  <2>1. CASE replaceModel
    <3>1. p.interest_rate_model \in Models
      BY <1>4 DEF Params
    <3> QED
      BY <1>1, <1>3, <2>1, <3>1, WithTimeIsValid
  <2>2. CASE ~replaceModel
    BY <1>5, <2>2 DEF MarketInv, SoundMarket, Markets
  <2> QED
    BY <2>1, <2>2
<1>13. \/ model = m.interest_rate_model
       \/ model.kind = "dynamic" => model.borrow_rate_last_updated = now
  <2>1. CASE replaceModel
    <3>1. p.interest_rate_model \in Models
      BY <1>4 DEF Params
    <3> QED
      BY <2>1, <3>1 DEF WithTime, Models, LinearModels, DynamicModels
  <2> QED
    BY <1>5, <2>1
<1> HIDE DEF model, reprice
<1> USE DEF updated
<1>7. /\ updated \in Markets
      /\ updated.interest_rate_model = model
      /\ updated.reserve_factor = p.reserve_factor
      /\ updated.borrow_index = accrued.borrow_index
      /\ updated.liquidity_index = accrued.liquidity_index
      /\ updated.borrow_rate = accrued.borrow_rate
      /\ updated.liquidity_rate = accrued.liquidity_rate
      /\ updated.indexes_last_updated = accrued.indexes_last_updated
      /\ updated.debt_total_scaled = accrued.debt_total_scaled
  BY <1>4, <1>5, <1>6 DEF MarketInv, SoundMarket, Markets, Params
<1> HIDE DEF updated
<1>8. MarketInv(updated) /\ SoundMarket(updated)
  BY <1>5, <1>6, <1>7 DEF MarketInv, SoundMarket
<1>9. CASE reprice
  <2> DEFINE u == UtilizationRate(updated, cash[a])
  <2>1. u \in Nat /\ u <= One
    BY <1>1, <1>8, UtilizationType
  <2>2. r = UpdateMarketInterestRatesWithModel(updated, u, now)
    BY <1>9 DEF UpdateInterestRates
  <2> HIDE DEF u
  <2>3. /\ SoundMarket(r)
        /\ r.liquidity_rate <= r.borrow_rate
        /\ r.borrow_index = updated.borrow_index
        /\ r.liquidity_index = updated.liquidity_index
        /\ r.indexes_last_updated = updated.indexes_last_updated
        /\ r.debt_total_scaled = updated.debt_total_scaled
        /\ MovesOnce(updated, r, now)
        /\ r.interest_rate_model.kind = updated.interest_rate_model.kind
    BY <1>1, <1>3, <1>7, <1>8, <1>9, <2>1, <2>2, RateUpdate
  <2> HIDE DEF r
  <2>4. MarketInv(r)
    BY <1>8, <2>3 DEF MarketInv
  <2>5. MovesOnce(m, r, now)
    <3>1. CASE model = m.interest_rate_model
      BY <1>5, <1>7, <2>3, <3>1 DEF MovesOnce
    \* a model that is replaced is dated now, and does not move
    <3>2. CASE model.kind = "dynamic" => model.borrow_rate_last_updated = now
      <4>1. now <= now /\ ~(now < now)
        BY <1>1
      <4>2. Dated(updated.interest_rate_model, now)
        BY <1>7, <3>2, <4>1 DEF Dated
      <4>3. /\ Dated(r.interest_rate_model, now)
            /\ r.interest_rate_model.kind = "dynamic" => r.borrow_rate = updated.borrow_rate
        BY <1>7, <2>3, <3>2, <4>1, <4>2 DEF MovesOnce
      <4> QED
        BY <1>5, <1>7, <4>3 DEF MovesOnce
    <3> QED
      BY <1>13, <3>1, <3>2
  <2> QED
    BY <1>1, <1>3, <1>5, <1>7, <1>9, <2>3, <2>4, <2>5 DEF m
<1>10. CASE ~reprice
  <2>1. r = updated
    BY <1>10
  <2>2. model = m.interest_rate_model
    BY <1>5, <1>10, <1>12 DEF model
  <2>3. MovesOnce(m, r, now)
    BY <1>5, <1>7, <2>1, <2>2 DEF MovesOnce
  <2> QED
    BY <1>1, <1>3, <1>5, <1>7, <1>8, <1>10, <1>12, <2>1, <2>3 DEF m
<1> QED
  BY <1>9, <1>10

\* What a handler that refreshes market a and sets its debt total leaves behind.
Refreshed(m, r, debtTotal) ==
  /\ MarketInv(r)
  /\ r.borrow_index = BorrowIndex(m)
  /\ r.liquidity_index = LiquidityIndex(m)
  /\ r.indexes_last_updated = now
  /\ r.debt_total_scaled = debtTotal
  /\ MovesOnce(m, r, now)

MarketRefreshed(a, debtTotal) ==
  /\ Listed(a) /\ Listed(a)'
  /\ Refreshed(markets[a], markets'[a], debtTotal)
  /\ \A b \in Assets \ {a} : markets'[b] = markets[b]
  /\ markets' \in [Assets -> Markets \cup {NoMarket}]
  /\ \A b \in Assets : Listed(b)' => MarketInv(markets'[b])

\* A step that refreshes one market leaves it sound, and no market is mistaken
\* for a missing one.
LEMMA RefreshStep ==
  ASSUME TypeInv, NEW a \in Assets, Listed(a), markets[a].reserve_factor <= One,
         NEW debtTotal \in Nat, NEW available \in Nat,
         markets' = [markets EXCEPT ![a] = Refresh(markets[a], debtTotal, available)]
  PROVE  MarketRefreshed(a, debtTotal)
<1> DEFINE r == Refresh(markets[a], debtTotal, available)
<1>1. MarketInv(markets[a]) /\ now \in Nat
  BY DEF TypeInv, TypeOK
<1>2. Refreshed(markets[a], r, debtTotal)
  BY <1>1, RefreshFacts DEF Refreshed
<1>3. MarketInv(r)
  BY <1>2 DEF Refreshed
<1> HIDE DEF r
<1>4. markets' = [markets EXCEPT ![a] = r]
  BY DEF r
<1>5. /\ markets' \in [Assets -> Markets \cup {NoMarket}]
      /\ markets'[a] = r
      /\ \A b \in Assets \ {a} : markets'[b] = markets[b]
      /\ \A b \in Assets : Listed(b)' => MarketInv(markets'[b])
  BY <1>3, <1>4, OneMarketStep
<1>6. Listed(a)'
  BY <1>3, <1>5, RedBankAssumptions DEF Listed, MarketInv, SoundMarket
<1> QED
  BY <1>2, <1>5, <1>6 DEF MarketRefreshed

\* Deposit keeps the type invariant, and the debt total of its market.
LEMMA DepositStep ==
  ASSUME TypeInv, NEW a \in Assets, NEW u \in Addresses, NEW amount \in Nat,
         Deposit(u, a, amount)
  PROVE  TypeInv' /\ MarketRefreshed(a, markets[a].debt_total_scaled)
<1> DEFINE m == markets[a]
           mint == ScaledLiquidity(amount, m)
<1>1. Listed(a) /\ MarketInv(m) /\ now \in Nat /\ cash[a] \in Nat
      /\ m.debt_total_scaled \in Nat /\ m.reserve_factor <= One
  BY DEF Deposit, TypeInv, TypeOK, CanRefresh, MarketInv, SoundMarket, Markets
<1>2. mint \in Nat /\ maTokens[a] \in [Addresses -> Nat]
  BY <1>1, ScalingType DEF TypeInv, TypeOK
<1>3. cash' \in [Assets -> Nat] /\ cash'[a] \in Nat
  BY DEF Deposit, TypeInv, TypeOK
<1>4. MarketRefreshed(a, m.debt_total_scaled)
  BY <1>1, <1>3, RefreshStep DEF Deposit
<1>5. WithRewards(maTokens[a], m) \in [Addresses -> Nat]
  BY <1>1, <1>2, WithRewardsType
<1>6. Credit(WithRewards(maTokens[a], m), u, mint) \in [Addresses -> Nat]
  BY <1>2, <1>5, LedgerType
<1>7. maTokens' \in [Assets -> [Addresses -> Nat]]
  BY <1>6 DEF Deposit, TypeInv, TypeOK
<1>8. known' \subseteq Addresses /\ collateral' \in [Addresses -> SUBSET Assets]
  BY DEF Deposit, TypeInv, TypeOK
<1> QED
  BY <1>3, <1>4, <1>7, <1>8 DEF Deposit, TypeInv, TypeOK, MarketRefreshed

\* Withdraw keeps the type invariant, and the debt total of its market.
LEMMA WithdrawStep ==
  ASSUME TypeInv, NEW a \in Assets, NEW u \in Addresses, NEW amount \in Nat,
         Withdraw(u, a, amount)
  PROVE  TypeInv' /\ MarketRefreshed(a, markets[a].debt_total_scaled)
<1> DEFINE m == markets[a]
           held == maTokens[a][u]
           balance == UnderlyingLiquidity(held, m)
           left == ScaledLiquidity(balance - amount, m)
<1>1. Listed(a) /\ MarketInv(m) /\ now \in Nat /\ cash[a] \in Nat
      /\ m.debt_total_scaled \in Nat /\ m.reserve_factor <= One
  BY DEF Withdraw, TypeInv, TypeOK, CanRefresh, MarketInv, SoundMarket, Markets
<1>2. held \in Nat /\ maTokens[a] \in [Addresses -> Nat]
  BY DEF TypeInv, TypeOK
<1>3. balance \in Nat
  BY <1>1, <1>2, ScalingType
<1>4. amount <= balance /\ balance - amount \in Nat
  BY <1>3 DEF Withdraw
<1>5. left \in Nat
  BY <1>1, <1>4, ScalingType
<1>6. held - left \in Nat /\ held - left <= held
  BY <1>2, <1>5 DEF Withdraw
<1>7. Debit(maTokens[a], u, held - left) \in [Addresses -> Nat]
  BY <1>2, <1>6, LedgerType
<1>8. WithRewards(Debit(maTokens[a], u, held - left), m) \in [Addresses -> Nat]
  BY <1>1, <1>7, WithRewardsType
<1>9. maTokens' \in [Assets -> [Addresses -> Nat]]
  BY <1>8 DEF Withdraw, TypeInv, TypeOK
<1>10. cash' \in [Assets -> Nat] /\ cash'[a] \in Nat
  BY DEF Withdraw, TypeInv, TypeOK
<1>11. MarketRefreshed(a, m.debt_total_scaled)
  BY <1>1, <1>10, RefreshStep DEF Withdraw
<1>12. collateral' \in [Addresses -> SUBSET Assets]
  BY DEF Withdraw, TypeInv, TypeOK
<1> QED
  BY <1>9, <1>10, <1>11, <1>12 DEF Withdraw, TypeInv, TypeOK, MarketRefreshed

\* Borrow adds the same scaled amount to the debt and to the debt total.
LEMMA BorrowStep ==
  ASSUME TypeInv, NEW a \in Assets, NEW u \in Addresses, NEW amount \in Nat,
         Borrow(u, a, amount)
  PROVE  LET scaled == ScaledDebt(amount, markets[a])
         IN  /\ TypeInv' /\ scaled \in Nat
             /\ MarketRefreshed(a, markets[a].debt_total_scaled + scaled)
<1> DEFINE m == markets[a]
           scaled == ScaledDebt(amount, m)
<1>1. Listed(a) /\ MarketInv(m) /\ now \in Nat /\ cash[a] \in Nat
      /\ m.debt_total_scaled \in Nat /\ m.reserve_factor <= One
  BY DEF Borrow, TypeInv, TypeOK, CanRefresh, MarketInv, SoundMarket, Markets
<1>2. scaled \in Nat /\ maTokens[a] \in [Addresses -> Nat]
  BY <1>1, ScalingType DEF TypeInv, TypeOK
<1>3. cash' \in [Assets -> Nat] /\ cash'[a] \in Nat
  BY DEF Borrow, TypeInv, TypeOK
<1>4. m.debt_total_scaled + scaled \in Nat
  BY <1>1, <1>2
<1>5. MarketRefreshed(a, m.debt_total_scaled + scaled)
  BY <1>1, <1>3, <1>4, RefreshStep DEF Borrow
<1>6. WithRewards(maTokens[a], m) \in [Addresses -> Nat]
  BY <1>1, <1>2, WithRewardsType
<1>7. maTokens' \in [Assets -> [Addresses -> Nat]]
  BY <1>6 DEF Borrow, TypeInv, TypeOK
<1>8. debts' \in [Assets -> [Addresses -> Nat]]
  BY <1>2 DEF Borrow, TypeInv, TypeOK
<1>9. known' \subseteq Addresses /\ borrowed' \in [Addresses -> SUBSET Assets]
  BY DEF Borrow, TypeInv, TypeOK
<1> QED
  BY <1>2, <1>3, <1>5, <1>7, <1>8, <1>9 DEF Borrow, TypeInv, TypeOK, MarketRefreshed

\* Repay takes the same scaled amount from the debt and from the debt total.
LEMMA RepayStep ==
  ASSUME TypeInv, NEW a \in Assets, NEW u \in Addresses, NEW sender \in Addresses,
         NEW amount \in Nat, Repay(sender, u, a, amount)
  PROVE  \E after \in Nat :
           /\ TypeInv' /\ after <= debts[a][u]
           /\ debts[a][u] - after <= markets[a].debt_total_scaled
           /\ debts' = [debts EXCEPT ![a][u] = after]
           /\ borrowed' = IF after = 0 THEN [borrowed EXCEPT ![u] = @ \ {a}] ELSE borrowed
           /\ MarketRefreshed(a, markets[a].debt_total_scaled - (debts[a][u] - after))
<1> DEFINE m == markets[a]
           owed == UnderlyingDebt(debts[a][u], m)
           repaid == SmallerOf(amount, owed)
           after == ScaledDebt(owed - repaid, m)
<1>1. Listed(a) /\ MarketInv(m) /\ now \in Nat /\ cash[a] \in Nat
      /\ m.debt_total_scaled \in Nat /\ m.reserve_factor <= One
  BY DEF Repay, TypeInv, TypeOK, CanRefresh, MarketInv, SoundMarket, Markets
<1>2. debts[a][u] \in Nat /\ maTokens[a] \in [Addresses -> Nat]
  BY DEF TypeInv, TypeOK
<1>3. owed \in Nat
  BY <1>1, <1>2, ScalingType
<1>4. repaid \in Nat /\ owed - repaid \in Nat
  BY <1>3 DEF SmallerOf
<1>5. after \in Nat
  BY <1>1, <1>4, ScalingType
<1> HIDE DEF after, repaid
<1>6. /\ after <= debts[a][u]
      /\ debts[a][u] - after <= m.debt_total_scaled
      /\ debts' = [debts EXCEPT ![a][u] = after]
      /\ borrowed' = IF after = 0 THEN [borrowed EXCEPT ![u] = @ \ {a}] ELSE borrowed
      /\ cash' = [cash EXCEPT ![a] = @ + repaid]
      /\ markets' = [markets EXCEPT ![a] =
           Refresh(m, m.debt_total_scaled - (debts[a][u] - after), cash[a] + amount)]
      /\ maTokens' = [maTokens EXCEPT ![a] = WithRewards(@, m)]
  BY <1>1, <1>2, <1>5 DEF Repay, after, repaid
<1>7. m.debt_total_scaled - (debts[a][u] - after) \in Nat /\ cash[a] + amount \in Nat
  BY <1>1, <1>2, <1>5, <1>6
<1>8. MarketRefreshed(a, m.debt_total_scaled - (debts[a][u] - after))
  BY <1>1, <1>6, <1>7, RefreshStep
<1>9. WithRewards(maTokens[a], m) \in [Addresses -> Nat]
  BY <1>1, <1>2, WithRewardsType
<1>10. maTokens' \in [Assets -> [Addresses -> Nat]]
  BY <1>6, <1>9 DEF TypeInv, TypeOK
<1>11. debts' \in [Assets -> [Addresses -> Nat]] /\ cash' \in [Assets -> Nat]
  BY <1>4, <1>5, <1>6 DEF TypeInv, TypeOK
<1>12. borrowed' \in [Addresses -> SUBSET Assets]
  BY <1>6 DEF TypeInv, TypeOK
<1>13. TypeInv'
  BY <1>8, <1>10, <1>11, <1>12 DEF Repay, TypeInv, TypeOK, MarketRefreshed
<1> QED
  BY <1>5, <1>6, <1>8, <1>13

\* UpdateAsset keeps the type invariant.
LEMMA UpdateAssetType ==
  ASSUME TypeInv, NEW a \in Assets, UpdateAsset(a)
  PROVE  TypeInv'
<1>1. Listed(a) /\ MarketInv(markets[a]) /\ now \in Nat
      /\ maTokens[a] \in [Addresses -> Nat]
  BY UpdateAssetMarket DEF TypeInv, TypeOK
<1>2. PICK r : /\ MarketInv(r) /\ markets' = [markets EXCEPT ![a] = r]
  BY UpdateAssetMarket
<1>3. /\ markets' \in [Assets -> Markets \cup {NoMarket}]
      /\ \A b \in Assets : Listed(b)' => MarketInv(markets'[b])
  BY <1>2, OneMarketStep
<1>4. WithRewards(maTokens[a], markets[a]) \in [Addresses -> Nat]
  BY <1>1, WithRewardsType
<1>5. maTokens' \in [Assets -> [Addresses -> Nat]]
  <2>1. PICK ledger : ledger = WithRewards(maTokens[a], markets[a])
    OBVIOUS
  <2>2. ledger \in [Addresses -> Nat]
    BY <1>4, <2>1
  <2>3. maTokens \in [Assets -> [Addresses -> Nat]]
    BY DEF TypeInv, TypeOK
  <2>4. maTokens' = maTokens \/ maTokens' = [maTokens EXCEPT ![a] = ledger]
    <3>1. maTokens' = maTokens \/ maTokens' = [maTokens EXCEPT ![a] = WithRewards(@, markets[a])]
      BY UpdateAssetMarket
    <3> QED
      BY ONLY <2>1, <3>1
  <2> QED
    BY ONLY <2>2, <2>3, <2>4, a \in Assets
<1> QED
  BY <1>3, <1>5 DEF UpdateAsset, TypeInv, TypeOK, position

\* What a liquidation repays and seizes are naturals, and no more than all of
\* the collateral is seized.
LEMMA LiquidationAmountsType ==
  ASSUME TypeInv, NEW u \in Addresses, NEW c \in Assets, NEW d \in Assets,
         Listed(c), Listed(d), NEW sent \in Nat
  PROVE  LET amounts == LiquidationAmounts(u, c, d, sent)
         IN  amounts.repay \in Nat /\ amounts.seize \in Nat
<1> DEFINE debt == UnderlyingDebt(debts[d][u], markets[d])
           balance == UnderlyingLiquidity(maTokens[c][u], markets[c])
           withBonus == One + markets[c].liquidation_bonus
           repay == SmallerOf(sent, Mul(debt, closeFactor))
           seize == Div(Mul(Mul(repay, price[d]), withBonus), price[c])
           capped == Div(Div(Mul(balance, price[c]), price[d]), withBonus)
<1>1. /\ MarketInv(markets[c]) /\ MarketInv(markets[d]) /\ now \in Nat
      /\ debts[d][u] \in Nat /\ maTokens[c][u] \in Nat
      /\ price[c] \in Nat \ {0} /\ price[d] \in Nat \ {0} /\ closeFactor \in Nat
  BY OneAssumption DEF TypeInv, TypeOK
<1>2. withBonus \in Nat \ {0}
  BY <1>1, OneAssumption DEF MarketInv, SoundMarket, Markets
<1>3. debt \in Nat /\ balance \in Nat
  BY <1>1, ScalingType
<1>4. Mul(debt, closeFactor) \in Nat
  BY <1>1, <1>3, MulType
<1>5. repay \in Nat
  BY <1>4 DEF SmallerOf
<1>6. Mul(repay, price[d]) \in Nat
  BY <1>1, <1>5, MulType
<1>7. Mul(Mul(repay, price[d]), withBonus) \in Nat
  BY <1>2, <1>6, MulType
<1>8. seize \in Nat
  BY <1>1, <1>7, DivType
<1>9. Mul(balance, price[c]) \in Nat
  BY <1>1, <1>3, MulType
<1>10. Div(Mul(balance, price[c]), price[d]) \in Nat
  BY <1>1, <1>9, DivType
<1>11. capped \in Nat
  BY <1>2, <1>10, DivType
<1>12. LiquidationAmounts(u, c, d, sent) =
         IF seize <= balance THEN [repay |-> repay, seize |-> seize]
         ELSE [repay |-> capped, seize |-> balance]
  BY DEF LiquidationAmounts
<1> QED
  BY <1>3, <1>5, <1>8, <1>11, <1>12

\* What a liquidation leaves behind: the debt and the debt total of one market
\* move by the same amount, one or two markets are refreshed.
LEMMA LiquidateStep ==
  ASSUME TypeInv, NEW u \in Addresses, NEW liquidator \in Addresses,
         NEW c \in Assets, NEW d \in Assets, NEW sent \in Nat,
         NEW receiveMaToken \in BOOLEAN,
         Liquidate(liquidator, u, c, d, sent, receiveMaToken)
  PROVE  /\ TypeInv'
         /\ \E after \in Nat :
              /\ after <= debts[d][u]
              /\ debts[d][u] - after <= markets[d].debt_total_scaled
              /\ debts' = [debts EXCEPT ![d][u] = after]
              /\ Listed(d)
              /\ \A a \in Assets :
                   \/ a # d /\ markets'[a] = markets[a]
                   \/ /\ Listed(a)
                      /\ Refreshed(markets[a], markets'[a],
                           IF a = d THEN markets[d].debt_total_scaled - (debts[d][u] - after)
                           ELSE markets[a].debt_total_scaled)
         /\ \A a \in Assets, v \in Addresses :
              maTokens'[a][v] > maTokens[a][v] =>
                v = Collector \/ (v = liquidator /\ receiveMaToken)
         /\ receiveMaToken => known' = known \cup {liquidator}
         /\ ~receiveMaToken => known' = known
<1> DEFINE collMarket == markets[c]
           debtMarket == markets[d]
           balance == UnderlyingLiquidity(maTokens[c][u], collMarket)
           amounts == LiquidationAmounts(u, c, d, sent)
           seized == ScaledLiquidity(amounts.seize, collMarket)
           owed == UnderlyingDebt(debts[d][u], debtMarket)
           after == ScaledDebt(owed - amounts.repay, debtMarket)
           debtTotal == debtMarket.debt_total_scaled - (debts[d][u] - after)
           paidOut == IF receiveMaToken THEN 0 ELSE amounts.seize
           moved == IF receiveMaToken
                    THEN Credit(Debit(maTokens[c], u, seized), liquidator, seized)
                    ELSE Debit(maTokens[c], u, seized)
           cashAfter == [a \in Assets |-> cash[a]
                           + (IF a = d THEN amounts.repay ELSE 0)
                           - (IF a = c THEN paidOut ELSE 0)]
           refreshed == {d} \cup (IF receiveMaToken THEN {} ELSE {c})
           totalOf(a) == IF a = d THEN debtTotal ELSE markets[a].debt_total_scaled
           ledgerOf(a) == IF a = c THEN moved ELSE maTokens[a]
<1>1. /\ Listed(c) /\ Listed(d)
      /\ MarketInv(collMarket) /\ MarketInv(debtMarket) /\ now \in Nat
      /\ debts[d][u] \in Nat /\ maTokens[c] \in [Addresses -> Nat]
      /\ debtMarket.debt_total_scaled \in Nat
  BY DEF Liquidate, TypeInv, TypeOK, MarketInv, SoundMarket, Markets
<1>2. amounts.repay \in Nat /\ amounts.seize \in Nat
  BY <1>1, LiquidationAmountsType
<1>3. seized \in Nat /\ owed \in Nat
  BY <1>1, <1>2, ScalingType
<1>4. /\ amounts.repay <= SmallerOf(sent, owed)
      /\ seized <= maTokens[c][u]
      /\ receiveMaToken => liquidator # u
      /\ \A a \in refreshed : CanRefresh(markets[a]) /\ cashAfter[a] >= 0
      /\ after <= debts[d][u]
      /\ debtTotal >= 0
      /\ debts' = [debts EXCEPT ![d][u] = after]
      /\ markets' = [a \in Assets |->
           IF a \in refreshed
           THEN Refresh(markets[a], totalOf(a), cashAfter[a])
           ELSE markets[a]]
      /\ maTokens' = [a \in Assets |->
           IF a \in refreshed THEN WithRewards(ledgerOf(a), markets[a]) ELSE ledgerOf(a)]
      /\ cash' = cashAfter
      /\ collateral' = [v \in Addresses |->
           IF v = u /\ amounts.seize = balance THEN collateral[u] \ {c}
           ELSE IF v = liquidator /\ receiveMaToken THEN collateral[v] \cup {c}
           ELSE collateral[v]]
      /\ known' = IF receiveMaToken THEN known \cup {liquidator} ELSE known
      /\ UNCHANGED <<borrowed, uncollateralized, limits, closeFactor, price, now>>
  BY Zenon DEF Liquidate
<1>5. owed - amounts.repay \in Nat
  BY <1>2, <1>3, <1>4 DEF SmallerOf
<1>6. after \in Nat
  BY <1>1, <1>5, ScalingType
<1>7. debtTotal \in Nat
  BY <1>1, <1>4, <1>6
<1>8. /\ moved \in [Addresses -> Nat]
      /\ \A v \in Addresses : moved[v] > maTokens[c][v] => v = liquidator /\ receiveMaToken
  <2> DEFINE debited == Debit(maTokens[c], u, seized)
             credited == Credit(debited, liquidator, seized)
  <2>1. /\ debited \in [Addresses -> Nat]
        /\ \A v \in Addresses : debited[v] <= maTokens[c][v]
    BY <1>1, <1>3, <1>4, LedgerType DEF Debit
  <2>3. moved = IF receiveMaToken THEN credited ELSE debited
    OBVIOUS
  <2> HIDE DEF debited, seized, amounts
  <2>2. /\ credited \in [Addresses -> Nat]
        /\ \A v \in Addresses \ {liquidator} : credited[v] = debited[v]
    <3>1. seized \in Nat /\ debited \in [Addresses -> Nat]
      BY <1>3, <2>1
    <3>2. /\ Credit(debited, liquidator, seized) \in [Addresses -> Nat]
          /\ \A v \in Addresses \ {liquidator} :
               Credit(debited, liquidator, seized)[v] = debited[v]
      BY ONLY <3>1, liquidator \in Addresses, CreditType
    <3> QED
      BY <3>2
  <2> HIDE DEF credited, moved
  <2>4. \A v \in Addresses : maTokens[c][v] \in Nat /\ debited[v] \in Nat /\ credited[v] \in Nat
    BY <1>1, <2>1, <2>2
  <2> QED
    BY <2>1, <2>2, <2>3, <2>4
<1> HIDE DEF moved, amounts, seized, owed, after, balance
<1>9. cashAfter \in [Assets -> Nat]
  <2>1. \A a \in Assets : cash[a] \in Nat
    BY DEF TypeInv, TypeOK
  <2>2. \A a \in Assets : cashAfter[a] \in Int
    BY <1>2, <2>1
  <2>3. \A a \in Assets : a \notin refreshed => cashAfter[a] = cash[a]
    BY <1>2, <2>1
  <2>6. \A a \in Assets : a \in refreshed => cashAfter[a] >= 0
    BY <1>4
  <2> HIDE DEF cashAfter, refreshed
  <2>4. \A a \in Assets : cashAfter[a] >= 0
    BY <2>1, <2>3, <2>6
  <2>5. \A a \in Assets : cashAfter[a] \in Nat
    BY <2>2, <2>4
  <2> USE DEF cashAfter
  <2> QED
    BY <2>5
<1> HIDE DEF cashAfter, debtTotal
<1>10. \A a \in Assets : a \in refreshed =>
         /\ Listed(a) /\ MarketInv(markets[a]) /\ markets[a].reserve_factor <= One
         /\ totalOf(a) \in Nat /\ cashAfter[a] \in Nat
  BY <1>1, <1>4, <1>7, <1>9 DEF CanRefresh, MarketInv, SoundMarket, Markets
<1>11. \A a \in Assets :
         \/ a # d /\ markets'[a] = markets[a]
         \/ Listed(a) /\ Refreshed(markets[a], markets'[a], totalOf(a))
  <2> SUFFICES ASSUME NEW a \in Assets
               PROVE  \/ a # d /\ markets'[a] = markets[a]
                      \/ Listed(a) /\ Refreshed(markets[a], markets'[a], totalOf(a))
    OBVIOUS
  <2>1. CASE a \in refreshed
    <3>1. markets'[a] = Refresh(markets[a], totalOf(a), cashAfter[a])
      BY <1>4, <2>1
    <3> HIDE DEF totalOf, refreshed
    <3> QED
      BY <1>1, <1>10, <2>1, <3>1, RefreshFacts DEF Refreshed
  <2>2. CASE a \notin refreshed
    BY <1>4, <2>2
  <2> QED
    BY <2>1, <2>2
<1>12. /\ markets' \in [Assets -> Markets \cup {NoMarket}]
       /\ \A a \in Assets : Listed(a)' => MarketInv(markets'[a])
  <2>1. \A a \in Assets : markets'[a] = markets[a] \/ MarketInv(markets'[a])
    BY <1>11 DEF Refreshed
  <2>2. markets' = [a \in Assets |-> markets'[a]]
    BY <1>4
  <2>3. \A a \in Assets : markets'[a] \in Markets \cup {NoMarket}
    BY <2>1 DEF TypeInv, TypeOK, MarketInv, SoundMarket
  <2> QED
    BY <2>1, <2>2, <2>3 DEF TypeInv, Listed
<1>13. \A a \in Assets :
         /\ ledgerOf(a) \in [Addresses -> Nat]
         /\ \A v \in Addresses : ledgerOf(a)[v] > maTokens[a][v] =>
                                    v = liquidator /\ receiveMaToken
  BY <1>8 DEF TypeInv, TypeOK
<1>14. \A a \in Assets :
         /\ maTokens'[a] \in [Addresses -> Nat]
         /\ \A v \in Addresses \ {Collector} : maTokens'[a][v] = ledgerOf(a)[v]
  <2> SUFFICES ASSUME NEW a \in Assets
               PROVE  /\ maTokens'[a] \in [Addresses -> Nat]
                      /\ \A v \in Addresses \ {Collector} : maTokens'[a][v] = ledgerOf(a)[v]
    OBVIOUS
  <2>1. CASE a \in refreshed
    <3>1. maTokens'[a] = WithRewards(ledgerOf(a), markets[a])
      BY <1>4, <2>1
    <3>2. MarketInv(markets[a]) /\ now \in Nat /\ ledgerOf(a) \in [Addresses -> Nat]
      BY <1>1, <1>10, <1>13, <2>1
    <3> HIDE DEF ledgerOf
    <3> QED
      BY <3>1, <3>2, WithRewardsType
  <2>2. CASE a \notin refreshed
    BY <1>4, <1>13, <2>2
  <2> QED
    BY <2>1, <2>2
<1>15. maTokens' \in [Assets -> [Addresses -> Nat]]
  BY <1>4, <1>14
<1>16. debts' \in [Assets -> [Addresses -> Nat]]
  BY <1>4, <1>6 DEF TypeInv, TypeOK
<1>17. known' \subseteq Addresses /\ collateral' \in [Addresses -> SUBSET Assets]
  BY <1>4 DEF TypeInv, TypeOK
<1>18. TypeInv'
  BY <1>4, <1>9, <1>12, <1>15, <1>16, <1>17 DEF TypeInv, TypeOK
<1>19. debts[d][u] - after <= debtMarket.debt_total_scaled
  BY <1>1, <1>4, <1>6 DEF debtTotal
<1> QED
  BY <1>1, <1>4, <1>6, <1>11, <1>13, <1>14, <1>18, <1>19 DEF debtTotal

\* A transfer of maTokens moves them within one ledger.
LEMMA TransferStep ==
  ASSUME TypeInv, NEW a \in Assets, NEW u \in Addresses, NEW recipient \in Addresses,
         NEW amount \in Nat, TransferMaToken(u, recipient, a, amount)
  PROVE  /\ TypeInv'
         /\ \A b \in Assets, v \in Addresses :
              maTokens'[b][v] > maTokens[b][v] => b = a /\ v = recipient
<1> DEFINE debited == Debit(maTokens[a], u, amount)
           ledger == Credit(debited, recipient, amount)
<1>1. maTokens[a] \in [Addresses -> Nat] /\ amount <= maTokens[a][u]
  BY DEF TransferMaToken, TypeInv, TypeOK
<1>2. /\ debited \in [Addresses -> Nat]
      /\ \A v \in Addresses : debited[v] <= maTokens[a][v]
  BY <1>1, LedgerType DEF Debit
<1>3. maTokens' = [maTokens EXCEPT ![a] = ledger]
  BY DEF TransferMaToken
<1> HIDE DEF debited
<1>4. /\ ledger \in [Addresses -> Nat]
      /\ \A v \in Addresses \ {recipient} : ledger[v] = debited[v]
  BY ONLY <1>2, amount \in Nat, recipient \in Addresses, CreditType
<1> HIDE DEF ledger
<1>5. maTokens' \in [Assets -> [Addresses -> Nat]]
  BY <1>3, <1>4 DEF TypeInv, TypeOK
<1>6. known' \subseteq Addresses /\ collateral' \in [Addresses -> SUBSET Assets]
  BY DEF TransferMaToken, TypeInv, TypeOK
<1>7. TypeInv'
  BY <1>5, <1>6 DEF TransferMaToken, TypeInv, TypeOK, Listed
<1>8. \A v \in Addresses : ledger[v] > maTokens[a][v] => v = recipient
  BY <1>1, <1>2, <1>4
<1>9. \A b \in Assets, v \in Addresses : maTokens[b][v] \in Nat
  BY DEF TypeInv, TypeOK
<1>10. \A b \in Assets, v \in Addresses :
         maTokens'[b][v] > maTokens[b][v] => b = a /\ v = recipient
  BY <1>3, <1>8, <1>9 DEF TypeInv, TypeOK
<1> QED
  BY <1>7, <1>10

\* The steps that touch no amount of a market keep the type invariant.
LEMMA OtherStepsType ==
  ASSUME TypeInv
  PROVE  /\ \A a \in Assets : PriceChange(a) => TypeInv'
         /\ \A a \in Assets, u \in Addresses :
              /\ UpdateUncollateralizedLoanLimit(u, a) => TypeInv'
              /\ UpdateAssetCollateralStatus(u, a) => TypeInv'
         /\ UpdateConfig => TypeInv'
         /\ Tick => TypeInv'
         /\ UNCHANGED vars => TypeInv'
<1>1. ASSUME NEW a \in Assets, PriceChange(a)
      PROVE  TypeInv'
  <2>1. PICK p \in Prices[a] : price' = [price EXCEPT ![a] = p]
    BY <1>1 DEF PriceChange
  <2>2. p \in Nat \ {0}
    BY RedBankAssumptions
  <2> QED
    BY <1>1, <2>1, <2>2 DEF PriceChange, TypeInv, TypeOK, Listed, position
<1>2. ASSUME NEW a \in Assets, NEW u \in Addresses, UpdateUncollateralizedLoanLimit(u, a)
      PROVE  TypeInv'
  <2>1. PICK limit \in Limits :
          /\ limits' = [limits EXCEPT ![a][u] = limit]
          /\ uncollateralized' =
              [uncollateralized EXCEPT ![a] = IF limit = 0 THEN @ \ {u} ELSE @ \cup {u}]
    BY <1>2 DEF UpdateUncollateralizedLoanLimit
  <2>2. limit \in Nat
    BY RedBankAssumptions
  <2>3. /\ limits' \in [Assets -> [Addresses -> Nat]]
        /\ uncollateralized' \in [Assets -> SUBSET Addresses]
    BY <2>1, <2>2 DEF TypeInv, TypeOK
  <2> QED
    BY <1>2, <2>3 DEF UpdateUncollateralizedLoanLimit, TypeInv, TypeOK, Listed, position
<1>3. ASSUME NEW a \in Assets, NEW u \in Addresses, UpdateAssetCollateralStatus(u, a)
      PROVE  TypeInv'
  <2>2. collateral \in [Addresses -> SUBSET Assets] /\ known \subseteq Addresses
    BY DEF TypeInv, TypeOK
  <2>3. /\ known' = known \cup {u}
        /\ \/ collateral' = [collateral EXCEPT ![u] = @ \cup {a}]
           \/ collateral' = [collateral EXCEPT ![u] = @ \ {a}]
    BY <1>3 DEF UpdateAssetCollateralStatus
  <2>1. known' \subseteq Addresses /\ collateral' \in [Addresses -> SUBSET Assets]
    BY <2>2, <2>3
  <2> QED
    BY <1>3, <2>1 DEF UpdateAssetCollateralStatus, TypeInv, TypeOK, Listed
<1>4. ASSUME UpdateConfig
      PROVE  TypeInv'
  <2>1. closeFactor' \in 0 .. One
    BY <1>4, RedBankAssumptions, OneAssumption DEF UpdateConfig, AtMostOne
  <2> QED
    BY <1>4, <2>1 DEF UpdateConfig, TypeInv, TypeOK, Listed, position
<1>5. ASSUME Tick
      PROVE  TypeInv'
  BY <1>5 DEF Tick, TypeInv, TypeOK, Listed, position
<1>6. ASSUME UNCHANGED vars
      PROVE  TypeInv'
  BY <1>6 DEF vars, TypeInv, TypeOK, Listed, position
<1> QED
  BY <1>1, <1>2, <1>3, <1>4, <1>5, <1>6

\* Initially the type invariant holds.
LEMMA TypeInvInit ==
  ASSUME Init
  PROVE  TypeInv
<1>1. closeFactor \in 0 .. One
  BY RedBankAssumptions, OneAssumption DEF Init, AtMostOne
<1>2. price \in [Assets -> Nat \ {0}]
  <2>1. price \in [Assets -> UNION {Prices[a] : a \in Assets}]
        /\ \A a \in Assets : price[a] \in Prices[a]
    BY DEF Init
  <2>2. \A a \in Assets : price[a] \in Nat \ {0}
    BY <2>1, RedBankAssumptions
  <2> QED
    BY <2>1, <2>2
<1> QED
  BY <1>1, <1>2 DEF Init, TypeInv, TypeOK, Listed

\* Every step keeps the type invariant.
LEMMA TypeInvStep ==
  ASSUME TypeInv, [Next]_vars
  PROVE  TypeInv'
<1>1. ASSUME NEW a \in Assets, StepOf(a)
      PROVE  TypeInv'
  <2>1. CASE InitAsset(a) \/ UpdateAsset(a) \/ PriceChange(a)
    BY <2>1, InitAssetType, UpdateAssetType, OtherStepsType
  <2>2. ASSUME NEW u \in Addresses,
               UpdateUncollateralizedLoanLimit(u, a) \/ UpdateAssetCollateralStatus(u, a)
        PROVE  TypeInv'
    BY <2>2, OtherStepsType
  <2>3. ASSUME NEW u \in Addresses, NEW amount \in Nat,
               Deposit(u, a, amount) \/ Withdraw(u, a, amount) \/ Borrow(u, a, amount)
        PROVE  TypeInv'
    BY <2>3, DepositStep, WithdrawStep, BorrowStep
  <2>4. ASSUME NEW u \in Addresses, NEW amount \in Nat, NEW other \in Addresses,
               Repay(other, u, a, amount) \/ TransferMaToken(u, other, a, amount)
        PROVE  TypeInv'
    BY <2>4, RepayStep, TransferStep
  <2>5. ASSUME NEW u \in Addresses, NEW liquidator \in Addresses, NEW c \in Assets,
               NEW amount \in Nat, NEW receiveMaToken \in BOOLEAN,
               Liquidate(liquidator, u, c, a, amount, receiveMaToken)
        PROVE  TypeInv'
    BY <2>5, LiquidateStep
  <2> QED
    BY <1>1, <2>1, <2>2, <2>3, <2>4, <2>5 DEF StepOf
<1>2. CASE Next
  BY <1>1, <1>2, NextSteps, OtherStepsType
<1>3. CASE UNCHANGED vars
  BY <1>3, OtherStepsType
<1> QED
  BY <1>2, <1>3

\* In every reachable state each stored amount is a natural number, each market
\* sound: none of the handlers' subtractions leaves a negative amount behind.
THEOREM TypeCorrect == Spec => []TypeInv
<1>1. Init => TypeInv
  BY TypeInvInit
<1>2. TypeInv /\ [Next]_vars => TypeInv'
  BY TypeInvStep
<1> QED
  BY <1>1, <1>2, PTL DEF Spec

\* The type invariant of the runs.
THEOREM TypeSafe == Spec => []TypeOK
<1>1. TypeInv => TypeOK
  BY DEF TypeInv
<1> QED
  BY <1>1, TypeCorrect, PTL

\* However the rates move, and whatever the owner sets, depositors never earn
\* more than borrowers pay.
THEOREM DepositsNeverEarnMore == Spec => []DepositsEarnLess
<1>1. TypeInv => DepositsEarnLess
  BY IndexOrder DEF TypeInv, TypeOK, DepositsEarnLess
<1> QED
  BY <1>1, TypeCorrect, PTL

\* Nobody gains by scaling: a deposit is never worth more at once than what was
\* paid in, a new debt never less than what was paid out.
RoundsForTheBank ==
  \A a \in QueryMarketsList, amount \in Nat :
    /\ QueryUnderlyingLiquidityAmount(a, QueryScaledLiquidityAmount(a, amount)) <= amount
    /\ QueryUnderlyingDebtAmount(a, QueryScaledDebtAmount(a, amount)) >= amount

\* Scaled and unscaled again an amount is rounded down on the side of deposits.
LEMMA DepositRoundTrip ==
  ASSUME NEW m, MarketInv(m), now \in Nat, NEW amount \in Nat
  PROVE  UnderlyingLiquidity(ScaledLiquidity(amount, m), m) <= amount
<1> DEFINE index == LiquidityIndex(m)
           fine == amount * ScalingFactor
           scaled == (fine * One) \div index
<1>1. index \in Nat \ {0} /\ ScalingFactor \in Nat \ {0} /\ One \in Nat \ {0}
  BY IndexOrder, RedBankAssumptions, OneAssumption
<1>2. fine \in Nat
  BY <1>1, ProductType
<1>3. fine * One \in Nat
  BY <1>1, <1>2, ProductType
<1>4. scaled = ScaledLiquidity(amount, m)
  BY DEF ScaledAmount, ScaledLiquidity, Div
<1> HIDE DEF index
<1>5. scaled \in Nat /\ scaled * index <= fine * One
  <2> HIDE DEF fine
  <2> QED
    BY <1>1, <1>3, DivFloor
<1>6. Mul(scaled, index) \in Nat /\ Mul(scaled, index) <= fine
  <2> HIDE DEF fine, scaled
  <2>1. scaled * index \in Nat
    BY <1>1, <1>5, ProductType
  <2>2. (scaled * index) \div One <= fine
    BY <1>1, <1>2, <1>5, <2>1, DivUpper
  <2> QED
    BY <1>1, <2>1, <2>2, DivFloor DEF Mul
<1>7. Mul(scaled, index) \div ScalingFactor <= amount
  <2> HIDE DEF scaled
  <2> QED
    BY <1>1, <1>6, DivUpper
<1> QED
  BY <1>4, <1>7 DEF UnderlyingLiquidity, index

\* And up on the side of debts.
LEMMA DebtRoundTrip ==
  ASSUME NEW m, MarketInv(m), now \in Nat, NEW amount \in Nat
  PROVE  UnderlyingDebt(ScaledDebt(amount, m), m) >= amount
<1> DEFINE index == BorrowIndex(m)
           fine == amount * ScalingFactor
           scaled == CeilDiv(fine * One, index)
           owed == Mul(scaled, index)
<1>1. index \in Nat \ {0} /\ ScalingFactor \in Nat \ {0} /\ One \in Nat \ {0}
  BY IndexOrder, RedBankAssumptions, OneAssumption
<1>2. fine \in Nat
  BY <1>1, ProductType
<1>3. fine * One \in Nat
  BY <1>1, <1>2, ProductType
<1>4. scaled = ScaledDebt(amount, m)
  BY DEF ScaledAmount, ScaledDebt, DivCeil
<1> HIDE DEF index
<1>5. scaled \in Nat /\ fine * One <= scaled * index
  <2> HIDE DEF fine
  <2> QED
    BY <1>1, <1>3, CeilDivCovers
<1>6. owed \in Nat /\ fine <= owed
  <2> HIDE DEF fine, scaled
  <2>1. scaled * index \in Nat
    BY <1>1, <1>5, ProductType
  <2>2. (fine * One) \div One <= (scaled * index) \div One
    BY <1>1, <1>3, <1>5, <2>1, DivMono
  <2>3. (fine * One) \div One = fine
    BY <1>1, <1>2, DivExact
  <2>4. (scaled * index) \div One \in Nat
    BY <1>1, <2>1, DivFloor
  <2> QED
    BY <2>2, <2>3, <2>4 DEF Mul
<1>7. CeilDiv(owed, ScalingFactor) >= amount
  <2> HIDE DEF owed, scaled
  <2> DEFINE up == CeilDiv(owed, ScalingFactor)
  <2>1. up \in Nat /\ owed <= up * ScalingFactor
    BY <1>1, <1>6, CeilDivCovers
  <2> HIDE DEF up
  <2>2. amount * ScalingFactor <= up * ScalingFactor
    BY <1>1, <1>2, <1>6, <2>1, ProductType
  <2>3. (amount * ScalingFactor) \div ScalingFactor <= (up * ScalingFactor) \div ScalingFactor
    <3>1. up * ScalingFactor \in Nat /\ amount * ScalingFactor \in Nat
      BY <1>1, <2>1, ProductType
    <3> QED
      BY <1>1, <2>2, <3>1, DivMono
  <2>4. amount <= up
    BY <1>1, <2>1, <2>3, DivExact
  <2> QED
    BY <2>1, <2>4 DEF up
<1> QED
  BY <1>4, <1>7 DEF UnderlyingDebt, UnderlyingDebtAt, index

\* Whatever the indexes have become, the roundings of the four conversions favour
\* the red bank, for every amount.
THEOREM RoundingFavoursTheBank == Spec => []RoundsForTheBank
<1>1. TypeInv => RoundsForTheBank
  BY DepositRoundTrip, DebtRoundTrip
  DEF TypeInv, TypeOK, RoundsForTheBank, QueryMarketsList, QueryUnderlyingLiquidityAmount,
      QueryScaledLiquidityAmount, QueryUnderlyingDebtAmount, QueryScaledDebtAmount
<1> QED
  BY <1>1, TypeCorrect, PTL

-----------------------------------------------------------------------------
(* The ledger of debts.  DebtTotalIsSum is not inductive: a market that is     *)
(* listed later must find no debts.                                            *)

DebtInv ==
  \A a \in Assets :
    IF Listed(a) THEN markets[a].debt_total_scaled = Total(debts[a], Addresses)
                 ELSE \A u \in Addresses : debts[a][u] = 0

\* The debt total of market b, and whether there is one, stays.
SameDebtTotal(b) ==
  /\ Listed(b)' <=> Listed(b)
  /\ Listed(b) => markets'[b].debt_total_scaled = markets[b].debt_total_scaled

\* One debt changes, and the total of its market by as much.
LEMMA DebtEntryStep ==
  ASSUME TypeInv, DebtInv, NEW a \in Assets, NEW u \in Addresses, NEW v \in Nat,
         Listed(a), Listed(a)', debts' = [debts EXCEPT ![a][u] = v],
         markets'[a].debt_total_scaled = markets[a].debt_total_scaled - debts[a][u] + v,
         \A b \in Assets \ {a} : SameDebtTotal(b)
  PROVE  DebtInv'
<1>1. IsFiniteSet(Addresses) /\ debts[a] \in [Addresses -> Nat]
      /\ debts \in [Assets -> [Addresses -> Nat]]
  BY RedBankAssumptions DEF TypeInv, TypeOK
<1>2. Total([debts[a] EXCEPT ![u] = v], Addresses) = Total(debts[a], Addresses) - debts[a][u] + v
  BY <1>1, TotalUpdate
<1>3. /\ debts'[a] = [debts[a] EXCEPT ![u] = v]
      /\ \A b \in Assets \ {a} : debts'[b] = debts[b]
  BY <1>1
<1>4. markets'[a].debt_total_scaled = Total(debts'[a], Addresses)
  BY <1>2, <1>3 DEF DebtInv
<1>5. ASSUME NEW b \in Assets \ {a}
      PROVE  IF Listed(b)' THEN markets'[b].debt_total_scaled = Total(debts'[b], Addresses)
                           ELSE \A w \in Addresses : debts'[b][w] = 0
  BY <1>3, <1>5 DEF DebtInv, SameDebtTotal
<1> QED
  BY <1>4, <1>5 DEF DebtInv

\* A step that changes no debt and no debt total keeps them in step.
LEMMA NoDebtStep ==
  ASSUME DebtInv, debts' = debts, \A b \in Assets : SameDebtTotal(b)
  PROVE  DebtInv'
  BY DEF DebtInv, SameDebtTotal

\* So does one that refreshes a market with the debt total it had.
LEMMA RefreshKeepsDebt ==
  ASSUME DebtInv, NEW a \in Assets, MarketRefreshed(a, markets[a].debt_total_scaled),
         debts' = debts
  PROVE  DebtInv'
<1>1. SameDebtTotal(a)
  BY DEF MarketRefreshed, Refreshed, SameDebtTotal
<1>2. \A b \in Assets \ {a} : SameDebtTotal(b)
  BY DEF MarketRefreshed, SameDebtTotal, Listed
<1> QED
  BY <1>1, <1>2, NoDebtStep

\* A new market has no debt, and neither has any address in it.
LEMMA InitAssetDebt ==
  ASSUME TypeInv, DebtInv, NEW a \in Assets, InitAsset(a)
  PROVE  DebtInv'
<1>1. PICK p \in AssetParams[a] : markets' = [markets EXCEPT ![a] = CreateMarket(p)]
  BY DEF InitAsset
<1>2. \A u \in Addresses : debts[a][u] = 0
  BY DEF InitAsset, DebtInv
<1>3. Total(debts[a], Addresses) = 0
  BY <1>2, TotalZero
<1>4. markets'[a] = CreateMarket(p) /\ \A b \in Assets \ {a} : markets'[b] = markets[b]
  BY <1>1 DEF TypeInv, TypeOK
<1>5. markets'[a].debt_total_scaled = 0
  BY <1>4 DEF CreateMarket
<1>6. debts' = debts
  BY DEF InitAsset
<1> QED
  BY <1>2, <1>3, <1>4, <1>5, <1>6 DEF DebtInv, Listed

\* UpdateAsset keeps debts and debt totals in step.
LEMMA UpdateAssetDebt ==
  ASSUME TypeInv, DebtInv, NEW a \in Assets, UpdateAsset(a)
  PROVE  DebtInv'
<1>1. PICK r : /\ markets' = [markets EXCEPT ![a] = r] /\ MarketInv(r)
               /\ r.debt_total_scaled = markets[a].debt_total_scaled
  BY UpdateAssetMarket
<1>2. Listed(a) /\ debts' = debts
  BY DEF UpdateAsset
<1>3. markets'[a] = r /\ \A b \in Assets \ {a} : markets'[b] = markets[b]
  BY <1>1 DEF TypeInv, TypeOK
<1>4. Listed(a)'
  BY <1>1, <1>3, RedBankAssumptions DEF Listed, MarketInv, SoundMarket
<1>5. \A b \in Assets : SameDebtTotal(b)
  BY <1>1, <1>2, <1>3, <1>4 DEF SameDebtTotal, Listed
<1> QED
  BY <1>2, <1>5, NoDebtStep

\* Borrow keeps debts and debt totals in step.
LEMMA BorrowDebt ==
  ASSUME TypeInv, DebtInv, NEW a \in Assets, NEW u \in Addresses, NEW amount \in Nat,
         Borrow(u, a, amount)
  PROVE  DebtInv'
<1> DEFINE scaled == ScaledDebt(amount, markets[a])
<1>1. scaled \in Nat /\ MarketRefreshed(a, markets[a].debt_total_scaled + scaled)
  BY BorrowStep
<1>2. debts' = [debts EXCEPT ![a][u] = debts[a][u] + scaled]
  BY DEF Borrow
<1> HIDE DEF scaled
<1>3. debts[a][u] \in Nat /\ Listed(a)
  BY <1>1 DEF TypeInv, TypeOK, MarketRefreshed
<1>4. markets[a].debt_total_scaled \in Nat
  BY <1>3 DEF TypeInv, MarketInv, SoundMarket, Markets
<1>5. /\ Listed(a)'
      /\ markets'[a].debt_total_scaled =
           markets[a].debt_total_scaled - debts[a][u] + (debts[a][u] + scaled)
  BY <1>1, <1>3, <1>4 DEF MarketRefreshed, Refreshed
<1>6. \A b \in Assets \ {a} : SameDebtTotal(b)
  BY <1>1 DEF MarketRefreshed, SameDebtTotal, Listed
<1>7. debts[a][u] + scaled \in Nat
  BY <1>1, <1>3
<1> QED
  BY <1>2, <1>3, <1>5, <1>6, <1>7, DebtEntryStep

\* Repay keeps debts and debt totals in step.
LEMMA RepayDebt ==
  ASSUME TypeInv, DebtInv, NEW a \in Assets, NEW u \in Addresses, NEW amount \in Nat,
         NEW sender \in Addresses, Repay(sender, u, a, amount)
  PROVE  DebtInv'
<1>1. PICK after \in Nat :
        /\ after <= debts[a][u]
        /\ debts' = [debts EXCEPT ![a][u] = after]
        /\ MarketRefreshed(a, markets[a].debt_total_scaled - (debts[a][u] - after))
  BY RepayStep
<1>2. debts[a][u] \in Nat /\ Listed(a) /\ Listed(a)'
  BY <1>1 DEF TypeInv, TypeOK, MarketRefreshed
<1>3. markets[a].debt_total_scaled \in Nat
  BY <1>2 DEF TypeInv, MarketInv, SoundMarket, Markets
<1>4. markets'[a].debt_total_scaled = markets[a].debt_total_scaled - debts[a][u] + after
  BY <1>1, <1>2, <1>3 DEF MarketRefreshed, Refreshed
<1>5. \A b \in Assets \ {a} : SameDebtTotal(b)
  BY <1>1 DEF MarketRefreshed, SameDebtTotal, Listed
<1> QED
  BY <1>1, <1>2, <1>4, <1>5, DebtEntryStep

\* Liquidate keeps debts and debt totals in step, in one market or in two.
LEMMA LiquidateDebt ==
  ASSUME TypeInv, DebtInv, NEW u \in Addresses, NEW liquidator \in Addresses,
         NEW c \in Assets, NEW d \in Assets, NEW sent \in Nat,
         NEW receiveMaToken \in BOOLEAN,
         Liquidate(liquidator, u, c, d, sent, receiveMaToken)
  PROVE  DebtInv'
<1>1. PICK after \in Nat :
        /\ after <= debts[d][u]
        /\ debts' = [debts EXCEPT ![d][u] = after]
        /\ Listed(d)
        /\ \A a \in Assets :
             \/ a # d /\ markets'[a] = markets[a]
             \/ /\ Listed(a)
                /\ Refreshed(markets[a], markets'[a],
                     IF a = d THEN markets[d].debt_total_scaled - (debts[d][u] - after)
                     ELSE markets[a].debt_total_scaled)
  BY LiquidateStep
<1>2. debts[d][u] \in Nat
  BY DEF TypeInv, TypeOK
<1>3. markets[d].debt_total_scaled \in Nat
  BY <1>1 DEF TypeInv, MarketInv, SoundMarket, Markets
<1>4. ASSUME NEW a \in Assets, NEW total, Refreshed(markets[a], markets'[a], total)
      PROVE  Listed(a)' /\ markets'[a].debt_total_scaled = total
  BY <1>4, RedBankAssumptions DEF Refreshed, MarketInv, SoundMarket, Listed
<1>5. /\ Listed(d)'
      /\ markets'[d].debt_total_scaled = markets[d].debt_total_scaled - debts[d][u] + after
  <2> DEFINE total == markets[d].debt_total_scaled - (debts[d][u] - after)
  <2>1. Refreshed(markets[d], markets'[d], total)
    BY <1>1
  <2>2. total = markets[d].debt_total_scaled - debts[d][u] + after
    BY <1>1, <1>2, <1>3
  <2> HIDE DEF total
  <2> QED
    BY <1>4, <2>1, <2>2
<1>6. ASSUME NEW b \in Assets \ {d}
      PROVE  SameDebtTotal(b)
  <2>1. CASE markets'[b] = markets[b]
    BY <2>1 DEF SameDebtTotal, Listed
  <2>2. CASE Listed(b) /\ Refreshed(markets[b], markets'[b], markets[b].debt_total_scaled)
    BY <1>4, <2>2 DEF SameDebtTotal
  <2> QED
    BY <1>1, <2>1, <2>2
<1> QED
  BY <1>1, <1>5, <1>6, DebtEntryStep

\* Every step keeps debts and debt totals in step.
LEMMA DebtInvStep ==
  ASSUME TypeInv, DebtInv, [Next]_vars
  PROVE  DebtInv'
<1>1. ASSUME markets' = markets, debts' = debts
      PROVE  DebtInv'
  BY <1>1 DEF DebtInv, Listed
<1>2. ASSUME NEW a \in Assets, StepOf(a)
      PROVE  DebtInv'
  <2>1. CASE InitAsset(a) \/ UpdateAsset(a)
    BY <2>1, InitAssetDebt, UpdateAssetDebt
  <2>2. CASE PriceChange(a)
    BY <1>1, <2>2 DEF PriceChange
  <2>3. ASSUME NEW u \in Addresses,
               UpdateUncollateralizedLoanLimit(u, a) \/ UpdateAssetCollateralStatus(u, a)
        PROVE  DebtInv'
    BY <1>1, <2>3 DEF UpdateUncollateralizedLoanLimit, UpdateAssetCollateralStatus
  <2>4. ASSUME NEW u \in Addresses, NEW amount \in Nat,
               Deposit(u, a, amount) \/ Withdraw(u, a, amount)
        PROVE  DebtInv'
    <3>1. MarketRefreshed(a, markets[a].debt_total_scaled)
      BY <2>4, DepositStep, WithdrawStep
    <3>2. debts' = debts
      BY <2>4 DEF Deposit, Withdraw
    <3> QED
      BY <3>1, <3>2, RefreshKeepsDebt
  <2>5. ASSUME NEW u \in Addresses, NEW amount \in Nat, Borrow(u, a, amount)
        PROVE  DebtInv'
    BY <2>5, BorrowDebt
  <2>6. ASSUME NEW u \in Addresses, NEW amount \in Nat, NEW other \in Addresses,
               Repay(other, u, a, amount)
        PROVE  DebtInv'
    BY <2>6, RepayDebt
  <2>7. ASSUME NEW u \in Addresses, NEW amount \in Nat, NEW other \in Addresses,
               TransferMaToken(u, other, a, amount)
        PROVE  DebtInv'
    BY <1>1, <2>7 DEF TransferMaToken
  <2>8. ASSUME NEW u \in Addresses, NEW liquidator \in Addresses, NEW c \in Assets,
               NEW amount \in Nat, NEW receiveMaToken \in BOOLEAN,
               Liquidate(liquidator, u, c, a, amount, receiveMaToken)
        PROVE  DebtInv'
    BY <2>8, LiquidateDebt
  <2> QED
    BY <1>2, <2>1, <2>2, <2>3, <2>4, <2>5, <2>6, <2>7, <2>8 DEF StepOf
<1>3. CASE UpdateConfig \/ Tick \/ UNCHANGED vars
  BY <1>1, <1>3 DEF UpdateConfig, Tick, vars
<1> QED
  BY <1>2, <1>3, NextSteps

\* The total every interest computation uses is the sum of what users owe.
THEOREM DebtTotalsAreSums == Spec => []DebtTotalIsSum
<1>1. Init => TypeInv /\ DebtInv
  BY TypeInvInit DEF Init, DebtInv, Listed
<1>2. TypeInv /\ DebtInv /\ [Next]_vars => TypeInv' /\ DebtInv'
  BY TypeInvStep, DebtInvStep
<1>3. DebtInv => DebtTotalIsSum
  BY DEF DebtInv, DebtTotalIsSum
<1> QED
  BY <1>1, <1>2, <1>3, PTL DEF Spec

-----------------------------------------------------------------------------
(* Flags and records. *)

\* Every step keeps the debts flagged: only a repayment in full unsets a bit.
LEMMA DebtIsFlaggedStep ==
  ASSUME TypeInv, DebtIsFlagged, [Next]_vars
  PROVE  DebtIsFlagged'
<1>1. ASSUME debts' = debts, borrowed' = borrowed
      PROVE  DebtIsFlagged'
  BY <1>1 DEF DebtIsFlagged
<1>2. ASSUME NEW a \in Assets, StepOf(a)
      PROVE  DebtIsFlagged'
  <2>1. CASE InitAsset(a) \/ UpdateAsset(a) \/ PriceChange(a)
    BY <1>1, <2>1 DEF InitAsset, UpdateAsset, PriceChange, position
  <2>2. ASSUME NEW u \in Addresses,
               UpdateUncollateralizedLoanLimit(u, a) \/ UpdateAssetCollateralStatus(u, a)
        PROVE  DebtIsFlagged'
    BY <1>1, <2>2 DEF UpdateUncollateralizedLoanLimit, UpdateAssetCollateralStatus, position
  <2>3. ASSUME NEW u \in Addresses, NEW amount \in Nat,
               Deposit(u, a, amount) \/ Withdraw(u, a, amount)
        PROVE  DebtIsFlagged'
    BY <1>1, <2>3 DEF Deposit, Withdraw
  <2>4. ASSUME NEW u \in Addresses, NEW amount \in Nat, Borrow(u, a, amount)
        PROVE  DebtIsFlagged'
    <3>1. /\ borrowed' = [borrowed EXCEPT ![u] = @ \cup {a}]
          /\ debts' = [debts EXCEPT ![a][u] = @ + ScaledDebt(amount, markets[a])]
      BY <2>4 DEF Borrow
    <3> QED
      BY <3>1 DEF DebtIsFlagged, TypeInv, TypeOK
  <2>5. ASSUME NEW u \in Addresses, NEW amount \in Nat, NEW other \in Addresses,
               Repay(other, u, a, amount)
        PROVE  DebtIsFlagged'
    <3>1. PICK after \in Nat :
            /\ after <= debts[a][u]
            /\ debts' = [debts EXCEPT ![a][u] = after]
            /\ borrowed' = IF after = 0 THEN [borrowed EXCEPT ![u] = @ \ {a}] ELSE borrowed
      BY <2>5, RepayStep
    <3>2. debts[a][u] \in Nat
      BY DEF TypeInv, TypeOK
    <3> QED
      BY <3>1, <3>2 DEF DebtIsFlagged, TypeInv, TypeOK
  <2>6. ASSUME NEW u \in Addresses, NEW amount \in Nat, NEW other \in Addresses,
               TransferMaToken(u, other, a, amount)
        PROVE  DebtIsFlagged'
    BY <1>1, <2>6 DEF TransferMaToken
  <2>7. ASSUME NEW u \in Addresses, NEW liquidator \in Addresses, NEW c \in Assets,
               NEW amount \in Nat, NEW receiveMaToken \in BOOLEAN,
               Liquidate(liquidator, u, c, a, amount, receiveMaToken)
        PROVE  DebtIsFlagged'
    <3>1. PICK after \in Nat :
            after <= debts[a][u] /\ debts' = [debts EXCEPT ![a][u] = after]
      BY <2>7, LiquidateStep
    <3>2. borrowed' = borrowed
      BY <2>7 DEF Liquidate
    <3>3. debts[a][u] \in Nat
      BY DEF TypeInv, TypeOK
    <3> QED
      BY <3>1, <3>2, <3>3 DEF DebtIsFlagged, TypeInv, TypeOK
  <2> QED
    BY <1>2, <2>1, <2>2, <2>3, <2>4, <2>5, <2>6, <2>7 DEF StepOf
<1>3. CASE UpdateConfig \/ Tick \/ UNCHANGED vars
  BY <1>1, <1>3 DEF UpdateConfig, Tick, vars, position
<1> QED
  BY <1>2, <1>3, NextSteps

\* No debt escapes the health factor.
THEOREM DebtsAreFlagged == Spec => []DebtIsFlagged
<1>1. Init => TypeInv /\ DebtIsFlagged
  BY TypeInvInit DEF Init, DebtIsFlagged
<1>2. TypeInv /\ DebtIsFlagged /\ [Next]_vars => TypeInv' /\ DebtIsFlagged'
  BY TypeInvStep, DebtIsFlaggedStep
<1> QED
  BY <1>1, <1>2, PTL DEF Spec

\* Only the owner's grant moves a limit or a marker, and it moves both.
LEMMA MarkerStep ==
  ASSUME TypeInv, MarkerMatchesLimit, [Next]_vars
  PROVE  MarkerMatchesLimit'
<1>1. ASSUME limits' = limits, uncollateralized' = uncollateralized
      PROVE  MarkerMatchesLimit'
  BY <1>1 DEF MarkerMatchesLimit
<1>2. ASSUME NEW a \in Assets, NEW u \in Addresses, UpdateUncollateralizedLoanLimit(u, a)
      PROVE  MarkerMatchesLimit'
  <2>1. PICK limit \in Limits :
          /\ limits' = [limits EXCEPT ![a][u] = limit]
          /\ uncollateralized' =
              [uncollateralized EXCEPT ![a] = IF limit = 0 THEN @ \ {u} ELSE @ \cup {u}]
    BY <1>2 DEF UpdateUncollateralizedLoanLimit
  <2>2. limit \in Nat
    BY RedBankAssumptions
  <2> QED
    BY <2>1, <2>2 DEF MarkerMatchesLimit, TypeInv, TypeOK
<1>3. ASSUME NEW a \in Assets, StepOf(a)
      PROVE  \/ limits' = limits /\ uncollateralized' = uncollateralized
             \/ \E u \in Addresses : UpdateUncollateralizedLoanLimit(u, a)
  <2> DEFINE Same == limits' = limits /\ uncollateralized' = uncollateralized
  <2>1. InitAsset(a) \/ UpdateAsset(a) \/ PriceChange(a) => Same
    BY DEF InitAsset, UpdateAsset, PriceChange
  <2>2. ASSUME NEW u \in Addresses
        PROVE  UpdateAssetCollateralStatus(u, a) => Same
    BY DEF UpdateAssetCollateralStatus
  <2>3. ASSUME NEW u \in Addresses, NEW amount \in Nat
        PROVE  Deposit(u, a, amount) \/ Withdraw(u, a, amount) \/ Borrow(u, a, amount) => Same
    BY DEF Deposit, Withdraw, Borrow
  <2>4. ASSUME NEW u \in Addresses, NEW amount \in Nat, NEW other \in Addresses
        PROVE  Repay(other, u, a, amount) \/ TransferMaToken(u, other, a, amount) => Same
    BY DEF Repay, TransferMaToken
  <2>5. ASSUME NEW u \in Addresses, NEW liquidator \in Addresses, NEW c \in Assets,
               NEW amount \in Nat, NEW receiveMaToken \in BOOLEAN
        PROVE  Liquidate(liquidator, u, c, a, amount, receiveMaToken) => Same
    BY DEF Liquidate
  <2> HIDE DEF Same
  <2>6. Same \/ \E u \in Addresses : UpdateUncollateralizedLoanLimit(u, a)
    BY <1>3, <2>1, <2>2, <2>3, <2>4, <2>5 DEF StepOf
  <2> QED
    BY <2>6 DEF Same
<1>4. CASE UpdateConfig \/ Tick \/ UNCHANGED vars
  BY <1>1, <1>4 DEF UpdateConfig, Tick, vars
<1> QED
  BY <1>1, <1>2, <1>3, <1>4, NextSteps

\* The marker that exempts a debt from the health factor and the limit that
\* bounds it never part.
THEOREM MarkersMatchLimits == Spec => []MarkerMatchesLimit
<1>1. Init => TypeInv /\ MarkerMatchesLimit
  BY TypeInvInit DEF Init, MarkerMatchesLimit
<1>2. TypeInv /\ MarkerMatchesLimit /\ [Next]_vars => TypeInv' /\ MarkerMatchesLimit'
  BY TypeInvStep, MarkerStep
<1> QED
  BY <1>1, <1>2, PTL DEF Spec

\* Whoever gains maTokens in a step has a record after it, and no record is lost.
LEMMA HolderSuffices ==
  ASSUME TypeInv, TypeInv', HolderIsKnown, known \subseteq known',
         \A a \in Assets, v \in Addresses :
           maTokens'[a][v] > maTokens[a][v] => v \in known' \cup {Collector}
  PROVE  HolderIsKnown'
<1>1. \A a \in Assets, v \in Addresses : maTokens[a][v] \in Nat /\ maTokens'[a][v] \in Nat
  BY DEF TypeInv, TypeOK
<1> QED
  BY <1>1 DEF HolderIsKnown

\* In an operation on one asset only the collector gains by the rewards.
LEMMA RewardsGain ==
  ASSUME TypeInv, NEW a \in Assets, Listed(a), NEW ledger \in [Addresses -> Nat],
         NEW u \in Addresses, \A v \in Addresses \ {u} : ledger[v] <= maTokens[a][v],
         maTokens' = [maTokens EXCEPT ![a] = WithRewards(ledger, markets[a])]
  PROVE  \A b \in Assets, v \in Addresses :
           maTokens'[b][v] > maTokens[b][v] => v \in {u, Collector}
<1>1. MarketInv(markets[a]) /\ now \in Nat
  BY DEF TypeInv, TypeOK
<1>2. \A v \in Addresses \ {Collector} : WithRewards(ledger, markets[a])[v] = ledger[v]
  BY <1>1, WithRewardsType
<1>3. \A b \in Assets, v \in Addresses : maTokens[b][v] \in Nat
  BY DEF TypeInv, TypeOK
<1>4. /\ maTokens'[a] = WithRewards(ledger, markets[a])
      /\ \A b \in Assets \ {a} : maTokens'[b] = maTokens[b]
  BY DEF TypeInv, TypeOK
<1> QED
  BY <1>2, <1>3, <1>4

\* Every step that hands out maTokens saves the record of who gets them.
LEMMA HolderIsKnownStep ==
  ASSUME TypeInv, HolderIsKnown, [Next]_vars
  PROVE  HolderIsKnown'
<1>1. TypeInv'
  BY TypeInvStep
<1>2. ASSUME maTokens' = maTokens, known \subseteq known'
      PROVE  HolderIsKnown'
  BY <1>2 DEF HolderIsKnown
<1>3. \A b \in Assets : maTokens[b] \in [Addresses -> Nat]
  BY DEF TypeInv, TypeOK
<1>4. ASSUME NEW a \in Assets, StepOf(a)
      PROVE  HolderIsKnown'
  <2>1. CASE InitAsset(a) \/ PriceChange(a)
    BY <1>2, <2>1 DEF InitAsset, PriceChange, position
  <2>2. CASE UpdateAsset(a)
    <3>1. Listed(a) /\ known' = known
      BY <2>2 DEF UpdateAsset, position
    <3>2. maTokens' = maTokens \/ maTokens' = [maTokens EXCEPT ![a] = WithRewards(@, markets[a])]
      BY <2>2, UpdateAssetMarket
    <3>3. CASE maTokens' = [maTokens EXCEPT ![a] = WithRewards(@, markets[a])]
      <4>1. \A v \in Addresses : maTokens[a][v] <= maTokens[a][v]
        BY <1>3
      <4>2. \A b \in Assets, v \in Addresses :
              maTokens'[b][v] > maTokens[b][v] => v \in {Collector}
        BY <1>3, <3>1, <3>3, <4>1, RewardsGain, RedBankAssumptions
      <4> QED
        BY <1>1, <3>1, <4>2, HolderSuffices
    <3> QED
      BY <1>2, <3>1, <3>2, <3>3
  <2>3. ASSUME NEW u \in Addresses,
               UpdateUncollateralizedLoanLimit(u, a) \/ UpdateAssetCollateralStatus(u, a)
        PROVE  HolderIsKnown'
    BY <1>2, <2>3 DEF UpdateUncollateralizedLoanLimit, UpdateAssetCollateralStatus, position
  <2>4. ASSUME NEW u \in Addresses, NEW amount \in Nat, Deposit(u, a, amount)
        PROVE  HolderIsKnown'
    <3> DEFINE mint == ScaledLiquidity(amount, markets[a])
               rewarded == WithRewards(maTokens[a], markets[a])
    <3>1. Listed(a) /\ MarketInv(markets[a]) /\ now \in Nat /\ known' = known \cup {u}
      BY <2>4 DEF Deposit, TypeInv, TypeOK
    <3>2. mint \in Nat
      BY <3>1, ScalingType
    <3>3. /\ rewarded \in [Addresses -> Nat]
          /\ \A v \in Addresses \ {Collector} : rewarded[v] = maTokens[a][v]
      BY <1>3, <3>1, WithRewardsType
    <3>4. maTokens' = [maTokens EXCEPT ![a] = Credit(rewarded, u, mint)]
      BY <2>4 DEF Deposit
    <3> HIDE DEF mint, rewarded
    <3>5. \A v \in Addresses \ {u} : Credit(rewarded, u, mint)[v] = rewarded[v]
      BY ONLY <3>2, <3>3, u \in Addresses, CreditType
    <3>6. \A b \in Assets, v \in Addresses :
            maTokens'[b][v] > maTokens[b][v] => v \in {u, Collector}
      BY <1>3, <3>3, <3>4, <3>5 DEF TypeInv, TypeOK
    <3> QED
      BY <1>1, <3>1, <3>6, HolderSuffices
  <2>5. ASSUME NEW u \in Addresses, NEW amount \in Nat, Withdraw(u, a, amount)
        PROVE  HolderIsKnown'
    <3> DEFINE m == markets[a]
               held == maTokens[a][u]
               left == ScaledLiquidity(UnderlyingLiquidity(held, m) - amount, m)
               ledger == Debit(maTokens[a], u, held - left)
    <3>1. Listed(a) /\ MarketInv(m) /\ now \in Nat /\ known' = known
      BY <2>5 DEF Withdraw, TypeInv, TypeOK
    <3>2. held \in Nat
      BY <1>3
    <3>3. UnderlyingLiquidity(held, m) \in Nat
      BY <3>1, <3>2, ScalingType
    <3>4. UnderlyingLiquidity(held, m) - amount \in Nat
      BY <2>5, <3>3 DEF Withdraw
    <3>5. left \in Nat
      BY <3>1, <3>4, ScalingType
    <3>6. held - left > 0
      BY <2>5 DEF Withdraw
    <3>7. maTokens' = [maTokens EXCEPT ![a] = WithRewards(ledger, m)]
      BY <2>5 DEF Withdraw
    <3> HIDE DEF left
    <3>8. held - left \in Nat /\ held - left <= held
      BY <3>2, <3>5, <3>6
    <3>9. /\ ledger \in [Addresses -> Nat]
          /\ \A v \in Addresses : ledger[v] <= maTokens[a][v]
      BY <1>3, <3>8, LedgerType DEF Debit
    <3> HIDE DEF ledger
    <3>10. \A b \in Assets, v \in Addresses :
             maTokens'[b][v] > maTokens[b][v] => v \in {Collector}
      BY <3>1, <3>7, <3>9, RewardsGain, RedBankAssumptions
    <3> QED
      BY <1>1, <3>1, <3>10, HolderSuffices
  <2>6. ASSUME NEW u \in Addresses, NEW amount \in Nat, NEW other \in Addresses,
               Borrow(u, a, amount) \/ Repay(other, u, a, amount)
        PROVE  HolderIsKnown'
    <3>1. /\ Listed(a) /\ known \subseteq known'
          /\ maTokens' = [maTokens EXCEPT ![a] = WithRewards(@, markets[a])]
      BY <2>6 DEF Borrow, Repay
    <3> DEFINE ledger == maTokens[a]
    <3>2. /\ Collector \in Addresses /\ ledger \in [Addresses -> Nat]
          /\ \A v \in Addresses \ {Collector} : ledger[v] <= maTokens[a][v]
      BY <1>3, RedBankAssumptions
    <3>4. maTokens' = [maTokens EXCEPT ![a] = WithRewards(ledger, markets[a])]
      BY <3>1
    <3> HIDE DEF ledger
    <3>3. \A b \in Assets, v \in Addresses :
            maTokens'[b][v] > maTokens[b][v] => v \in {Collector}
      BY <3>1, <3>2, <3>4, RewardsGain
    <3> QED
      BY <1>1, <3>1, <3>3, HolderSuffices
  <2>7. ASSUME NEW u \in Addresses, NEW amount \in Nat, NEW other \in Addresses,
               TransferMaToken(u, other, a, amount)
        PROVE  HolderIsKnown'
    <3>1. \A b \in Assets, v \in Addresses :
            maTokens'[b][v] > maTokens[b][v] => b = a /\ v = other
      BY <2>7, TransferStep
    <3>2. known' = IF maTokens[a][other] = 0 THEN known \cup {other} ELSE known
      BY <2>7 DEF TransferMaToken
    <3>3. other \in known' \cup {Collector}
      BY <1>3, <3>2 DEF HolderIsKnown
    <3>4. known \subseteq known'
      BY <3>2
    <3> QED
      BY <1>1, <3>1, <3>3, <3>4, HolderSuffices
  <2>8. ASSUME NEW u \in Addresses, NEW liquidator \in Addresses, NEW c \in Assets,
               NEW amount \in Nat, NEW receiveMaToken \in BOOLEAN,
               Liquidate(liquidator, u, c, a, amount, receiveMaToken)
        PROVE  HolderIsKnown'
    <3>1. /\ \A b \in Assets, v \in Addresses :
               maTokens'[b][v] > maTokens[b][v] =>
                 v = Collector \/ (v = liquidator /\ receiveMaToken)
          /\ receiveMaToken => known' = known \cup {liquidator}
          /\ ~receiveMaToken => known' = known
      BY <2>8, LiquidateStep
    <3> QED
      BY <1>1, <3>1, HolderSuffices
  <2> QED
    BY <1>4, <2>1, <2>2, <2>3, <2>4, <2>5, <2>6, <2>7, <2>8 DEF StepOf
<1>5. CASE UpdateConfig \/ Tick \/ UNCHANGED vars
  BY <1>2, <1>5 DEF UpdateConfig, Tick, vars, position
<1> QED
  BY <1>4, <1>5, NextSteps

\* Every holder of maTokens has a user record, so no withdrawal by a holder is
\* refused for the lack of one.
THEOREM HoldersAreKnown == Spec => []HolderIsKnown
<1>1. Init => TypeInv /\ HolderIsKnown
  BY TypeInvInit DEF Init, HolderIsKnown
<1>2. TypeInv /\ HolderIsKnown /\ [Next]_vars => TypeInv' /\ HolderIsKnown'
  BY TypeInvStep, HolderIsKnownStep
<1> QED
  BY <1>1, <1>2, PTL DEF Spec

-----------------------------------------------------------------------------
(* What deposits and debts are worth. *)

\* The values of a market's deposits and debts move as time alone makes them.
ValuesHold(a) ==
  IF now' = now
  THEN /\ BorrowIndex(markets[a])' = BorrowIndex(markets[a])
       /\ LiquidityIndex(markets[a])' = LiquidityIndex(markets[a])
  ELSE /\ BorrowIndex(markets[a])' >= BorrowIndex(markets[a])
       /\ LiquidityIndex(markets[a])' >= LiquidityIndex(markets[a])

\* A market that stays as it was keeps its values.
LEMMA SameMarketHolds ==
  ASSUME NEW a \in Assets, markets'[a] = markets[a], now' = now
  PROVE  ValuesHold(a)
  BY DEF ValuesHold, BorrowIndex, LiquidityIndex, UpdatedIndex

\* A market whose indexes are brought to now keeps its values.
LEMMA RefreshedHolds ==
  ASSUME NEW a \in Assets, now' = now, now \in Nat,
         markets'[a].borrow_index = BorrowIndex(markets[a]),
         markets'[a].liquidity_index = LiquidityIndex(markets[a]),
         markets'[a].indexes_last_updated = now
  PROVE  ValuesHold(a)
<1>1. /\ BorrowIndex(markets[a])' = markets'[a].borrow_index
      /\ LiquidityIndex(markets[a])' = markets'[a].liquidity_index
  BY DEF BorrowIndex, LiquidityIndex, UpdatedIndex
<1> QED
  BY <1>1 DEF ValuesHold

\* The values of a market only grow when time passes.
LEMMA TimeHolds ==
  ASSUME TypeInv, NEW a \in Assets, Listed(a), markets' = markets, now' = now + 1
  PROVE  ValuesHold(a)
<1> DEFINE m == markets[a]
<1>1. m \in Markets /\ now \in Nat
  BY DEF TypeInv, TypeOK, MarketInv, SoundMarket
<1>2. /\ m.borrow_index \in Nat /\ m.liquidity_index \in Nat
      /\ m.borrow_rate \in Nat /\ m.liquidity_rate \in Nat
      /\ m.indexes_last_updated \in Nat
  BY <1>1 DEF Markets
<1>3. ASSUME NEW index \in Nat, NEW rate \in Nat
      PROVE  UpdatedIndex(m, index, rate)' >= UpdatedIndex(m, index, rate)
  <2>1. CASE m.indexes_last_updated < now /\ rate > 0
    <3> DEFINE before == now - m.indexes_last_updated
               after == now + 1 - m.indexes_last_updated
    <3>1. before \in Nat /\ after \in Nat /\ before <= after
      BY <1>1, <1>2, <2>1
    <3>2. UpdatedIndex(m, index, rate) = AppliedInterest(index, rate, before)
      BY <2>1 DEF UpdatedIndex
    <3>3. UpdatedIndex(m, index, rate)' = AppliedInterest(index, rate, after)
      BY <1>1, <1>2, <2>1 DEF UpdatedIndex
    <3>4. /\ AppliedInterest(index, rate, before) \in Nat
          /\ AppliedInterest(index, rate, after) \in Nat
      BY <3>1, AppliedInterestGrows
    <3> HIDE DEF before, after
    <3>5. index <= index /\ rate <= rate
      OBVIOUS
    <3>6. AppliedInterest(index, rate, before) <= AppliedInterest(index, rate, after)
      BY ONLY <3>1, <3>5, index \in Nat, rate \in Nat, AppliedInterestMono
    <3> QED
      BY <3>2, <3>3, <3>4, <3>6
  <2>2. CASE ~(m.indexes_last_updated < now /\ rate > 0)
    <3>1. UpdatedIndex(m, index, rate) = index
      BY <2>2 DEF UpdatedIndex
    <3>2. CASE now + 1 > m.indexes_last_updated /\ rate > 0
      <4> DEFINE after == now + 1 - m.indexes_last_updated
      <4>1. after \in Nat
        BY <1>1, <1>2, <3>2
      <4>2. UpdatedIndex(m, index, rate)' = AppliedInterest(index, rate, after)
        BY <1>1, <1>2, <3>2 DEF UpdatedIndex
      <4>3. AppliedInterest(index, rate, after) \in Nat /\ index <= AppliedInterest(index, rate, after)
        BY <4>1, AppliedInterestGrows
      <4> QED
        BY <3>1, <4>2, <4>3
    <3>3. CASE ~(now + 1 > m.indexes_last_updated /\ rate > 0)
      <4>1. UpdatedIndex(m, index, rate)' = index
        BY <1>1, <1>2, <3>3 DEF UpdatedIndex
      <4> QED
        BY <3>1, <4>1
    <3> QED
      BY <3>2, <3>3
  <2> QED
    BY <2>1, <2>2
<1>4. /\ BorrowIndex(markets[a])' >= BorrowIndex(markets[a])
      /\ LiquidityIndex(markets[a])' >= LiquidityIndex(markets[a])
  BY <1>2, <1>3 DEF BorrowIndex, LiquidityIndex
<1>5. now' # now
  BY <1>1
<1> QED
  BY <1>4, <1>5 DEF ValuesHold

\* Every step keeps the values of a market, or lets them grow with time.
LEMMA ValuesStep ==
  ASSUME TypeInv, [Next]_vars, NEW a \in Assets, Listed(a)
  PROVE  ValuesHold(a)
<1>1. now \in Nat
  BY DEF TypeInv, TypeOK
<1>2. ASSUME NEW b \in Assets, NEW total, MarketRefreshed(b, total), now' = now
      PROVE  ValuesHold(a)
  <2>1. CASE a = b
    BY <1>1, <1>2, <2>1, RefreshedHolds DEF MarketRefreshed, Refreshed
  <2>2. CASE a # b
    BY <1>2, <2>2, SameMarketHolds DEF MarketRefreshed
  <2> QED
    BY <2>1, <2>2
<1>3. ASSUME NEW b \in Assets, StepOf(b)
      PROVE  ValuesHold(a)
  <2>1. CASE InitAsset(b)
    <3>1. markets'[a] = markets[a] /\ now' = now
      BY <2>1 DEF InitAsset, TypeInv, TypeOK
    <3> QED
      BY <3>1, SameMarketHolds
  <2>2. CASE UpdateAsset(b)
    <3>1. now' = now
      BY <2>2 DEF UpdateAsset
    <3>2. PICK r : /\ markets' = [markets EXCEPT ![b] = r]
                   /\ \/ /\ r.borrow_index = BorrowIndex(markets[b])
                         /\ r.liquidity_index = LiquidityIndex(markets[b])
                         /\ r.indexes_last_updated = now
                      \/ /\ r.borrow_index = markets[b].borrow_index
                         /\ r.liquidity_index = markets[b].liquidity_index
                         /\ r.borrow_rate = markets[b].borrow_rate
                         /\ r.liquidity_rate = markets[b].liquidity_rate
                         /\ r.indexes_last_updated = markets[b].indexes_last_updated
      BY <2>2, UpdateAssetMarket
    <3>3. CASE a # b
      <4>1. markets'[a] = markets[a]
        BY <3>2, <3>3 DEF TypeInv, TypeOK
      <4> QED
        BY <3>1, <4>1, SameMarketHolds
    <3>4. CASE a = b
      <4>1. markets'[a] = r
        BY <3>2, <3>4 DEF TypeInv, TypeOK
      <4>2. CASE /\ r.borrow_index = BorrowIndex(markets[b])
                 /\ r.liquidity_index = LiquidityIndex(markets[b])
                 /\ r.indexes_last_updated = now
        BY <1>1, <3>1, <3>4, <4>1, <4>2, RefreshedHolds
      <4>3. CASE /\ r.borrow_index = markets[b].borrow_index
                 /\ r.liquidity_index = markets[b].liquidity_index
                 /\ r.borrow_rate = markets[b].borrow_rate
                 /\ r.liquidity_rate = markets[b].liquidity_rate
                 /\ r.indexes_last_updated = markets[b].indexes_last_updated
        BY <3>1, <3>4, <4>1, <4>3 DEF ValuesHold, BorrowIndex, LiquidityIndex, UpdatedIndex
      <4> QED
        BY <3>2, <4>2, <4>3
    <3> QED
      BY <3>3, <3>4
  <2>3. CASE PriceChange(b)
    BY <2>3, SameMarketHolds DEF PriceChange
  <2>4. ASSUME NEW u \in Addresses,
               UpdateUncollateralizedLoanLimit(u, b) \/ UpdateAssetCollateralStatus(u, b)
        PROVE  ValuesHold(a)
    BY <2>4, SameMarketHolds DEF UpdateUncollateralizedLoanLimit, UpdateAssetCollateralStatus
  <2>5. ASSUME NEW u \in Addresses, NEW amount \in Nat,
               Deposit(u, b, amount) \/ Withdraw(u, b, amount) \/ Borrow(u, b, amount)
        PROVE  ValuesHold(a)
    <3>1. now' = now
      BY <2>5 DEF Deposit, Withdraw, Borrow
    <3>2. \E total : MarketRefreshed(b, total)
      BY <2>5, DepositStep, WithdrawStep, BorrowStep
    <3> QED
      BY <1>2, <3>1, <3>2
  <2>6. ASSUME NEW u \in Addresses, NEW amount \in Nat, NEW other \in Addresses,
               Repay(other, u, b, amount)
        PROVE  ValuesHold(a)
    <3>1. now' = now
      BY <2>6 DEF Repay
    <3>2. \E total : MarketRefreshed(b, total)
      BY <2>6, RepayStep
    <3> QED
      BY <1>2, <3>1, <3>2
  <2>7. ASSUME NEW u \in Addresses, NEW amount \in Nat, NEW other \in Addresses,
               TransferMaToken(u, other, b, amount)
        PROVE  ValuesHold(a)
    BY <2>7, SameMarketHolds DEF TransferMaToken
  <2>8. ASSUME NEW u \in Addresses, NEW liquidator \in Addresses, NEW c \in Assets,
               NEW amount \in Nat, NEW receiveMaToken \in BOOLEAN,
               Liquidate(liquidator, u, c, b, amount, receiveMaToken)
        PROVE  ValuesHold(a)
    <3>1. now' = now
      BY <2>8 DEF Liquidate
    <3>2. markets'[a] = markets[a] \/ \E total : Refreshed(markets[a], markets'[a], total)
      BY <2>8, LiquidateStep
    <3> QED
      BY <1>1, <3>1, <3>2, SameMarketHolds, RefreshedHolds DEF Refreshed
  <2> QED
    BY <1>3, <2>1, <2>2, <2>3, <2>4, <2>5, <2>6, <2>7, <2>8 DEF StepOf
<1>4. CASE UpdateConfig \/ UNCHANGED vars
  BY <1>4, SameMarketHolds DEF UpdateConfig, vars
<1>5. CASE Tick
  BY <1>5, TimeHolds DEF Tick
<1> QED
  BY <1>3, <1>4, <1>5, NextSteps

\* No operation, of a user or of the owner, moves what a deposit is worth or a
\* debt amounts to: both change with time only, and never fall.
THEOREM ValuesNeverJump == Spec => ValuesMoveOnlyWithTime
<1>1. TypeInv /\ [Next]_vars =>
        [ \A a \in Assets : Listed(a) => ValuesHold(a) ]_vars
  BY ValuesStep
<1> QED
  BY <1>1, TypeCorrect, PTL DEF Spec, ValuesMoveOnlyWithTime, ValuesHold

-----------------------------------------------------------------------------
(* The rate of a dynamic model. *)

\* No model moved in the future.
ModelsAreDated == \A a \in Assets : Listed(a) => Dated(markets[a].interest_rate_model, now)

\* What a step may do to the rate of market a.
RateStep(a) ==
  (/\ Listed(a) /\ markets[a].interest_rate_model.kind = "dynamic"
   /\ markets'[a].interest_rate_model.kind = "dynamic"
   /\ markets'[a].borrow_rate # markets[a].borrow_rate) =>
    /\ markets[a].interest_rate_model.borrow_rate_last_updated < now
    /\ markets'[a].interest_rate_model.borrow_rate_last_updated = now

\* What every step does to a market that is listed after it: nothing, one move
\* at most, or the listing.
MarketMoves(a) ==
  \/ markets'[a] = markets[a]
  \/ Listed(a) /\ MovesOnce(markets[a], markets'[a], now)
  \/ ~Listed(a) /\ Dated(markets'[a].interest_rate_model, now)

\* Every step that is not the passing of time moves each market at most once.
LEMMA EveryMarketMoves ==
  ASSUME TypeInv, NEW b \in Assets, StepOf(b)
  PROVE  now' = now /\ \A a \in Assets : MarketMoves(a)
<1>1. now \in Nat /\ markets \in [Assets -> Markets \cup {NoMarket}]
  BY DEF TypeInv, TypeOK
<1>2. ASSUME NEW total, MarketRefreshed(b, total)
      PROVE  \A a \in Assets : MarketMoves(a)
  BY <1>2 DEF MarketRefreshed, Refreshed, MarketMoves
<1>3. CASE InitAsset(b)
  <2>1. PICK p \in AssetParams[b] :
          /\ ~Listed(b) /\ markets' = [markets EXCEPT ![b] = CreateMarket(p)]
    BY <1>3 DEF InitAsset
  <2>2. p.interest_rate_model \in Models
    BY RedBankAssumptions DEF Params
  <2>3. Dated(WithTime(p.interest_rate_model), now)
    BY <1>1, <2>2 DEF WithTime, Dated, Models, LinearModels, DynamicModels
  <2>4. CreateMarket(p).interest_rate_model = WithTime(p.interest_rate_model)
    BY DEF CreateMarket
  <2> QED
    BY <1>1, <1>3, <2>1, <2>3, <2>4 DEF InitAsset, MarketMoves
<1>4. CASE UpdateAsset(b)
  <2>1. Listed(b) /\ now' = now
    BY <1>4 DEF UpdateAsset
  <2>2. PICK r : markets' = [markets EXCEPT ![b] = r] /\ MovesOnce(markets[b], r, now)
    BY <1>4, UpdateAssetMarket
  <2> QED
    BY <1>1, <2>1, <2>2 DEF MarketMoves
<1>5. CASE PriceChange(b)
  BY <1>5 DEF PriceChange, MarketMoves
<1>6. ASSUME NEW u \in Addresses,
             UpdateUncollateralizedLoanLimit(u, b) \/ UpdateAssetCollateralStatus(u, b)
      PROVE  now' = now /\ \A a \in Assets : MarketMoves(a)
  BY <1>6 DEF UpdateUncollateralizedLoanLimit, UpdateAssetCollateralStatus, MarketMoves
<1>7. ASSUME NEW u \in Addresses, NEW amount \in Nat,
             Deposit(u, b, amount) \/ Withdraw(u, b, amount) \/ Borrow(u, b, amount)
      PROVE  now' = now /\ \A a \in Assets : MarketMoves(a)
  <2>1. now' = now
    BY <1>7 DEF Deposit, Withdraw, Borrow
  <2>2. \E total : MarketRefreshed(b, total)
    BY <1>7, DepositStep, WithdrawStep, BorrowStep
  <2> QED
    BY <1>2, <2>1, <2>2
<1>8. ASSUME NEW u \in Addresses, NEW amount \in Nat, NEW other \in Addresses,
             Repay(other, u, b, amount)
      PROVE  now' = now /\ \A a \in Assets : MarketMoves(a)
  <2>1. now' = now
    BY <1>8 DEF Repay
  <2>2. \E total : MarketRefreshed(b, total)
    BY <1>8, RepayStep
  <2> QED
    BY <1>2, <2>1, <2>2
<1>9. ASSUME NEW u \in Addresses, NEW amount \in Nat, NEW other \in Addresses,
             TransferMaToken(u, other, b, amount)
      PROVE  now' = now /\ \A a \in Assets : MarketMoves(a)
  BY <1>9 DEF TransferMaToken, MarketMoves
<1>10. ASSUME NEW u \in Addresses, NEW liquidator \in Addresses, NEW c \in Assets,
              NEW amount \in Nat, NEW receiveMaToken \in BOOLEAN,
              Liquidate(liquidator, u, c, b, amount, receiveMaToken)
       PROVE  now' = now /\ \A a \in Assets : MarketMoves(a)
  <2>1. now' = now
    BY <1>10 DEF Liquidate
  <2>2. \A a \in Assets :
          \/ markets'[a] = markets[a]
          \/ Listed(a) /\ \E total : Refreshed(markets[a], markets'[a], total)
    BY <1>10, LiquidateStep
  <2> QED
    BY <2>1, <2>2 DEF Refreshed, MarketMoves
<1> QED
  BY <1>3, <1>4, <1>5, <1>6, <1>7, <1>8, <1>9, <1>10 DEF StepOf

\* Every step keeps the models dated, and moves a rate at most once in a block.
LEMMA RateStepHolds ==
  ASSUME TypeInv, ModelsAreDated, [Next]_vars
  PROVE  ModelsAreDated' /\ \A a \in Assets : RateStep(a)
<1>1. now \in Nat /\ markets \in [Assets -> Markets \cup {NoMarket}]
  BY DEF TypeInv, TypeOK
<1>2. ASSUME now' = now, \A a \in Assets : MarketMoves(a)
      PROVE  ModelsAreDated' /\ \A a \in Assets : RateStep(a)
  <2>1. \A a \in Assets : Listed(a)' => Dated(markets'[a].interest_rate_model, now)
    BY <1>2 DEF MarketMoves, MovesOnce, ModelsAreDated, Listed
  <2>2. ModelsAreDated'
    BY <1>2, <2>1 DEF ModelsAreDated, Dated
  <2>3. \A a \in Assets : RateStep(a)
    BY <1>2 DEF MarketMoves, MovesOnce, ModelsAreDated, RateStep
  <2> QED
    BY <2>2, <2>3
<1>3. CASE \E b \in Assets : StepOf(b)
  BY <1>2, <1>3, EveryMarketMoves
<1>4. CASE UpdateConfig \/ UNCHANGED vars
  BY <1>2, <1>4 DEF UpdateConfig, vars, MarketMoves
<1>5. CASE Tick
  <2>1. markets' = markets /\ now' = now + 1
    BY <1>5 DEF Tick
  <2>2. ASSUME NEW a \in Assets, Listed(a)'
        PROVE  Dated(markets[a].interest_rate_model, now)'
    <3>1. Listed(a) /\ MarketInv(markets[a]) /\ Dated(markets[a].interest_rate_model, now)
      BY <2>1, <2>2 DEF Listed, TypeInv, ModelsAreDated
    <3>2. markets[a].interest_rate_model \in Models
      BY <3>1 DEF MarketInv, SoundMarket, Markets
    <3>3. markets[a].interest_rate_model.kind = "dynamic" =>
            markets[a].interest_rate_model.borrow_rate_last_updated \in Nat
      BY <3>2 DEF Models, LinearModels, DynamicModels
    <3> QED
      BY <1>1, <2>1, <3>1, <3>3 DEF Dated
  <2> QED
    BY <2>1, <2>2 DEF ModelsAreDated, RateStep
<1> QED
  BY <1>3, <1>4, <1>5, NextSteps

\* However many messages reach the red bank within one block, the rate of a
\* dynamic model moves once at most, for any thresholds and parameters, also
\* when the owner replaces the model.
THEOREM RatesMoveOnce == Spec => RateMovesOncePerBlock
<1>1. Init => TypeInv /\ ModelsAreDated
  BY TypeInvInit DEF Init, ModelsAreDated, Listed
<1>2. TypeInv /\ ModelsAreDated /\ [Next]_vars => TypeInv' /\ ModelsAreDated'
  BY TypeInvStep, RateStepHolds
<1>3. TypeInv /\ ModelsAreDated /\ [Next]_vars => [ \A a \in Assets : RateStep(a) ]_vars
  BY RateStepHolds
<1> QED
  BY <1>1, <1>2, <1>3, PTL DEF Spec, RateMovesOncePerBlock, RateStep

-----------------------------------------------------------------------------
(* Collateral that is flagged. *)

\* No index has outgrown the extra precision of the scaled amounts: a unit of
\* an asset is still worth at least one maToken.
IndexesWithinPrecision ==
  \A a \in QueryMarketsList : LiquidityIndex(markets[a]) <= ScalingFactor * One

\* Every flag stands for maTokens, whether the asset is listed or not.
FlagsAreHeld ==
  \A a \in Assets, u \in Addresses : a \in collateral[u] => maTokens[a][u] > 0

\* As long as the index is within the precision, no amount is scaled to nothing.
LEMMA SomeIsScaled ==
  ASSUME NEW m, MarketInv(m), now \in Nat, LiquidityIndex(m) <= ScalingFactor * One,
         NEW amount \in Nat \ {0}
  PROVE  ScaledLiquidity(amount, m) \in Nat \ {0}
<1> DEFINE index == LiquidityIndex(m)
           unit == ScalingFactor * One
           fine == amount * ScalingFactor
           q == (fine * One) \div index
<1>1. index \in Nat \ {0} /\ ScalingFactor \in Nat \ {0} /\ One \in Nat \ {0}
  BY IndexOrder, RedBankAssumptions, OneAssumption
<1>2. ScaledLiquidity(amount, m) = q /\ index <= unit
  BY DEF ScaledAmount, ScaledLiquidity, Div
<1>3. unit \in Nat /\ fine \in Nat
  BY <1>1, ProductType
<1>4. fine * One \in Nat
  BY <1>1, <1>3, ProductType
<1>5. fine * One = amount * unit
  BY <1>1, Z3
<1> HIDE DEF index, unit
<1>6. unit <= amount * unit
  BY <1>3, Z3
<1> HIDE DEF fine
<1>7. index <= fine * One
  BY <1>1, <1>2, <1>3, <1>4, <1>5, <1>6
<1>8. q \in Nat /\ fine * One < q * index + index
  BY <1>1, <1>4, DivFloor
<1> HIDE DEF q
<1>9. q # 0
  BY <1>1, <1>4, <1>7, <1>8
<1> QED
  BY <1>2, <1>8, <1>9

\* Less than a holder's balance is scaled to less than the holder's maTokens.
LEMMA PartIsScaled ==
  ASSUME NEW m, MarketInv(m), now \in Nat, NEW tokens \in Nat, NEW amount \in Nat,
         amount < UnderlyingLiquidity(tokens, m)
  PROVE  ScaledLiquidity(amount, m) < tokens
<1> DEFINE index == LiquidityIndex(m)
           total == tokens * index
           worth == total \div One
           balance == worth \div ScalingFactor
           fine == amount * ScalingFactor
           q == (fine * One) \div index
<1>1. index \in Nat \ {0} /\ ScalingFactor \in Nat \ {0} /\ One \in Nat \ {0}
  BY IndexOrder, RedBankAssumptions, OneAssumption
<1>2. ScaledLiquidity(amount, m) = q /\ UnderlyingLiquidity(tokens, m) = balance
  BY DEF ScaledAmount, ScaledLiquidity, UnderlyingLiquidity, Div, Mul
<1> HIDE DEF index
<1>3. total \in Nat /\ fine \in Nat
  BY <1>1, ProductType
<1> HIDE DEF total, fine
<1>4. worth \in Nat /\ worth * One <= total
  BY <1>1, <1>3, DivFloor
<1> HIDE DEF worth
<1>5. balance \in Nat /\ balance * ScalingFactor <= worth
  BY <1>1, <1>4, DivFloor
<1> HIDE DEF balance
<1>6. fine < worth
  <2>1. amount + 1 <= balance
    BY <1>2, <1>5
  <2>2. (amount + 1) * ScalingFactor <= balance * ScalingFactor
    BY <1>1, <1>5, <2>1, Z3
  <2>3. (amount + 1) * ScalingFactor = fine + ScalingFactor
    BY <1>1, Z3 DEF fine
  <2>4. balance * ScalingFactor \in Nat
    BY <1>1, <1>5, ProductType
  <2> QED
    BY <1>1, <1>3, <1>4, <1>5, <2>2, <2>3, <2>4
<1>7. fine * One \in Nat /\ fine * One < worth * One
  BY <1>1, <1>3, <1>4, <1>6, ProductType, Z3
<1>8. q \in Nat /\ q * index <= fine * One
  BY <1>1, <1>7, DivFloor
<1> HIDE DEF q
<1>9. q * index < tokens * index
  BY <1>1, <1>3, <1>4, <1>7, <1>8, ProductType DEF total
<1>10. q < tokens
  BY <1>1, <1>8, <1>9, Z3
<1> QED
  BY <1>2, <1>10

\* Whoever is flagged after a step was flagged and lost nothing, or holds some.
LEMMA FlagsSuffice ==
  ASSUME TypeInv, TypeInv', FlagsAreHeld,
         \A a \in Assets, u \in Addresses : a \in collateral'[u] =>
            \/ a \in collateral[u] /\ maTokens'[a][u] >= maTokens[a][u]
            \/ maTokens'[a][u] > 0
  PROVE  FlagsAreHeld'
<1>1. \A a \in Assets, v \in Addresses : maTokens[a][v] \in Nat /\ maTokens'[a][v] \in Nat
  BY DEF TypeInv, TypeOK
<1> QED
  BY <1>1 DEF FlagsAreHeld

\* A deposit gives maTokens to whom it flags.
LEMMA DepositFlags ==
  ASSUME TypeInv, FlagsAreHeld, NEW a \in Assets, NEW u \in Addresses, NEW amount \in Nat,
         Deposit(u, a, amount)
  PROVE  FlagsAreHeld'
<1> DEFINE mint == ScaledLiquidity(amount, markets[a])
           rewarded == WithRewards(maTokens[a], markets[a])
<1>1. /\ MarketInv(markets[a]) /\ now \in Nat /\ maTokens[a] \in [Addresses -> Nat]
      /\ maTokens \in [Assets -> [Addresses -> Nat]]
  BY DEF Deposit, TypeInv, TypeOK
<1>2. mint \in Nat /\ mint > 0
  BY <1>1, ScalingType DEF Deposit
<1>3. /\ rewarded \in [Addresses -> Nat]
      /\ \A v \in Addresses : maTokens[a][v] <= rewarded[v]
  BY <1>1, WithRewardsType
<1>4. /\ maTokens' = [maTokens EXCEPT ![a] = Credit(rewarded, u, mint)]
      /\ collateral' = [collateral EXCEPT ![u] = @ \cup {a}]
  BY DEF Deposit
<1> HIDE DEF mint, rewarded
<1>5. /\ Credit(rewarded, u, mint)[u] = rewarded[u] + mint
      /\ \A v \in Addresses : rewarded[v] <= Credit(rewarded, u, mint)[v]
  BY <1>2, <1>3 DEF Credit
<1>6. \A v \in Addresses : /\ maTokens[a][v] \in Nat /\ rewarded[v] \in Nat
                           /\ Credit(rewarded, u, mint)[v] \in Nat
  BY <1>1, <1>2, <1>3 DEF Credit
<1> DEFINE ledger == Credit(rewarded, u, mint)
<1> HIDE DEF ledger
<1>7. ledger[u] > 0 /\ \A v \in Addresses : maTokens[a][v] <= ledger[v]
  BY <1>2, <1>3, <1>5, <1>6 DEF ledger
<1>8. /\ maTokens'[a] = ledger
      /\ \A b \in Assets \ {a} : maTokens'[b] = maTokens[b]
      /\ \A b \in Assets, v \in Addresses : maTokens[b][v] \in Nat
  BY <1>1, <1>4 DEF ledger
<1>9. \A b \in Assets, v \in Addresses : b \in collateral'[v] =>
         b \in collateral[v] \/ (b = a /\ v = u)
  BY <1>4 DEF TypeInv, TypeOK
<1> QED
  BY <1>7, <1>8, <1>9, DepositStep, FlagsSuffice

\* A withdrawal clears the flag or leaves maTokens.
LEMMA WithdrawFlags ==
  ASSUME TypeInv, FlagsAreHeld, IndexesWithinPrecision, NEW a \in Assets,
         NEW u \in Addresses, NEW amount \in Nat, Withdraw(u, a, amount)
  PROVE  FlagsAreHeld'
<1> DEFINE m == markets[a]
           held == maTokens[a][u]
           balance == UnderlyingLiquidity(held, m)
           left == ScaledLiquidity(balance - amount, m)
           ledger == Debit(maTokens[a], u, held - left)
<1>1. /\ Listed(a) /\ MarketInv(m) /\ now \in Nat /\ maTokens[a] \in [Addresses -> Nat]
      /\ maTokens \in [Assets -> [Addresses -> Nat]]
  BY DEF Withdraw, TypeInv, TypeOK
<1>2. held \in Nat /\ balance \in Nat
  BY <1>1, ScalingType
<1>3. amount <= balance /\ balance - amount \in Nat
  BY <1>2 DEF Withdraw
<1>4. left \in Nat
  BY <1>1, <1>3, ScalingType
<1>5. amount # balance => left > 0
  <2>1. amount # balance => balance - amount \in Nat \ {0}
    BY <1>2, <1>3
  <2>2. LiquidityIndex(m) <= ScalingFactor * One
    BY <1>1 DEF IndexesWithinPrecision, QueryMarketsList
  <2>3. amount # balance => left \in Nat \ {0}
    BY <1>1, <2>1, <2>2, SomeIsScaled
  <2> QED
    BY <2>3
<1>6. /\ held - left > 0
      /\ maTokens' = [maTokens EXCEPT ![a] = WithRewards(ledger, m)]
      /\ collateral' = IF amount = balance THEN [collateral EXCEPT ![u] = @ \ {a}]
                       ELSE collateral
  BY DEF Withdraw
<1> HIDE DEF left, balance
<1>7. held - left \in Nat /\ held - left <= held /\ held - (held - left) = left
  BY <1>2, <1>4, <1>6
<1>8. /\ ledger \in [Addresses -> Nat] /\ ledger[u] = left
      /\ \A v \in Addresses \ {u} : ledger[v] = maTokens[a][v]
  BY <1>1, <1>7, LedgerType
<1> HIDE DEF ledger
<1>9. \A v \in Addresses : ledger[v] <= WithRewards(ledger, m)[v]
  BY <1>1, <1>8, WithRewardsType
<1>10. WithRewards(ledger, m) \in [Addresses -> Nat]
  BY <1>1, <1>8, WithRewardsType
<1> DEFINE after == WithRewards(ledger, m)
<1>11. /\ maTokens'[a] = after
       /\ \A b \in Assets \ {a} : maTokens'[b] = maTokens[b]
       /\ \A b \in Assets, v \in Addresses : maTokens[b][v] \in Nat
  BY <1>1, <1>6
<1> HIDE DEF after
<1>12. \A v \in Addresses \ {u} : after[v] >= maTokens[a][v]
  BY <1>1, <1>8, <1>9 DEF after
<1>13. after[u] >= left /\ after[u] \in Nat
  BY <1>8, <1>9, <1>10 DEF after
<1>14. \A b \in Assets, v \in Addresses : b \in collateral'[v] =>
         /\ b \in collateral[v]
         /\ (b = a /\ v = u) => amount # balance
  BY <1>6 DEF TypeInv, TypeOK
<1>15. ASSUME NEW b \in Assets, NEW v \in Addresses, b \in collateral'[v]
       PROVE  maTokens'[b][v] >= maTokens[b][v] \/ maTokens'[b][v] > 0
  <2>1. CASE b = a /\ v = u
    BY <1>4, <1>5, <1>11, <1>13, <1>14, <1>15, <2>1
  <2>2. CASE b = a /\ v # u
    BY <1>11, <1>12, <2>2
  <2>3. CASE b # a
    BY <1>11, <2>3
  <2> QED
    BY <2>1, <2>2, <2>3
<1> QED
  BY <1>14, <1>15, WithdrawStep, FlagsSuffice

\* A transfer clears the flag of a sender that keeps nothing, and flags a
\* recipient that gets some.
LEMMA TransferFlags ==
  ASSUME TypeInv, FlagsAreHeld, NEW a \in Assets, NEW u \in Addresses,
         NEW recipient \in Addresses, NEW amount \in Nat,
         TransferMaToken(u, recipient, a, amount)
  PROVE  FlagsAreHeld'
<1> DEFINE debited == Debit(maTokens[a], u, amount)
           ledger == Credit(debited, recipient, amount)
<1>1. /\ maTokens[a] \in [Addresses -> Nat] /\ amount <= maTokens[a][u]
      /\ amount > 0 /\ u # recipient
      /\ maTokens \in [Assets -> [Addresses -> Nat]]
  BY DEF TransferMaToken, TypeInv, TypeOK
<1>2. /\ debited \in [Addresses -> Nat] /\ debited[u] = maTokens[a][u] - amount
      /\ \A v \in Addresses \ {u} : debited[v] = maTokens[a][v]
  BY <1>1 DEF Debit
<1>3. /\ maTokens' = [maTokens EXCEPT ![a] = ledger]
      /\ collateral' = [v \in Addresses |->
           IF v = u /\ maTokens[a][v] = amount THEN collateral[v] \ {a}
           ELSE IF v = recipient /\ maTokens[a][v] = 0 THEN collateral[v] \cup {a}
           ELSE collateral[v]]
  BY DEF TransferMaToken
<1> HIDE DEF debited
<1>4. /\ ledger[recipient] = debited[recipient] + amount
      /\ \A v \in Addresses \ {recipient} : ledger[v] = debited[v]
  BY ONLY <1>2, amount \in Nat, recipient \in Addresses DEF Credit
<1> HIDE DEF ledger
<1>5. /\ maTokens'[a] = ledger
      /\ \A b \in Assets \ {a} : maTokens'[b] = maTokens[b]
      /\ \A b \in Assets, v \in Addresses : maTokens[b][v] \in Nat
  BY <1>1, <1>3
<1>6. ledger[recipient] > 0 /\ ledger[u] = maTokens[a][u] - amount
  BY <1>1, <1>2, <1>4
<1>7. \A v \in Addresses \ {u, recipient} : ledger[v] = maTokens[a][v]
  BY <1>2, <1>4
<1>8. ASSUME NEW b \in Assets, NEW v \in Addresses, b \in collateral'[v]
      PROVE  \/ b \in collateral[v] /\ maTokens'[b][v] >= maTokens[b][v]
             \/ maTokens'[b][v] > 0
  <2>1. CASE b # a
    BY <1>3, <1>5, <1>8, <2>1
  <2>2. CASE b = a /\ v = recipient
    BY <1>5, <1>6, <2>2
  <2>3. CASE b = a /\ v = u
    <3>1. maTokens[a][u] # amount
      BY <1>3, <1>8, <2>3
    <3>2. maTokens[a][u] - amount > 0
      BY <1>1, <3>1
    <3>3. maTokens'[b][v] = maTokens[a][u] - amount
      BY <1>5, <1>6, <2>3
    <3> QED
      BY ONLY <3>2, <3>3
  <2>4. CASE b = a /\ v \notin {u, recipient}
    BY <1>3, <1>5, <1>7, <1>8, <2>4
  <2> QED
    BY <2>1, <2>2, <2>3, <2>4
<1> QED
  BY <1>8, TransferStep, FlagsSuffice

\* A liquidation leaves maTokens where it leaves the flag, and flags a
\* liquidator only for maTokens it gets.
LEMMA LiquidateFlags ==
  ASSUME TypeInv, FlagsAreHeld, NEW u \in Addresses, NEW liquidator \in Addresses,
         NEW c \in Assets, NEW d \in Assets, NEW sent \in Nat,
         NEW receiveMaToken \in BOOLEAN,
         Liquidate(liquidator, u, c, d, sent, receiveMaToken)
  PROVE  FlagsAreHeld'
<1> DEFINE m == markets[c]
           balance == UnderlyingLiquidity(maTokens[c][u], m)
           amounts == LiquidationAmounts(u, c, d, sent)
           seized == ScaledLiquidity(amounts.seize, m)
           debited == Debit(maTokens[c], u, seized)
           credited == Credit(debited, liquidator, seized)
           moved == IF receiveMaToken THEN credited ELSE debited
           refreshed == {d} \cup (IF receiveMaToken THEN {} ELSE {c})
           ledgerOf(a) == IF a = c THEN moved ELSE maTokens[a]
<1>1. /\ Listed(c) /\ Listed(d) /\ MarketInv(m) /\ now \in Nat
      /\ \A a \in Assets : maTokens[a] \in [Addresses -> Nat]
      /\ \A a \in refreshed : MarketInv(markets[a])
  BY DEF Liquidate, TypeInv, TypeOK
<1>2. amounts.repay \in Nat /\ amounts.seize \in Nat
  BY <1>1, LiquidationAmountsType
<1>3. seized \in Nat /\ balance \in Nat
  BY <1>1, <1>2, ScalingType
<1>4. amounts.seize <= balance
  BY <1>3 DEF LiquidationAmounts
<1>5. /\ seized > 0 /\ seized <= maTokens[c][u]
      /\ receiveMaToken => liquidator # u
      /\ maTokens' = [a \in Assets |->
           IF a \in refreshed THEN WithRewards(ledgerOf(a), markets[a]) ELSE ledgerOf(a)]
      /\ collateral' = [v \in Addresses |->
           IF v = u /\ amounts.seize = balance THEN collateral[u] \ {c}
           ELSE IF v = liquidator /\ receiveMaToken THEN collateral[v] \cup {c}
           ELSE collateral[v]]
  BY Zenon DEF Liquidate
<1>6. amounts.seize # balance => seized < maTokens[c][u]
  <2>1. maTokens[c][u] \in Nat
    BY <1>1
  <2>2. amounts.seize # balance => amounts.seize < balance
    BY <1>2, <1>3, <1>4
  <2> QED
    BY <1>1, <1>2, <2>1, <2>2, PartIsScaled
<1> HIDE DEF seized, amounts, balance, refreshed
<1>7. /\ debited \in [Addresses -> Nat] /\ debited[u] = maTokens[c][u] - seized
      /\ \A v \in Addresses \ {u} : debited[v] = maTokens[c][v]
  <2>1. maTokens[c] \in [Addresses -> Nat]
    BY <1>1
  <2>2. seized \in Nat /\ seized <= maTokens[c][u]
    BY <1>3, <1>5
  <2> QED
    BY ONLY <2>1, <2>2, u \in Addresses DEF Debit
<1> HIDE DEF debited
<1>8. /\ credited \in [Addresses -> Nat] /\ credited[liquidator] = debited[liquidator] + seized
      /\ \A v \in Addresses \ {liquidator} : credited[v] = debited[v]
  BY ONLY <1>3, <1>7, liquidator \in Addresses DEF Credit
<1> HIDE DEF credited
\* what the ledger of the collateral is before the rewards
<1>9. /\ moved \in [Addresses -> Nat]
      /\ moved[u] = maTokens[c][u] - seized
      /\ \A v \in Addresses \ {u} : moved[v] >= maTokens[c][v]
      /\ receiveMaToken => moved[liquidator] > 0
  <2>1. CASE receiveMaToken
    <3>1. moved = credited /\ liquidator # u
      BY <1>5, <2>1
    <3>2. credited[u] = maTokens[c][u] - seized
      BY <1>7, <1>8, <3>1
    <3>3. \A v \in Addresses : maTokens[c][v] \in Nat /\ debited[v] \in Nat
      BY <1>1, <1>7
    <3>4. credited[liquidator] > 0
      BY <1>3, <1>5, <1>8, <3>3
    <3>5. \A v \in Addresses \ {u} : credited[v] >= maTokens[c][v]
      <4> SUFFICES ASSUME NEW v \in Addresses \ {u}
                   PROVE  credited[v] >= maTokens[c][v]
        OBVIOUS
      <4>1. debited[v] = maTokens[c][v] /\ maTokens[c][v] \in Nat
        BY <1>7, <3>3
      <4>2. CASE v = liquidator
        BY <1>3, <1>8, <4>1, <4>2
      <4>3. CASE v # liquidator
        BY <1>8, <4>1, <4>3
      <4> QED
        BY <4>2, <4>3
    <3> HIDE DEF moved
    <3> QED
      BY <1>8, <3>1, <3>2, <3>4, <3>5
  <2>2. CASE ~receiveMaToken
    <3>1. moved = debited
      BY <2>2
    <3>2. \A v \in Addresses : maTokens[c][v] \in Nat
      BY <1>1
    <3> HIDE DEF moved
    <3> QED
      BY <1>7, <2>2, <3>1, <3>2
  <2> QED
    BY <2>1, <2>2
<1> HIDE DEF moved
<1>10. \A a \in Assets : ledgerOf(a) \in [Addresses -> Nat]
  BY <1>1, <1>9
<1>11. \A a \in Assets, v \in Addresses : maTokens'[a][v] >= ledgerOf(a)[v]
  <2> SUFFICES ASSUME NEW a \in Assets
               PROVE  \A v \in Addresses : maTokens'[a][v] >= ledgerOf(a)[v]
    OBVIOUS
  <2>1. ledgerOf(a) \in [Addresses -> Nat]
    BY <1>10
  <2> DEFINE ledger == ledgerOf(a)
  <2>2. maTokens'[a] = IF a \in refreshed THEN WithRewards(ledger, markets[a]) ELSE ledger
    BY <1>5
  <2> HIDE DEF ledger
  <2>3. ledger \in [Addresses -> Nat]
    BY <2>1 DEF ledger
  <2>4. CASE a \in refreshed
    <3>1. \A v \in Addresses : ledger[v] <= WithRewards(ledger, markets[a])[v]
      BY <1>1, <2>3, <2>4, WithRewardsType
    <3>2. \A v \in Addresses : ledger[v] \in Nat /\ WithRewards(ledger, markets[a])[v] \in Nat
      BY <1>1, <2>3, <2>4, WithRewardsType
    <3> QED
      BY <2>2, <2>4, <3>1, <3>2 DEF ledger
  <2>5. CASE a \notin refreshed
    <3>1. \A v \in Addresses : ledger[v] >= ledger[v]
      BY <2>3
    <3> QED
      BY <2>2, <2>5, <3>1 DEF ledger
  <2> QED
    BY <2>4, <2>5
<1>12. \A a \in Assets, v \in Addresses : maTokens[a][v] \in Nat /\ maTokens'[a][v] \in Nat
  <2>1. TypeInv'
    BY LiquidateStep
  <2>2. maTokens' \in [Assets -> [Addresses -> Nat]]
    BY <2>1 DEF TypeInv, TypeOK
  <2> QED
    BY <1>1, <2>2
<1>13. ASSUME NEW b \in Assets, NEW v \in Addresses, b \in collateral'[v]
       PROVE  \/ b \in collateral[v] /\ maTokens'[b][v] >= maTokens[b][v]
              \/ maTokens'[b][v] > 0
  <2>1. CASE b # c
    BY <1>5, <1>11, <1>13, <2>1
  <2>2. CASE b = c /\ v = u
    <3>1. amounts.seize # balance
      BY <1>5, <1>13, <2>2
    <3>2. maTokens[c][u] - seized > 0 /\ maTokens[c][u] - seized \in Nat
      BY <1>1, <1>3, <1>6, <3>1
    <3>3. maTokens'[b][v] >= maTokens[c][u] - seized
      BY <1>9, <1>11, <2>2
    <3>4. maTokens'[b][v] \in Nat
      BY <1>12
    <3> QED
      BY ONLY <3>2, <3>3, <3>4
  <2>3. CASE b = c /\ v # u
    <3>1. maTokens'[b][v] >= moved[v] /\ moved[v] \in Nat
      BY <1>9, <1>11, <2>3
    <3>2. CASE v = liquidator /\ receiveMaToken
      BY <1>9, <1>12, <3>1, <3>2
    <3>3. CASE ~(v = liquidator /\ receiveMaToken)
      <4>1. b \in collateral[v]
        BY <1>5, <1>13, <2>3, <3>3
      <4>2. moved[v] >= maTokens[c][v]
        BY <1>9, <2>3
      <4> QED
        BY <1>12, <2>3, <3>1, <4>1, <4>2
    <3> QED
      BY <3>2, <3>3
  <2> QED
    BY <2>1, <2>2, <2>3
<1> QED
  BY <1>13, LiquidateStep, FlagsSuffice

\* No step lets a flag outlive the maTokens it stands for.
LEMMA FlagsStep ==
  ASSUME TypeInv, FlagsAreHeld, IndexesWithinPrecision, [Next]_vars
  PROVE  FlagsAreHeld'
<1>1. TypeInv'
  BY TypeInvStep
<1>2. ASSUME maTokens' = maTokens, collateral' = collateral
      PROVE  FlagsAreHeld'
  BY <1>2 DEF FlagsAreHeld
<1>3. ASSUME NEW a \in Assets, Listed(a), collateral' = collateral,
             maTokens' = [maTokens EXCEPT ![a] = WithRewards(@, markets[a])]
      PROVE  FlagsAreHeld'
  <2>1. /\ MarketInv(markets[a]) /\ now \in Nat /\ maTokens[a] \in [Addresses -> Nat]
        /\ maTokens \in [Assets -> [Addresses -> Nat]]
    BY <1>3 DEF TypeInv, TypeOK
  <2>2. \A v \in Addresses : maTokens[a][v] <= WithRewards(maTokens[a], markets[a])[v]
    BY <2>1, WithRewardsType
  <2> DEFINE after == WithRewards(maTokens[a], markets[a])
  <2>3. /\ maTokens'[a] = after
        /\ \A b \in Assets \ {a} : maTokens'[b] = maTokens[b]
        /\ \A b \in Assets, v \in Addresses : maTokens[b][v] \in Nat
    BY <1>3, <2>1
  <2> HIDE DEF after
  <2>4. \A b \in Assets, v \in Addresses : maTokens'[b][v] \in Nat
    BY <1>1 DEF TypeInv, TypeOK
  <2>5. \A b \in Assets, v \in Addresses : maTokens'[b][v] >= maTokens[b][v]
    BY <2>2, <2>3, <2>4 DEF after
  <2> QED
    BY <1>1, <1>3, <2>5, FlagsSuffice
<1>4. ASSUME NEW a \in Assets, StepOf(a)
      PROVE  FlagsAreHeld'
  <2>1. CASE InitAsset(a) \/ PriceChange(a)
    BY <1>2, <2>1 DEF InitAsset, PriceChange, position
  <2>2. CASE UpdateAsset(a)
    <3>1. Listed(a) /\ collateral' = collateral
      BY <2>2 DEF UpdateAsset, position
    <3> QED
      BY <1>2, <1>3, <2>2, <3>1, UpdateAssetMarket
  <2>3. ASSUME NEW u \in Addresses, UpdateUncollateralizedLoanLimit(u, a)
        PROVE  FlagsAreHeld'
    BY <1>2, <2>3 DEF UpdateUncollateralizedLoanLimit, position
  <2>4. ASSUME NEW u \in Addresses, UpdateAssetCollateralStatus(u, a)
        PROVE  FlagsAreHeld'
    <3>1. /\ maTokens' = maTokens
          /\ \/ maTokens[a][u] > 0 /\ collateral' = [collateral EXCEPT ![u] = @ \cup {a}]
             \/ collateral' = [collateral EXCEPT ![u] = @ \ {a}]
      BY <2>4 DEF UpdateAssetCollateralStatus
    <3> QED
      BY <3>1 DEF FlagsAreHeld, TypeInv, TypeOK
  <2>5. ASSUME NEW u \in Addresses, NEW amount \in Nat,
               Deposit(u, a, amount) \/ Withdraw(u, a, amount)
        PROVE  FlagsAreHeld'
    BY <2>5, DepositFlags, WithdrawFlags
  <2>6. ASSUME NEW u \in Addresses, NEW amount \in Nat, NEW other \in Addresses,
               Borrow(u, a, amount) \/ Repay(other, u, a, amount)
        PROVE  FlagsAreHeld'
    <3>1. /\ Listed(a) /\ collateral' = collateral
          /\ maTokens' = [maTokens EXCEPT ![a] = WithRewards(@, markets[a])]
      BY <2>6 DEF Borrow, Repay
    <3> QED
      BY <1>3, <3>1
  <2>7. ASSUME NEW u \in Addresses, NEW amount \in Nat, NEW other \in Addresses,
               TransferMaToken(u, other, a, amount)
        PROVE  FlagsAreHeld'
    BY <2>7, TransferFlags
  <2>8. ASSUME NEW u \in Addresses, NEW liquidator \in Addresses, NEW c \in Assets,
               NEW amount \in Nat, NEW receiveMaToken \in BOOLEAN,
               Liquidate(liquidator, u, c, a, amount, receiveMaToken)
        PROVE  FlagsAreHeld'
    BY <2>8, LiquidateFlags
  <2> QED
    BY <1>4, <2>1, <2>2, <2>3, <2>4, <2>5, <2>6, <2>7, <2>8 DEF StepOf
<1>5. CASE UpdateConfig \/ Tick \/ UNCHANGED vars
  BY <1>2, <1>5 DEF UpdateConfig, Tick, vars, position
<1> QED
  BY <1>4, <1>5, NextSteps

\* While no index outgrows the precision of the scaled amounts, no bit of
\* collateral outlives the maTokens it stands for.  Without the bound a
\* withdrawal of less than everything may leave no maTokens, and the bit.
THEOREM CollateralStays == Spec /\ []IndexesWithinPrecision => []CollateralIsHeld
<1>1. Init => TypeInv /\ FlagsAreHeld
  BY TypeInvInit DEF Init, FlagsAreHeld
<1>2. TypeInv /\ FlagsAreHeld /\ IndexesWithinPrecision /\ [Next]_vars =>
        TypeInv' /\ FlagsAreHeld'
  BY TypeInvStep, FlagsStep
<1>3. FlagsAreHeld => CollateralIsHeld
  BY DEF FlagsAreHeld, CollateralIsHeld, QueryMarketsList, QueryUserCollateral
<1> QED
  BY <1>1, <1>2, <1>3, PTL DEF Spec

-----------------------------------------------------------------------------
(* What is answered.  The type invariant is enough: a query and the operation  *)
(* after it in the same block bring the same stored market to the same time.   *)

KeptBy ==
  \A a \in Assets, u \in Users :
    MintsAsAnswered(a, u) /\ LendsAsAnswered(a, u) /\ CancelsAsAnswered(a, u)

\* The three answers the property compares an operation with.
LEMMA AnswersAre ==
  ASSUME NEW a, NEW n
  PROVE  /\ Answer([ask |-> "scaled_liquidity_amount", asset |-> a, amount |-> n])
              = ScaledLiquidity(n, markets[a])
         /\ Answer([ask |-> "scaled_debt_amount", asset |-> a, amount |-> n])
              = ScaledDebt(n, markets[a])
         /\ Answer([ask |-> "underlying_debt_amount", asset |-> a, amount_scaled |-> n])
              = UnderlyingDebt(n, markets[a])
  BY DEF Answer, QueryScaledLiquidityAmount, QueryScaledDebtAmount, QueryUnderlyingDebtAmount

\* Nothing is promised to a user whose maTokens do not grow, or grow at the
\* expense of another.
LEMMA NothingMinted ==
  ASSUME TypeInv, TypeInv', NEW a \in Assets, NEW u \in Users,
         \/ maTokens'[a][u] <= maTokens[a][u]
         \/ \E v \in Addresses : maTokens'[a][v] < maTokens[a][v]
  PROVE  MintsAsAnswered(a, u)
<1>1. \A v \in Addresses : maTokens[a][v] \in Nat /\ maTokens'[a][v] \in Nat
  BY DEF TypeInv, TypeOK
<1>2. u \in Addresses
  BY DEF Users
<1> QED
  BY <1>1, <1>2 DEF MintsAsAnswered

\* Nor to one whose debt stays as it is.
LEMMA NothingOwedAnew ==
  ASSUME TypeInv, NEW a \in Assets, NEW u \in Users, debts'[a][u] = debts[a][u]
  PROVE  LendsAsAnswered(a, u) /\ CancelsAsAnswered(a, u)
<1>1. debts[a][u] \in Nat
  BY DEF TypeInv, TypeOK, Users
<1> QED
  BY <1>1 DEF LendsAsAnswered, CancelsAsAnswered

\* A debt that falls, and is paid in full when it falls to zero.
LEMMA DebtPaidAsAnswered ==
  ASSUME TypeInv, TypeInv', NEW a \in Assets, NEW u \in Users, debts'[a][u] <= debts[a][u],
         (debts'[a][u] = 0 /\ maTokens'[a][u] >= maTokens[a][u]) =>
           cash'[a] - cash[a] = UnderlyingDebt(debts[a][u], markets[a])
  PROVE  LendsAsAnswered(a, u) /\ CancelsAsAnswered(a, u)
<1>1. LendsAsAnswered(a, u)
  <2>1. debts[a][u] \in Nat /\ debts'[a][u] \in Nat
    BY DEF TypeInv, TypeOK, Users
  <2>2. ~(debts'[a][u] > debts[a][u])
    BY <2>1
  <2> QED
    BY <2>2 DEF LendsAsAnswered
<1>2. CancelsAsAnswered(a, u)
  BY AnswersAre DEF CancelsAsAnswered
<1> QED
  BY <1>1, <1>2

\* What is recorded for the rest of a debt is zero only when there is no rest.
LEMMA NoDebtNoRest ==
  ASSUME NEW m, MarketInv(m), now \in Nat, NEW rest \in Nat, ScaledDebt(rest, m) = 0
  PROVE  rest = 0
<1>1. UnderlyingDebt(0, m) >= rest
  BY DebtRoundTrip
<1>2. UnderlyingDebt(0, m) = 0
  <2>1. BorrowIndex(m) \in Nat /\ ScalingFactor \in Nat \ {0} /\ One \in Nat \ {0}
    BY IndexOrder, RedBankAssumptions, OneAssumption
  <2>2. 0 * BorrowIndex(m) = 0
    BY <2>1
  <2>3. Mul(0, BorrowIndex(m)) = 0
    BY <2>1, <2>2 DEF Mul
  <2> QED
    BY <2>1, <2>3 DEF UnderlyingDebt, UnderlyingDebtAt, CeilDiv
<1> QED
  BY <1>1, <1>2

\* A deposit mints what was announced for it, to its beneficiary alone.
LEMMA DepositAnswers ==
  ASSUME TypeInv, NEW a \in Assets, NEW u \in Users, NEW amount \in Nat, Deposit(u, a, amount)
  PROVE  KeptBy
<1> DEFINE mint == ScaledLiquidity(amount, markets[a])
           rewarded == WithRewards(maTokens[a], markets[a])
           ledger == Credit(rewarded, u, mint)
<1>1. /\ MarketInv(markets[a]) /\ now \in Nat /\ maTokens[a] \in [Addresses -> Nat]
      /\ maTokens \in [Assets -> [Addresses -> Nat]] /\ cash \in [Assets -> Nat]
      /\ u \in Addresses
  BY DEF Deposit, TypeInv, TypeOK, Users
<1>2. mint \in Nat /\ TypeInv'
  BY <1>1, ScalingType, DepositStep
<1>3. /\ rewarded \in [Addresses -> Nat]
      /\ \A v \in Addresses \ {Collector} : rewarded[v] = maTokens[a][v]
  BY <1>1, WithRewardsType
<1>4. /\ maTokens' = [maTokens EXCEPT ![a] = ledger]
      /\ cash' = [cash EXCEPT ![a] = @ + amount]
      /\ debts' = debts
  BY DEF Deposit
<1> HIDE DEF mint, rewarded
<1>5. /\ ledger[u] = rewarded[u] + mint
      /\ \A v \in Addresses \ {u} : ledger[v] = rewarded[v]
  BY <1>1, <1>2, <1>3 DEF Credit
<1> HIDE DEF ledger
<1>6. ledger[u] = maTokens[a][u] + mint /\ \A v \in Users \ {u} : ledger[v] = maTokens[a][v]
  BY <1>3, <1>5 DEF Users
<1>7. /\ maTokens'[a] = ledger
      /\ \A b \in Assets \ {a} : maTokens'[b] = maTokens[b]
      /\ cash'[a] - cash[a] = amount
  BY <1>1, <1>4
<1>8. ASSUME NEW b \in Assets, NEW v \in Users
      PROVE  MintsAsAnswered(b, v)
  <2>1. maTokens[b][v] \in Nat
    BY <1>1, <1>8 DEF Users
  <2>2. CASE b = a /\ v = u
    <3>1. maTokens'[a][u] - maTokens[a][u] = mint
      BY <1>2, <1>6, <1>7, <2>1, <2>2
    <3>2. maTokens'[a][u] - maTokens[a][u] = ScaledLiquidity(cash'[a] - cash[a], markets[a])
      BY <1>7, <3>1 DEF mint
    <3> QED
      BY <2>2, <3>2, AnswersAre DEF MintsAsAnswered
  <2>3. CASE ~(b = a /\ v = u)
    <3>1. maTokens'[b][v] = maTokens[b][v]
      BY <1>6, <1>7, <2>3
    <3> QED
      BY <1>2, <2>1, <3>1, NothingMinted
  <2> QED
    BY <2>2, <2>3
<1> QED
  BY <1>4, <1>8, NothingOwedAnew DEF KeptBy

\* A withdrawal gives no user maTokens.
LEMMA WithdrawAnswers ==
  ASSUME TypeInv, NEW a \in Assets, NEW u \in Addresses, NEW amount \in Nat,
         Withdraw(u, a, amount)
  PROVE  KeptBy
<1> DEFINE held == maTokens[a][u]
           balance == UnderlyingLiquidity(held, markets[a])
           left == ScaledLiquidity(balance - amount, markets[a])
           burnt == Debit(maTokens[a], u, held - left)
           after == WithRewards(burnt, markets[a])
<1>1. /\ MarketInv(markets[a]) /\ now \in Nat /\ maTokens[a] \in [Addresses -> Nat]
      /\ maTokens \in [Assets -> [Addresses -> Nat]]
  BY DEF Withdraw, TypeInv, TypeOK
<1>2. TypeInv'
  BY WithdrawStep
<1>3. balance \in Nat /\ held \in Nat
  BY <1>1, ScalingType
<1>4. balance - amount \in Nat
  BY <1>3 DEF Withdraw
<1>5. left \in Nat
  BY <1>1, <1>4, ScalingType
<1>6. /\ held - left > 0 /\ maTokens' = [maTokens EXCEPT ![a] = after]
      /\ debts' = debts
  BY DEF Withdraw
<1> HIDE DEF left, balance
<1>7. held - left \in Nat /\ held - left <= held
  BY <1>3, <1>5, <1>6
<1>8. /\ burnt \in [Addresses -> Nat] /\ burnt[u] = held - (held - left)
      /\ \A v \in Addresses \ {u} : burnt[v] = maTokens[a][v]
  BY <1>1, <1>7, LedgerType
<1> HIDE DEF burnt
<1>9. \A v \in Addresses \ {Collector} : after[v] = burnt[v]
  BY <1>1, <1>8, WithRewardsType
<1> HIDE DEF after
<1>10. held - (held - left) <= held
  BY <1>3, <1>5, <1>7
<1>11. ASSUME NEW b \in Assets, NEW v \in Users
       PROVE  maTokens'[b][v] <= maTokens[b][v]
  <2>1. maTokens[b][v] \in Nat /\ v \in Addresses \ {Collector}
    BY <1>1 DEF Users
  <2>2. CASE b = a /\ v = u
    BY <1>1, <1>6, <1>8, <1>9, <1>10, <2>1, <2>2
  <2>3. CASE b = a /\ v # u
    <3>1. maTokens'[b][v] = maTokens[b][v]
      BY <1>1, <1>6, <1>8, <1>9, <2>1, <2>3
    <3> QED
      BY <2>1, <3>1
  <2>4. CASE b # a
    BY <1>1, <1>6, <2>1, <2>4
  <2> QED
    BY <2>2, <2>3, <2>4
<1> QED
  BY <1>2, <1>6, <1>11, NothingMinted, NothingOwedAnew DEF KeptBy

\* The rewards an operation mints go to the collector: no user gains maTokens.
LEMMA RewardsAreNotMinted ==
  ASSUME TypeInv, TypeInv', NEW a \in Assets, Listed(a),
         maTokens' = [maTokens EXCEPT ![a] = WithRewards(@, markets[a])]
  PROVE  \A b \in Assets, v \in Users :
           maTokens'[b][v] = maTokens[b][v] /\ MintsAsAnswered(b, v)
<1>1. /\ MarketInv(markets[a]) /\ now \in Nat /\ maTokens[a] \in [Addresses -> Nat]
      /\ maTokens \in [Assets -> [Addresses -> Nat]]
  BY DEF TypeInv, TypeOK
<1>2. \A v \in Users : WithRewards(maTokens[a], markets[a])[v] = maTokens[a][v]
  BY <1>1, WithRewardsType DEF Users
<1>3. \A b \in Assets, v \in Users : maTokens'[b][v] = maTokens[b][v]
  BY <1>1, <1>2
<1>4. \A b \in Assets, v \in Users : maTokens[b][v] \in Nat
  BY <1>1 DEF Users
<1>5. \A b \in Assets, v \in Users : maTokens'[b][v] <= maTokens[b][v]
  BY <1>3, <1>4
<1> QED
  BY <1>3, <1>5, NothingMinted

\* A loan adds the scaled debt that was announced for it.
LEMMA BorrowAnswers ==
  ASSUME TypeInv, NEW a \in Assets, NEW u \in Users, NEW amount \in Nat, Borrow(u, a, amount)
  PROVE  KeptBy
<1> DEFINE scaled == ScaledDebt(amount, markets[a])
<1>1. /\ Listed(a) /\ u \in Addresses /\ cash \in [Assets -> Nat]
      /\ debts \in [Assets -> [Addresses -> Nat]]
  BY DEF Borrow, TypeInv, TypeOK, Users
<1>2. TypeInv' /\ scaled \in Nat
  BY <1>1, BorrowStep
<1>3. /\ debts' = [debts EXCEPT ![a][u] = @ + scaled]
      /\ cash' = [cash EXCEPT ![a] = @ - amount]
      /\ maTokens' = [maTokens EXCEPT ![a] = WithRewards(@, markets[a])]
  BY DEF Borrow
<1> HIDE DEF scaled
<1>4. \A b \in Assets, v \in Users : MintsAsAnswered(b, v)
  BY <1>1, <1>2, <1>3, RewardsAreNotMinted
<1>5. debts[a][u] \in Nat /\ debts'[a][u] = debts[a][u] + scaled
  BY <1>1, <1>3
<1>6. cash[a] - cash'[a] = amount
  BY <1>1, <1>3
<1>7. LendsAsAnswered(a, u)
  <2>1. debts'[a][u] - debts[a][u] = scaled
    BY <1>2, <1>5
  <2>2. debts'[a][u] - debts[a][u] = ScaledDebt(cash[a] - cash'[a], markets[a])
    BY <1>6, <2>1 DEF scaled
  <2> QED
    BY <2>2, AnswersAre DEF LendsAsAnswered
<1>8. CancelsAsAnswered(a, u)
  <2>1. ~(debts'[a][u] = 0 /\ debts[a][u] > 0)
    BY <1>2, <1>5
  <2> QED
    BY <2>1 DEF CancelsAsAnswered
<1>9. \A b \in Assets, v \in Users : ~(b = a /\ v = u) => debts'[b][v] = debts[b][v]
  BY <1>1, <1>3
<1> QED
  BY <1>4, <1>7, <1>8, <1>9, NothingOwedAnew DEF KeptBy

\* A debt that is repaid in full costs what was announced for cancelling it.
LEMMA RepayAnswers ==
  ASSUME TypeInv, NEW a \in Assets, NEW u \in Users, NEW sender \in Addresses,
         NEW amount \in Nat, Repay(sender, u, a, amount)
  PROVE  KeptBy
<1> DEFINE m == markets[a]
           owed == UnderlyingDebt(debts[a][u], m)
           repaid == SmallerOf(amount, owed)
           after == ScaledDebt(owed - repaid, m)
<1>1. /\ Listed(a) /\ MarketInv(m) /\ now \in Nat /\ u \in Addresses
      /\ cash \in [Assets -> Nat] /\ debts \in [Assets -> [Addresses -> Nat]]
  BY DEF Repay, TypeInv, TypeOK, Users
<1>2. owed \in Nat
  BY <1>1, ScalingType
<1>3. repaid \in Nat /\ owed - repaid \in Nat
  BY <1>2 DEF SmallerOf
<1>4. after = 0 => owed - repaid = 0
  BY <1>1, <1>3, NoDebtNoRest
<1>5. /\ debts' = [debts EXCEPT ![a][u] = after]
      /\ debts[a][u] >= after
      /\ cash' = [cash EXCEPT ![a] = @ + repaid]
      /\ maTokens' = [maTokens EXCEPT ![a] = WithRewards(@, m)]
  BY Zenon DEF Repay
<1>6. TypeInv'
  BY <1>1, RepayStep
<1> HIDE DEF owed, repaid, after
<1>7. \A b \in Assets, v \in Users : MintsAsAnswered(b, v)
  BY <1>1, <1>5, <1>6, RewardsAreNotMinted
<1>8. debts'[a][u] = after /\ cash'[a] - cash[a] = repaid
  BY <1>1, <1>3, <1>5
<1>9. after = 0 => repaid = owed
  BY <1>2, <1>3, <1>4
<1>10. debts'[a][u] <= debts[a][u]
  BY <1>5, <1>8
<1>11. debts'[a][u] = 0 => cash'[a] - cash[a] = UnderlyingDebt(debts[a][u], markets[a])
  BY <1>8, <1>9 DEF owed
<1>12. LendsAsAnswered(a, u) /\ CancelsAsAnswered(a, u)
  BY <1>6, <1>10, <1>11, DebtPaidAsAnswered
<1>13. \A b \in Assets, v \in Users : ~(b = a /\ v = u) => debts'[b][v] = debts[b][v]
  BY <1>1, <1>5
<1> QED
  BY <1>7, <1>12, <1>13, NothingOwedAnew DEF KeptBy

\* A liquidation takes maTokens from the user it liquidates, and cancels a debt
\* in another asset at what was announced for it.
LEMMA LiquidateAnswers ==
  ASSUME TypeInv, NEW u \in Users, NEW liquidator \in Addresses,
         NEW c \in Assets, NEW d \in Assets, NEW sent \in Nat,
         NEW receiveMaToken \in BOOLEAN,
         Liquidate(liquidator, u, c, d, sent, receiveMaToken)
  PROVE  KeptBy
<1> DEFINE m == markets[c]
           amounts == LiquidationAmounts(u, c, d, sent)
           seized == ScaledLiquidity(amounts.seize, m)
           owed == UnderlyingDebt(debts[d][u], markets[d])
           after == ScaledDebt(owed - amounts.repay, markets[d])
           paidOut == IF receiveMaToken THEN 0 ELSE amounts.seize
           debited == Debit(maTokens[c], u, seized)
           moved == IF receiveMaToken THEN Credit(debited, liquidator, seized) ELSE debited
           refreshed == {d} \cup (IF receiveMaToken THEN {} ELSE {c})
           ledgerOf(a) == IF a = c THEN moved ELSE maTokens[a]
<1>1. /\ MarketInv(m) /\ MarketInv(markets[d]) /\ now \in Nat
      /\ \A a \in Assets : maTokens[a] \in [Addresses -> Nat] /\ cash[a] \in Nat
      /\ \A a \in refreshed : MarketInv(markets[a])
      /\ debts \in [Assets -> [Addresses -> Nat]]
      /\ u \in Addresses \ {Collector} /\ Listed(c) /\ Listed(d)
  BY DEF Liquidate, TypeInv, TypeOK, Users
<1>2. amounts.repay \in Nat /\ amounts.seize \in Nat
  BY <1>1, LiquidationAmountsType
<1>3. seized \in Nat /\ owed \in Nat
  BY <1>1, <1>2, ScalingType
<1>4. /\ amounts.repay <= SmallerOf(sent, owed)
      /\ seized > 0 /\ seized <= maTokens[c][u]
      /\ receiveMaToken => liquidator # u
      /\ after <= debts[d][u]
      /\ debts' = [debts EXCEPT ![d][u] = after]
      /\ cash' = [a \in Assets |-> cash[a] + (IF a = d THEN amounts.repay ELSE 0)
                                           - (IF a = c THEN paidOut ELSE 0)]
      /\ maTokens' = [a \in Assets |->
           IF a \in refreshed THEN WithRewards(ledgerOf(a), markets[a]) ELSE ledgerOf(a)]
  BY Zenon DEF Liquidate, TransferOnLiquidation, BurnOnLiquidation, DebtAfterLiquidation,
               CashAfterLiquidation
<1>5. owed - amounts.repay \in Nat
  BY <1>2, <1>3, <1>4 DEF SmallerOf
<1>6. after = 0 => owed - amounts.repay = 0
  BY <1>1, <1>5, NoDebtNoRest
<1>7. TypeInv'
  BY <1>1, LiquidateStep
<1>8. d # c => cash'[d] - cash[d] = amounts.repay
  BY <1>1, <1>2, <1>4
<1>9. after = 0 => amounts.repay = owed
  BY <1>2, <1>3, <1>5, <1>6
<1> HIDE DEF seized, amounts, owed, after, paidOut
<1>10. /\ debited \in [Addresses -> Nat] /\ debited[u] = maTokens[c][u] - seized
  <2>1. maTokens[c] \in [Addresses -> Nat] /\ u \in Addresses
    BY <1>1
  <2>2. seized \in Nat /\ seized <= maTokens[c][u]
    BY <1>3, <1>4
  <2> QED
    BY ONLY <2>1, <2>2 DEF Debit
<1> HIDE DEF debited, refreshed
<1>11. moved \in [Addresses -> Nat] /\ moved[u] = maTokens[c][u] - seized
  <2>1. CASE receiveMaToken
    <3>1. liquidator # u /\ moved = Credit(debited, liquidator, seized)
      BY <1>4, <2>1
    <3> QED
      BY <1>1, <1>3, <1>10, <3>1 DEF Credit
  <2>2. CASE ~receiveMaToken
    BY <1>10, <2>2
  <2> QED
    BY <2>1, <2>2
<1> HIDE DEF moved
<1>12. \A a \in Assets, v \in Users : maTokens'[a][v] = ledgerOf(a)[v]
  <2> SUFFICES ASSUME NEW a \in Assets
               PROVE  \A v \in Users : maTokens'[a][v] = ledgerOf(a)[v]
    OBVIOUS
  <2> DEFINE ledger == ledgerOf(a)
  <2>1. maTokens'[a] = IF a \in refreshed THEN WithRewards(ledger, markets[a]) ELSE ledger
    BY <1>4
  <2>2. ledger \in [Addresses -> Nat]
    BY <1>1, <1>11
  <2> HIDE DEF ledger
  <2>3. CASE a \in refreshed
    <3>1. \A v \in Addresses \ {Collector} : WithRewards(ledger, markets[a])[v] = ledger[v]
      BY <1>1, <2>2, <2>3, WithRewardsType
    <3> QED
      BY <2>1, <2>3, <3>1 DEF ledger, Users
  <2>4. CASE a \notin refreshed
    BY <2>1, <2>4 DEF ledger
  <2> QED
    BY <2>3, <2>4
<1>13. maTokens'[c][u] < maTokens[c][u]
  <2>1. maTokens'[c][u] = maTokens[c][u] - seized /\ maTokens[c][u] \in Nat
    BY <1>1, <1>11, <1>12
  <2> QED
    BY <1>3, <1>4, <2>1
<1>14. ASSUME NEW a \in Assets, NEW v \in Users
       PROVE  MintsAsAnswered(a, v)
  <2>1. CASE a = c
    BY <1>1, <1>7, <1>13, <2>1, NothingMinted
  <2>2. CASE a # c
    <3>1. maTokens'[a][v] = maTokens[a][v] /\ maTokens[a][v] \in Nat
      BY <1>1, <1>12, <2>2 DEF Users
    <3>2. maTokens'[a][v] <= maTokens[a][v]
      BY <3>1
    <3> QED
      BY <1>7, <3>2, NothingMinted
  <2> QED
    BY <2>1, <2>2
<1>15. debts'[d][u] = after
  BY <1>1, <1>4
<1>16. (debts'[d][u] = 0 /\ maTokens'[d][u] >= maTokens[d][u]) =>
         cash'[d] - cash[d] = UnderlyingDebt(debts[d][u], markets[d])
  <2>1. CASE d = c
    <3>1. maTokens'[c][u] \in Nat /\ maTokens[c][u] \in Nat
      BY <1>1, <1>7 DEF TypeInv, TypeOK
    <3> QED
      BY <1>13, <2>1, <3>1
  <2>2. CASE d # c
    BY <1>8, <1>9, <1>15, <2>2 DEF owed
  <2> QED
    BY <2>1, <2>2
<1>17. LendsAsAnswered(d, u) /\ CancelsAsAnswered(d, u)
  <2>1. debts'[d][u] <= debts[d][u]
    BY <1>4, <1>15
  <2> QED
    BY <1>7, <1>16, <2>1, DebtPaidAsAnswered
<1>18. \A a \in Assets, v \in Users : ~(a = d /\ v = u) => debts'[a][v] = debts[a][v]
  BY <1>1, <1>4
<1> QED
  BY <1>14, <1>17, <1>18, NothingOwedAnew DEF KeptBy

\* A transfer gives maTokens, and takes them from the sender.
LEMMA TransferAnswers ==
  ASSUME TypeInv, NEW a \in Assets, NEW u \in Users, NEW recipient \in Addresses,
         NEW amount \in Nat, TransferMaToken(u, recipient, a, amount)
  PROVE  KeptBy
<1> DEFINE debited == Debit(maTokens[a], u, amount)
           ledger == Credit(debited, recipient, amount)
<1>1. /\ maTokens[a] \in [Addresses -> Nat] /\ amount <= maTokens[a][u]
      /\ amount > 0 /\ u # recipient /\ u \in Addresses
      /\ maTokens \in [Assets -> [Addresses -> Nat]]
  BY DEF TransferMaToken, TypeInv, TypeOK, Users
<1>2. debited \in [Addresses -> Nat] /\ debited[u] = maTokens[a][u] - amount
  BY <1>1, LedgerType
<1>3. maTokens' = [maTokens EXCEPT ![a] = ledger] /\ debts' = debts
  BY DEF TransferMaToken
<1> HIDE DEF debited
<1>4. ledger[u] = debited[u]
  BY <1>1, <1>2 DEF Credit
<1>5. TypeInv'
  BY <1>1, TransferStep
<1>6. \A b \in Assets, v \in Addresses : maTokens[b][v] \in Nat
  BY <1>1
<1> HIDE DEF ledger
<1>7. maTokens'[a][u] < maTokens[a][u]
  BY <1>1, <1>2, <1>3, <1>4, <1>6
<1>8. \A b \in Assets \ {a}, v \in Users : maTokens'[b][v] <= maTokens[b][v]
  BY <1>1, <1>3, <1>6 DEF Users
<1> QED
  BY <1>1, <1>3, <1>5, <1>7, <1>8, NothingMinted, NothingOwedAnew DEF KeptBy

\* Every step does as was answered before it.
LEMMA AnswersStep ==
  ASSUME TypeInv, [Next]_vars
  PROVE  KeptBy
<1>1. TypeInv'
  BY TypeInvStep
<1>2. ASSUME maTokens' = maTokens, debts' = debts
      PROVE  KeptBy
  <2>1. \A a \in Assets, u \in Users : maTokens'[a][u] <= maTokens[a][u]
    BY <1>2 DEF TypeInv, TypeOK, Users
  <2> QED
    BY <1>1, <1>2, <2>1, NothingMinted, NothingOwedAnew DEF KeptBy
<1>3. Users \subseteq Addresses /\ Amounts \subseteq Nat
  BY RedBankAssumptions DEF Users
<1>4. ASSUME NEW a \in Assets, OwnerStep(a) \/ PriceChange(a)
      PROVE  KeptBy
  <2>1. CASE InitAsset(a) \/ PriceChange(a)
    BY <1>2, <2>1 DEF InitAsset, PriceChange
  <2>2. CASE UpdateAsset(a)
    <3>1. Listed(a) /\ debts' = debts
      BY <2>2 DEF UpdateAsset
    <3> QED
      BY <1>1, <1>2, <2>2, <3>1, UpdateAssetMarket, RewardsAreNotMinted, NothingOwedAnew
      DEF KeptBy
  <2>3. ASSUME NEW u \in Users, UpdateUncollateralizedLoanLimit(u, a)
        PROVE  KeptBy
    BY <1>2, <2>3 DEF UpdateUncollateralizedLoanLimit
  <2> QED
    BY <1>4, <2>1, <2>2, <2>3 DEF OwnerStep
<1>5. ASSUME NEW a \in Assets, UserStep(a)
      PROVE  KeptBy
  <2>1. ASSUME NEW u \in Users, NEW amount \in Amounts, ReceiveStep(u, a, amount)
        PROVE  KeptBy
    <3>1. amount \in Nat
      BY <1>3
    <3>2. CASE Deposit(u, a, amount)
      BY <3>1, <3>2, DepositAnswers
    <3>3. ASSUME NEW sender \in Users, Repay(sender, u, a, amount)
          PROVE  KeptBy
      BY <1>3, <3>1, <3>3, RepayAnswers
    <3>4. ASSUME NEW liquidator \in Users, NEW c \in Assets, NEW receiveMaToken \in BOOLEAN,
                 Liquidate(liquidator, u, c, a, amount, receiveMaToken)
          PROVE  KeptBy
      BY <1>3, <3>1, <3>4, LiquidateAnswers
    <3> QED
      BY <2>1, <3>2, <3>3, <3>4 DEF ReceiveStep
  <2>2. ASSUME NEW u \in Users, NEW amount \in Amounts, Borrow(u, a, amount)
        PROVE  KeptBy
    BY <1>3, <2>2, BorrowAnswers
  <2>3. ASSUME NEW u \in Users, NEW amount \in Amounts, NEW recipient \in Addresses,
               TransferMaToken(u, recipient, a, amount)
        PROVE  KeptBy
    BY <1>3, <2>3, TransferAnswers
  <2>4. ASSUME NEW u \in Addresses, NEW amount \in WithdrawAmounts(u, a),
               Withdraw(u, a, amount)
        PROVE  KeptBy
    BY <2>4, WithdrawAmountsType, WithdrawAnswers
  <2>5. ASSUME NEW u \in Users, UpdateAssetCollateralStatus(u, a)
        PROVE  KeptBy
    BY <1>2, <2>5 DEF UpdateAssetCollateralStatus
  <2> QED
    BY <1>5, <2>1, <2>2, <2>3, <2>4, <2>5 DEF UserStep
<1>6. CASE UpdateConfig \/ Tick \/ UNCHANGED vars
  BY <1>2, <1>6 DEF UpdateConfig, Tick, vars
<1> QED
  BY <1>4, <1>5, <1>6 DEF Next

\* Whatever the parameters, the indexes and the rewards an operation mints on the
\* way, a deposit, a loan and a full repayment do what the queries announced.
THEOREM AnswersStayKept == Spec => AnswersAreKept
<1>1. TypeInv /\ [Next]_vars =>
        [ \A a \in Assets, u \in Users :
            MintsAsAnswered(a, u) /\ LendsAsAnswered(a, u) /\ CancelsAsAnswered(a, u) ]_vars
  BY AnswersStep DEF KeptBy
<1> QED
  BY TypeCorrect, <1>1, PTL DEF Spec, AnswersAreKept

-----------------------------------------------------------------------------
(* Liquidations.  The type invariant is enough: what is repaid and seized is   *)
(* computed from the position before, and recorded with the roundings of a     *)
(* debt and of a deposit.                                                      *)

\* The rest of a debt, recorded anew and read again, is at most RoundedUp above it.
LEMMA RestRoundedUp ==
  ASSUME NEW m, MarketInv(m), now \in Nat, NEW amount \in Nat
  PROVE  /\ RoundedUp(m) \in Nat
         /\ UnderlyingDebt(ScaledDebt(amount, m), m) <= amount + RoundedUp(m)
<1> DEFINE index == BorrowIndex(m)
           fine == amount * ScalingFactor
           scaled == CeilDiv(fine * One, index)
           owed == Mul(scaled, index)
           k == (index - 1) \div One
<1>1. index \in Nat \ {0} /\ ScalingFactor \in Nat \ {0} /\ One \in Nat \ {0}
  BY IndexOrder, RedBankAssumptions, OneAssumption
<1>2. fine \in Nat
  BY <1>1, ProductType
<1>3. fine * One \in Nat
  BY <1>1, <1>2, ProductType
<1>4. scaled = ScaledDebt(amount, m) /\ RoundedUp(m) = CeilDiv(k, ScalingFactor)
  BY DEF ScaledAmount, ScaledDebt, DivCeil, RoundedUp
<1> HIDE DEF index
<1>5. scaled \in Nat /\ scaled * index <= fine * One + (index - 1)
  <2> HIDE DEF fine
  <2>1. fine * One + (index - 1) \in Nat
    BY <1>1, <1>3
  <2> QED
    BY <1>1, <2>1, DivFloor DEF CeilDiv
<1>6. k \in Nat
  BY <1>1, DivFloor
<1>7. owed \in Nat /\ owed <= fine + k
  <2> HIDE DEF fine, scaled
  <2>1. scaled * index \in Nat /\ index - 1 \in Nat
    BY <1>1, <1>5, ProductType
  <2>2. fine * One + (index - 1) \in Nat
    BY <1>3, <2>1
  <2>3. (scaled * index) \div One <= (fine * One + (index - 1)) \div One
    BY ONLY <1>1, <1>5, <2>1, <2>2, DivMono
  <2>4. (fine * One + (index - 1)) \div One = fine + k
    BY ONLY <1>1, <1>2, <2>1, DivAdds
  <2>5. owed \in Nat
    BY <1>1, <1>5, MulType
  <2> QED
    BY <2>3, <2>4, <2>5 DEF Mul
<1> HIDE DEF k, owed, scaled
<1>8. CeilDiv(owed, ScalingFactor) <= amount + CeilDiv(k, ScalingFactor)
  <2>1. ScalingFactor - 1 \in Nat
    BY <1>1
  <2>2. owed + (ScalingFactor - 1) \in Nat /\ k + (ScalingFactor - 1) \in Nat
    BY <1>6, <1>7, <2>1
  <2>3. fine + (k + (ScalingFactor - 1)) \in Nat
    BY <1>2, <2>2
  <2>4. owed + (ScalingFactor - 1) <= fine + (k + (ScalingFactor - 1))
    <3> HIDE DEF fine
    <3> QED
      BY <1>2, <1>6, <1>7, <2>1
  <2>5. (owed + (ScalingFactor - 1)) \div ScalingFactor
          <= (fine + (k + (ScalingFactor - 1))) \div ScalingFactor
    BY ONLY <1>1, <2>2, <2>3, <2>4, DivMono
  <2>6. (fine + (k + (ScalingFactor - 1))) \div ScalingFactor
          = amount + ((k + (ScalingFactor - 1)) \div ScalingFactor)
    BY ONLY <1>1, <2>2, DivAdds, amount \in Nat
  <2> QED
    BY <2>5, <2>6 DEF CeilDiv
<1>9. CeilDiv(k, ScalingFactor) \in Nat
  BY <1>1, <1>6, CeilDivCovers
<1> QED
  BY <1>4, <1>8, <1>9 DEF UnderlyingDebt, UnderlyingDebtAt, index, owed

\* What is repaid for all of the collateral is at most what could be repaid when
\* the collateral does not cover that.
LEMMA CappedRepayFits ==
  ASSUME NEW balance \in Nat, NEW repay \in Nat, NEW bonus \in Nat \ {0},
         NEW pc \in Nat \ {0}, NEW pd \in Nat \ {0},
         balance < Div(Mul(Mul(repay, pd), bonus), pc)
  PROVE  Div(Div(Mul(balance, pc), pd), bonus) <= repay
<1> DEFINE worth == Mul(repay, pd)
           due == Mul(worth, bonus)
           seize == Div(due, pc)
           value == Mul(balance, pc)
           units == Div(value, pd)
           capped == Div(units, bonus)
<1>0. One \in Nat \ {0}
  BY OneAssumption
<1>1. worth \in Nat /\ worth * One <= repay * pd
  BY <1>0, ProductType, DivFloor DEF Mul
<1> HIDE DEF worth
<1>2. due \in Nat /\ due * One <= worth * bonus
  BY <1>0, <1>1, ProductType, DivFloor DEF Mul
<1> HIDE DEF due
<1>3. seize \in Nat /\ seize * pc <= due * One
  BY <1>0, <1>2, ProductType, DivFloor DEF Div
<1>4. balance < seize
  BY DEF seize, due, worth
<1> HIDE DEF seize
<1>5. value \in Nat /\ value <= due
  <2>1. balance * pc <= seize * pc
    BY ONLY <1>3, <1>4, ProductMono, balance \in Nat, pc \in Nat \ {0}
  <2>2. balance * pc \in Nat /\ seize * pc \in Nat /\ due * One \in Nat
    BY <1>0, <1>2, <1>3, ProductType
  <2>3. balance * pc <= due * One
    BY ONLY <1>3, <2>1, <2>2
  <2>4. (balance * pc) \div One <= due
    BY ONLY <1>0, <1>2, <2>2, <2>3, DivUpper
  <2>5. value \in Nat
    BY MulType
  <2> QED
    BY <2>4, <2>5 DEF Mul
<1> HIDE DEF value
<1>6. units \in Nat /\ units * pd <= value * One
  BY <1>0, <1>5, ProductType, DivFloor DEF Div
<1> HIDE DEF units
<1>7. capped \in Nat /\ capped * bonus <= units * One
  BY <1>0, <1>6, ProductType, DivFloor DEF Div
<1> HIDE DEF capped
<1>8. units * pd <= worth * bonus
  <2>1. value * One <= due * One
    BY ONLY <1>0, <1>2, <1>5, ProductMono
  <2>2. value * One \in Nat /\ due * One \in Nat /\ worth * bonus \in Nat /\ units * pd \in Nat
    BY <1>0, <1>1, <1>2, <1>5, <1>6, ProductType
  <2> QED
    BY ONLY <1>2, <1>6, <2>1, <2>2
<1>9. (capped * bonus) * pd <= (repay * pd) * bonus
  <2>1. capped * bonus \in Nat /\ units * One \in Nat /\ units * pd \in Nat /\ worth * bonus \in Nat
        /\ worth * One \in Nat /\ repay * pd \in Nat
    BY <1>0, <1>1, <1>6, <1>7, ProductType
  <2>2. (capped * bonus) * pd <= (units * One) * pd
    BY ONLY <1>7, <2>1, ProductMono, pd \in Nat \ {0}
  <2>3. (units * One) * pd = (units * pd) * One
    BY ONLY <1>0, <1>6, pd \in Nat \ {0}
  <2>4. (units * pd) * One <= (worth * bonus) * One
    BY ONLY <1>0, <1>8, <2>1, ProductMono
  <2>5. (worth * bonus) * One = (worth * One) * bonus
    BY ONLY <1>0, <1>1, bonus \in Nat \ {0}
  <2>6. (worth * One) * bonus <= (repay * pd) * bonus
    BY ONLY <1>1, <2>1, ProductMono, bonus \in Nat \ {0}
  <2>7. /\ (capped * bonus) * pd \in Nat /\ (units * pd) * One \in Nat
        /\ (worth * One) * bonus \in Nat /\ (repay * pd) * bonus \in Nat
    BY ONLY <1>0, <2>1, ProductType, pd \in Nat \ {0}, bonus \in Nat \ {0}
  <2> QED
    BY ONLY <2>2, <2>3, <2>4, <2>5, <2>6, <2>7
<1>10. bonus * pd \in Nat \ {0}
  BY SMT
<1>11. (capped * bonus) * pd = capped * (bonus * pd) /\ (repay * pd) * bonus = repay * (bonus * pd)
  BY ONLY <1>7, repay \in Nat, pd \in Nat \ {0}, bonus \in Nat \ {0}
<1>12. capped <= repay
  BY ONLY <1>7, <1>9, <1>10, <1>11, CancelFactor, repay \in Nat
<1> QED
  BY <1>12 DEF capped, units, value

\* What a liquidation takes for what it repays is worth no more than that and the
\* bonus, because the amount is rounded down.
LEMMA SeizedIsCovered ==
  ASSUME NEW repay \in Nat, NEW bonus \in Nat, NEW pc \in Nat \ {0}, NEW pd \in Nat
  PROVE  Mul(Div(Mul(Mul(repay, pd), bonus), pc), pc) <= Mul(Mul(repay, pd), bonus)
<1> DEFINE due == Mul(Mul(repay, pd), bonus)
           seize == Div(due, pc)
<1>0. One \in Nat \ {0}
  BY OneAssumption
<1>1. due \in Nat
  BY MulType
<1> HIDE DEF due
<1>2. seize \in Nat /\ seize * pc <= due * One
  BY <1>0, <1>1, ProductType, DivFloor DEF Div
<1> HIDE DEF seize
<1>3. seize * pc \in Nat
  BY <1>2, ProductType
<1>4. (seize * pc) \div One <= due
  BY ONLY <1>0, <1>1, <1>2, <1>3, DivUpper
<1> QED
  BY <1>4 DEF Mul, seize, due

\* All of the collateral is worth less than what is repaid for it, one more unit,
\* and the bonus, but for what the two divisions drop.
LEMMA AllIsCovered ==
  ASSUME NEW value \in Nat, NEW bonus \in Nat \ {0}, NEW pd \in Nat \ {0}
  PROVE  value <= Mul(Mul(Div(Div(value, pd), bonus) + 1, pd), bonus)
                    + CeilDiv(pd, One) + CeilDiv(bonus, One)
<1> DEFINE units == Div(value, pd)
           repay == Div(units, bonus)
           worth == Mul(repay + 1, pd)
           due == Mul(worth, bonus)
           e == CeilDiv(pd, One)
           f == CeilDiv(bonus, One)
<1>0. One \in Nat \ {0}
  BY OneAssumption
<1>1. units \in Nat /\ value * One < units * pd + pd
  BY <1>0, ProductType, DivFloor DEF Div
<1> HIDE DEF units
<1>2. repay \in Nat /\ units * One < repay * bonus + bonus
  BY <1>0, <1>1, ProductType, DivFloor DEF Div
<1> HIDE DEF repay
<1>3. worth \in Nat /\ (repay + 1) * pd < worth * One + One
  <2>1. repay + 1 \in Nat
    BY <1>2
  <2>2. (repay + 1) * pd \in Nat
    BY ONLY <2>1, ProductType, pd \in Nat \ {0}
  <2> QED
    BY <1>0, <2>2, DivFloor DEF Mul
<1> HIDE DEF worth
<1>4. due \in Nat /\ worth * bonus < due * One + One
  BY <1>0, <1>3, ProductType, DivFloor DEF Mul
<1> HIDE DEF due
<1>5. e \in Nat /\ pd <= e * One /\ f \in Nat /\ bonus <= f * One
  BY <1>0, CeilDivCovers
<1> HIDE DEF e, f
<1>6. (value * One) * One < (units * One) * pd + One * pd
  <2>1. value * One \in Nat /\ units * pd \in Nat
    BY <1>0, <1>1, ProductType
  <2>2. value * One + 1 <= units * pd + pd
    BY ONLY <1>1, <2>1, pd \in Nat \ {0}
  <2>3. (value * One + 1) * One <= (units * pd + pd) * One
    BY ONLY <1>0, <2>1, <2>2, ProductMono, value * One + 1 \in Nat, units * pd + pd \in Nat,
       pd \in Nat \ {0}
  <2>4. (value * One + 1) * One = (value * One) * One + One
    BY ONLY <1>0, <2>1
  <2>5. (units * pd + pd) * One = (units * One) * pd + One * pd
    BY ONLY <1>0, <1>1, pd \in Nat \ {0}
  <2>6. (value * One) * One \in Nat /\ (units * One) * pd + One * pd \in Nat
    BY ONLY <1>0, <1>1, <2>1, ProductType, pd \in Nat \ {0}
  <2> QED
    BY ONLY <1>0, <2>3, <2>4, <2>5, <2>6
<1>7. (units * One) * pd <= ((repay + 1) * pd) * bonus
  <2>1. units * One <= (repay + 1) * bonus
    BY ONLY <1>0, <1>1, <1>2, bonus \in Nat \ {0}
  <2>2. units * One \in Nat /\ (repay + 1) * bonus \in Nat
    BY <1>0, <1>1, <1>2, ProductType
  <2>3. (units * One) * pd <= ((repay + 1) * bonus) * pd
    BY ONLY <2>1, <2>2, ProductMono, pd \in Nat \ {0}
  <2>4. ((repay + 1) * bonus) * pd = ((repay + 1) * pd) * bonus
    BY ONLY <1>2, bonus \in Nat \ {0}, pd \in Nat \ {0}
  <2> QED
    BY ONLY <2>3, <2>4
<1>8. ((repay + 1) * pd) * bonus <= (worth * bonus) * One + One * bonus
  <2>1. (repay + 1) * pd \in Nat /\ worth * One + One \in Nat
    BY <1>0, <1>2, <1>3, ProductType
  <2>2. ((repay + 1) * pd) * bonus <= (worth * One + One) * bonus
    <3>1. (repay + 1) * pd <= worth * One + One
      BY ONLY <1>3, <2>1
    <3> QED
      BY ONLY <2>1, <3>1, ProductMono, bonus \in Nat \ {0}
  <2>3. (worth * One + One) * bonus = (worth * bonus) * One + One * bonus
    BY ONLY <1>0, <1>3, bonus \in Nat \ {0}
  <2> QED
    BY ONLY <2>2, <2>3
<1>9. (worth * bonus) * One <= (due * One + One) * One
  <2>1. worth * bonus \in Nat /\ due * One + One \in Nat
    BY <1>0, <1>3, <1>4, ProductType
  <2>2. worth * bonus <= due * One + One
    BY ONLY <1>4, <2>1
  <2> QED
    BY ONLY <1>0, <2>1, <2>2, ProductMono
<1>10. (value * One) * One < (((due + 1) + e + f) * One) * One
  <2>1. One * pd <= (e * One) * One /\ One * bonus <= (f * One) * One
    <3>1. pd * One <= (e * One) * One /\ bonus * One <= (f * One) * One
      BY ONLY <1>0, <1>5, ProductType, ProductMono, pd \in Nat \ {0}, bonus \in Nat \ {0}
    <3>2. pd * One = One * pd /\ bonus * One = One * bonus
      BY ONLY <1>0, pd \in Nat \ {0}, bonus \in Nat \ {0}
    <3> QED
      BY ONLY <3>1, <3>2
  <2>2. (((due + 1) + e + f) * One) * One
          = (due * One + One) * One + (e * One) * One + (f * One) * One
    BY ONLY <1>0, <1>4, <1>5
  <2>3. /\ (value * One) * One \in Nat /\ (units * One) * pd \in Nat /\ One * pd \in Nat
        /\ ((repay + 1) * pd) * bonus \in Nat /\ (worth * bonus) * One \in Nat
        /\ One * bonus \in Nat /\ (due * One + One) * One \in Nat
        /\ (e * One) * One \in Nat /\ (f * One) * One \in Nat
    BY ONLY <1>0, <1>1, <1>2, <1>3, <1>4, <1>5, ProductType, value \in Nat,
       pd \in Nat \ {0}, bonus \in Nat \ {0}
  <2> QED
    BY ONLY <1>6, <1>7, <1>8, <1>9, <2>1, <2>2, <2>3
<1>11. value < (due + 1) + e + f
  <2>1. SUFFICES ASSUME (due + 1) + e + f <= value
                 PROVE  FALSE
    BY <1>4, <1>5
  <2>2. (((due + 1) + e + f) * One) * One <= (value * One) * One
    BY ONLY <1>0, <1>4, <1>5, <2>1, ProductMono, ProductType, value \in Nat,
       (due + 1) + e + f \in Nat
  <2>3. (value * One) * One \in Nat /\ (((due + 1) + e + f) * One) * One \in Nat
    BY ONLY <1>0, <1>4, <1>5, ProductType, value \in Nat
  <2> QED
    BY ONLY <1>10, <2>2, <2>3
<1>12. value <= due + e + f
  BY ONLY <1>4, <1>5, <1>11, value \in Nat
<1> QED
  BY <1>12 DEF due, worth, repay, units, e, f

\* What a liquidation repays is within the close factor's share of the debt, and
\* what it seizes is worth no more than that and the bonus, up to what is dropped
\* when all of the collateral is taken.
LEMMA LiquidationAmountsFair ==
  ASSUME TypeInv, NEW u \in Addresses, NEW c \in Assets, NEW d \in Assets,
         Listed(c), Listed(d), NEW sent \in Nat
  PROVE  LET amounts == LiquidationAmounts(u, c, d, sent)
             debt    == UnderlyingDebt(debts[d][u], markets[d])
             balance == UnderlyingLiquidity(maTokens[c][u], markets[c])
             bonus   == One + markets[c].liquidation_bonus
         IN  /\ amounts.repay * One <= debt * closeFactor
             /\ amounts.seize # balance =>
                  Mul(amounts.seize, price[c]) <= Mul(Mul(amounts.repay, price[d]), bonus)
             /\ Mul(amounts.seize, price[c]) <=
                  Mul(Mul(amounts.repay + 1, price[d]), bonus)
                    + CeilDiv(price[d], One) + CeilDiv(bonus, One)
<1> DEFINE debt == UnderlyingDebt(debts[d][u], markets[d])
           balance == UnderlyingLiquidity(maTokens[c][u], markets[c])
           bonus == One + markets[c].liquidation_bonus
           pc == price[c]
           pd == price[d]
           repay == SmallerOf(sent, Mul(debt, closeFactor))
           seize == Div(Mul(Mul(repay, pd), bonus), pc)
           capped == Div(Div(Mul(balance, pc), pd), bonus)
           slack == CeilDiv(pd, One) + CeilDiv(bonus, One)
<1>0. One \in Nat \ {0}
  BY OneAssumption
<1>1. /\ MarketInv(markets[c]) /\ MarketInv(markets[d]) /\ now \in Nat
      /\ debts[d][u] \in Nat /\ maTokens[c][u] \in Nat
      /\ pc \in Nat \ {0} /\ pd \in Nat \ {0} /\ closeFactor \in Nat
  BY OneAssumption DEF TypeInv, TypeOK
<1>2. bonus \in Nat \ {0}
  BY <1>1, OneAssumption DEF MarketInv, SoundMarket, Markets
<1>3. debt \in Nat /\ balance \in Nat
  BY <1>1, ScalingType
<1>4. LiquidationAmounts(u, c, d, sent) =
         IF seize <= balance THEN [repay |-> repay, seize |-> seize]
         ELSE [repay |-> capped, seize |-> balance]
  BY DEF LiquidationAmounts
<1> HIDE DEF debt, balance, bonus, pc, pd
<1>5. repay \in Nat /\ repay * One <= debt * closeFactor
  <2>1. debt * closeFactor \in Nat
    BY <1>1, <1>3, ProductType
  <2>2. Mul(debt, closeFactor) \in Nat /\ Mul(debt, closeFactor) * One <= debt * closeFactor
    BY <1>0, <2>1, DivFloor DEF Mul
  <2>3. repay \in Nat /\ repay <= Mul(debt, closeFactor)
    BY <2>2 DEF SmallerOf
  <2>4. repay * One <= Mul(debt, closeFactor) * One
    BY ONLY <1>0, <2>2, <2>3, ProductMono
  <2>5. repay * One \in Nat /\ Mul(debt, closeFactor) * One \in Nat
    BY ONLY <1>0, <2>2, <2>3, ProductType
  <2> QED
    BY ONLY <2>1, <2>2, <2>3, <2>4, <2>5
<1> HIDE DEF repay
<1>6. CeilDiv(pd, One) \in Nat /\ CeilDiv(bonus, One) \in Nat
  BY <1>0, <1>1, <1>2, CeilDivCovers
<1>7. CASE seize <= balance
  <2>1. LiquidationAmounts(u, c, d, sent) = [repay |-> repay, seize |-> seize]
    BY <1>4, <1>7
  <2>2. Mul(seize, pc) <= Mul(Mul(repay, pd), bonus)
    BY ONLY <1>1, <1>2, <1>5, SeizedIsCovered
  <2>3. Mul(repay, pd) \in Nat /\ Mul(repay + 1, pd) \in Nat /\ Mul(repay, pd) <= Mul(repay + 1, pd)
    <3>1. repay + 1 \in Nat /\ repay <= repay + 1
      BY ONLY <1>5
    <3>2. pd \in Nat /\ pd <= pd
      BY ONLY <1>1
    <3> QED
      BY ONLY <1>5, <3>1, <3>2, MulType, MulMono
  <2>4. Mul(Mul(repay, pd), bonus) <= Mul(Mul(repay + 1, pd), bonus)
    <3>1. bonus \in Nat /\ bonus <= bonus
      BY ONLY <1>2
    <3> QED
      BY ONLY <2>3, <3>1, MulMono
  <2>5. Mul(Mul(repay, pd), bonus) \in Nat /\ Mul(Mul(repay + 1, pd), bonus) \in Nat
    BY <1>2, <2>3, MulType
  <2>6. Mul(seize, pc) \in Nat
    <3>1. Mul(Mul(repay, pd), bonus) \in Nat
      BY <2>5
    <3>2. seize \in Nat
      BY <1>1, <3>1, DivType
    <3> QED
      BY <1>1, <3>2, MulType
  <2>7. Mul(seize, pc) <= Mul(Mul(repay + 1, pd), bonus) + CeilDiv(pd, One) + CeilDiv(bonus, One)
    BY ONLY <1>6, <2>2, <2>4, <2>5, <2>6
  <2> HIDE DEF seize
  <2> QED
    BY <1>5, <2>1, <2>2, <2>7 DEF debt, balance, bonus, pc, pd
<1>8. CASE ~(seize <= balance)
  <2>1. LiquidationAmounts(u, c, d, sent) = [repay |-> capped, seize |-> balance]
    BY <1>4, <1>8
  <2>2. Mul(balance, pc) \in Nat
    BY <1>1, <1>3, MulType
  <2>3. Mul(balance, pc) <= Mul(Mul(capped + 1, pd), bonus) + CeilDiv(pd, One) + CeilDiv(bonus, One)
    BY ONLY <1>1, <1>2, <2>2, AllIsCovered
  <2>4. seize \in Nat
    <3>1. Mul(Mul(repay, pd), bonus) \in Nat
      BY <1>1, <1>2, <1>5, MulType
    <3> QED
      BY <1>1, <3>1, DivType
  <2>5. balance < seize
    BY ONLY <1>3, <1>8, <2>4
  <2>6. capped <= repay
    BY ONLY <1>1, <1>2, <1>3, <1>5, <2>5, CappedRepayFits
  <2>7. capped \in Nat
    BY <1>1, <1>2, <2>2, DivType
  <2> HIDE DEF capped
  <2>8. capped * One <= debt * closeFactor
    <3>1. capped * One <= repay * One
      BY ONLY <1>0, <1>5, <2>6, <2>7, ProductMono
    <3>2. capped * One \in Nat /\ repay * One \in Nat /\ debt * closeFactor \in Nat
      BY <1>0, <1>1, <1>3, <1>5, <2>7, ProductType
    <3> QED
      BY ONLY <1>5, <3>1, <3>2
  <2> QED
    BY <2>1, <2>3, <2>8 DEF debt, balance, bonus, pc, pd
<1> QED
  BY <1>7, <1>8

\* What a step that takes maTokens c and debt d from u owes to u.
FairTo(u, c, d) ==
  LET seized == QueryUnderlyingLiquidityAmount(c, maTokens[c][u] - maTokens'[c][u])
      owed   == QueryUserAssetDebt(u, d).amount
      repaid == owed - QueryUnderlyingDebtAmount(d, debts'[d][u])
      bonus  == One + QueryMarket(c).liquidation_bonus
      most(units) == Mul(Mul(repaid + RoundedUp(QueryMarket(d)) + units, price[d]), bonus)
  IN  /\ ~QueryUserPosition(u).healthy
      /\ QueryUncollateralizedLoanLimit(u, d) = 0
      /\ repaid * One <= owed * QueryConfig.close_factor
      /\ Mul(seized, price[c]) <=
           IF c \in collateral'[u] THEN most(0)
           ELSE most(1) + CeilDiv(price[d], One) + CeilDiv(bonus, One)

\* A liquidation takes maTokens and debt from one user, in one asset each, and fairly.
LEMMA LiquidateIsFair ==
  ASSUME TypeInv, NEW u \in Users, NEW liquidator \in Addresses,
         NEW c \in Assets, NEW d \in Assets, NEW sent \in Nat,
         NEW receiveMaToken \in BOOLEAN,
         Liquidate(liquidator, u, c, d, sent, receiveMaToken)
  PROVE  /\ FairTo(u, c, d)
         /\ \A a \in Assets, v \in Users :
              /\ ~(a = c /\ v = u) => maTokens'[a][v] >= maTokens[a][v]
              /\ ~(a = d /\ v = u) => debts'[a][v] = debts[a][v]
<1> DEFINE m == markets[c]
           amounts == LiquidationAmounts(u, c, d, sent)
           seized == ScaledLiquidity(amounts.seize, m)
           balance == UnderlyingLiquidity(maTokens[c][u], m)
           bonus == One + m.liquidation_bonus
           owed == UnderlyingDebt(debts[d][u], markets[d])
           after == ScaledDebt(owed - amounts.repay, markets[d])
           debited == Debit(maTokens[c], u, seized)
           moved == IF receiveMaToken THEN Credit(debited, liquidator, seized) ELSE debited
           refreshed == {d} \cup (IF receiveMaToken THEN {} ELSE {c})
           ledgerOf(a) == IF a = c THEN moved ELSE maTokens[a]
<1>1. /\ MarketInv(m) /\ MarketInv(markets[d]) /\ now \in Nat
      /\ \A a \in Assets : maTokens[a] \in [Addresses -> Nat]
      /\ \A a \in refreshed : MarketInv(markets[a])
      /\ debts \in [Assets -> [Addresses -> Nat]]
      /\ u \in Addresses \ {Collector} /\ Listed(c) /\ Listed(d)
      /\ price[c] \in Nat \ {0} /\ price[d] \in Nat \ {0} /\ closeFactor \in Nat
  BY OneAssumption DEF Liquidate, TypeInv, TypeOK, Users
<1>2. amounts.repay \in Nat /\ amounts.seize \in Nat
  BY <1>1, LiquidationAmountsType
<1>3. seized \in Nat /\ owed \in Nat /\ balance \in Nat
  BY <1>1, <1>2, ScalingType
<1>4. /\ amounts.repay <= SmallerOf(sent, owed)
      /\ seized > 0 /\ seized <= maTokens[c][u]
      /\ receiveMaToken => liquidator # u
      /\ after <= debts[d][u]
      /\ limits[d][u] = 0 /\ ~Healthy(u) /\ c \in collateral[u]
      /\ debts' = [debts EXCEPT ![d][u] = after]
      /\ maTokens' = [a \in Assets |->
           IF a \in refreshed THEN WithRewards(ledgerOf(a), markets[a]) ELSE ledgerOf(a)]
      /\ collateral' = [v \in Addresses |->
           IF v = u /\ amounts.seize = balance THEN collateral[u] \ {c}
           ELSE IF v = liquidator /\ receiveMaToken THEN collateral[v] \cup {c}
           ELSE collateral[v]]
  BY Zenon DEF Liquidate, Liquidatable, TransferOnLiquidation, BurnOnLiquidation,
               DebtAfterLiquidation, CashAfterLiquidation, WhollySeized
<1>5. owed - amounts.repay \in Nat
  BY <1>2, <1>3, <1>4 DEF SmallerOf
<1>6. after \in Nat
  BY <1>1, <1>5, ScalingType
<1>7. UnderlyingLiquidity(seized, m) <= amounts.seize /\ UnderlyingLiquidity(seized, m) \in Nat
  BY <1>1, <1>2, <1>3, DepositRoundTrip, ScalingType
<1>8. /\ UnderlyingDebt(after, markets[d]) \in Nat
      /\ UnderlyingDebt(after, markets[d]) >= owed - amounts.repay
      /\ RoundedUp(markets[d]) \in Nat
      /\ UnderlyingDebt(after, markets[d]) <= (owed - amounts.repay) + RoundedUp(markets[d])
  BY <1>1, <1>5, <1>6, DebtRoundTrip, RestRoundedUp, ScalingType
<1>9. /\ amounts.repay * One <= owed * closeFactor
      /\ amounts.seize # balance =>
           Mul(amounts.seize, price[c]) <= Mul(Mul(amounts.repay, price[d]), bonus)
      /\ Mul(amounts.seize, price[c]) <=
           Mul(Mul(amounts.repay + 1, price[d]), bonus)
             + CeilDiv(price[d], One) + CeilDiv(bonus, One)
  BY <1>1, LiquidationAmountsFair
<1>10. bonus \in Nat
  BY <1>1, OneAssumption DEF MarketInv, SoundMarket, Markets
<1>11. c \in collateral'[u] => amounts.seize # balance
  BY <1>1, <1>4
<1> HIDE DEF seized, amounts, owed, after, balance, bonus
<1>12. /\ debited \in [Addresses -> Nat] /\ debited[u] = maTokens[c][u] - seized
       /\ \A v \in Addresses \ {u} : debited[v] = maTokens[c][v]
  <2>1. maTokens[c] \in [Addresses -> Nat] /\ u \in Addresses
    BY <1>1
  <2>2. seized \in Nat /\ seized <= maTokens[c][u]
    BY <1>3, <1>4
  <2> QED
    BY ONLY <2>1, <2>2 DEF Debit
<1> HIDE DEF debited, refreshed
<1>13. /\ moved \in [Addresses -> Nat] /\ moved[u] = maTokens[c][u] - seized
       /\ \A v \in Addresses \ {u} : moved[v] >= maTokens[c][v]
  <2>1. CASE receiveMaToken
    <3>1. liquidator # u /\ moved = Credit(debited, liquidator, seized)
      BY <1>4, <2>1
    <3>2. /\ Credit(debited, liquidator, seized) \in [Addresses -> Nat]
          /\ \A v \in Addresses : debited[v] <= Credit(debited, liquidator, seized)[v]
          /\ \A v \in Addresses \ {liquidator} : Credit(debited, liquidator, seized)[v] = debited[v]
      <4>1. liquidator \in Addresses /\ seized \in Nat /\ debited \in [Addresses -> Nat]
        BY <1>1, <1>3, <1>12
      <4> HIDE DEF moved, ledgerOf, m
      <4> QED
        BY ONLY <4>1, LedgerType
    <3> HIDE DEF moved
    <3> QED
      BY <1>1, <1>12, <3>1, <3>2
  <2>2. CASE ~receiveMaToken
    <3>1. moved = debited /\ \A v \in Addresses : debited[v] \in Nat /\ debited[v] >= debited[v]
      BY <1>12, <2>2
    <3> HIDE DEF moved
    <3> QED
      BY <1>12, <3>1
  <2> QED
    BY <2>1, <2>2
<1> HIDE DEF moved
<1>14. \A a \in Assets, v \in Users : maTokens'[a][v] = ledgerOf(a)[v]
  <2> SUFFICES ASSUME NEW a \in Assets
               PROVE  \A v \in Users : maTokens'[a][v] = ledgerOf(a)[v]
    OBVIOUS
  <2> DEFINE ledger == ledgerOf(a)
  <2>1. maTokens'[a] = IF a \in refreshed THEN WithRewards(ledger, markets[a]) ELSE ledger
    BY <1>4
  <2>2. ledger \in [Addresses -> Nat]
    BY <1>1, <1>13
  <2> HIDE DEF ledger
  <2>3. CASE a \in refreshed
    <3>1. \A v \in Addresses \ {Collector} : WithRewards(ledger, markets[a])[v] = ledger[v]
      BY <1>1, <2>2, <2>3, WithRewardsType
    <3> QED
      BY <2>1, <2>3, <3>1 DEF ledger, Users
  <2>4. CASE a \notin refreshed
    BY <2>1, <2>4 DEF ledger
  <2> QED
    BY <2>3, <2>4
<1>15. maTokens[c][u] - maTokens'[c][u] = seized
  BY <1>1, <1>3, <1>13, <1>14
<1>16. debts'[d][u] = after
  BY <1>1, <1>4
<1>17. FairTo(u, c, d)
  <2> DEFINE rest == UnderlyingDebt(after, markets[d])
             repaid == owed - rest
             up == RoundedUp(markets[d])
             most(units) == Mul(Mul(repaid + up + units, price[d]), bonus)
             taken == UnderlyingLiquidity(seized, m)
             slack == CeilDiv(price[d], One) + CeilDiv(bonus, One)
  <2>1. /\ QueryUnderlyingLiquidityAmount(c, maTokens[c][u] - maTokens'[c][u]) = taken
        /\ QueryUserAssetDebt(u, d).amount = owed
        /\ QueryUnderlyingDebtAmount(d, debts'[d][u]) = rest
        /\ QueryMarket(c) = m /\ QueryMarket(d) = markets[d]
        /\ One + QueryMarket(c).liquidation_bonus = bonus
        /\ QueryUserPosition(u).healthy = Healthy(u)
        /\ QueryUncollateralizedLoanLimit(u, d) = limits[d][u]
        /\ QueryConfig.close_factor = closeFactor
    BY <1>15, <1>16 DEF QueryUnderlyingLiquidityAmount, QueryUserAssetDebt,
       QueryUnderlyingDebtAmount, QueryMarket, QueryUserPosition,
       QueryUncollateralizedLoanLimit, QueryConfig, owed, bonus
  <2>2. rest \in Nat /\ up \in Nat /\ taken \in Nat /\ taken <= amounts.seize
        /\ rest >= owed - amounts.repay /\ rest <= (owed - amounts.repay) + up
    BY <1>7, <1>8
  <2> HIDE DEF rest, up, taken
  <2>3. repaid \in Int /\ repaid <= amounts.repay /\ amounts.repay <= repaid + up
    BY ONLY <1>2, <1>3, <2>2 DEF repaid
  <2>4. repaid + up \in Nat
    BY ONLY <1>2, <2>2, <2>3
  <2> HIDE DEF repaid
  <2>5. repaid * One <= owed * closeFactor
    <3>1. amounts.repay - repaid \in Nat
      BY ONLY <1>2, <2>3
    <3>2. (amounts.repay - repaid) * One \in Nat
      BY ONLY <3>1, OneAssumption, ProductType
    <3>3. amounts.repay * One = repaid * One + (amounts.repay - repaid) * One
      BY ONLY <1>2, <2>3, OneAssumption
    <3>4. repaid * One \in Int /\ owed * closeFactor \in Nat /\ amounts.repay * One \in Nat
      BY <1>1, <1>2, <1>3, <2>3, OneAssumption, ProductType
    <3> QED
      BY ONLY <1>9, <3>2, <3>3, <3>4
  <2>6. Mul(taken, price[c]) \in Nat /\ Mul(amounts.seize, price[c]) \in Nat
        /\ Mul(taken, price[c]) <= Mul(amounts.seize, price[c])
    <3>1. price[c] \in Nat /\ price[c] <= price[c]
      BY <1>1
    <3> QED
      BY ONLY <1>2, <2>2, <3>1, MulType, MulMono
  <2>7. ASSUME NEW units \in Nat
        PROVE  /\ most(units) \in Nat /\ Mul(Mul(amounts.repay + units, price[d]), bonus) \in Nat
               /\ Mul(Mul(amounts.repay + units, price[d]), bonus) <= most(units)
    <3> DEFINE r == amounts.repay + units
               s == repaid + up + units
    <3>1. r \in Nat /\ s \in Nat /\ r <= s
      BY ONLY <1>2, <2>2, <2>3, <2>4, units \in Nat
    <3>2. price[d] \in Nat /\ price[d] <= price[d] /\ bonus \in Nat /\ bonus <= bonus
      BY <1>1, <1>10
    <3> HIDE DEF r, s
    <3>3. Mul(r, price[d]) \in Nat /\ Mul(s, price[d]) \in Nat /\ Mul(r, price[d]) <= Mul(s, price[d])
      BY ONLY <3>1, <3>2, MulType, MulMono
    <3>4. /\ Mul(Mul(r, price[d]), bonus) \in Nat /\ Mul(Mul(s, price[d]), bonus) \in Nat
          /\ Mul(Mul(r, price[d]), bonus) <= Mul(Mul(s, price[d]), bonus)
      BY ONLY <3>2, <3>3, MulType, MulMono
    <3> QED
      BY <3>4 DEF r, s
  <2> HIDE DEF most
  <2>8. CeilDiv(price[d], One) \in Nat /\ CeilDiv(bonus, One) \in Nat
    BY <1>1, <1>10, OneAssumption, CeilDivCovers
  <2>9. Mul(taken, price[c]) <= IF c \in collateral'[u] THEN most(0)
                               ELSE most(1) + CeilDiv(price[d], One) + CeilDiv(bonus, One)
    <3>1. CASE c \in collateral'[u]
      <4>1. Mul(amounts.seize, price[c]) <= Mul(Mul(amounts.repay, price[d]), bonus)
        BY <1>9, <1>11, <3>1
      <4>2. amounts.repay + 0 = amounts.repay
        BY ONLY <1>2
      <4>3. most(0) \in Nat /\ Mul(Mul(amounts.repay, price[d]), bonus) \in Nat
            /\ Mul(Mul(amounts.repay, price[d]), bonus) <= most(0)
        BY <2>7, <4>2
      <4>4. Mul(taken, price[c]) <= most(0)
        BY ONLY <2>6, <4>1, <4>3
      <4> QED
        BY <3>1, <4>4
    <3>2. CASE c \notin collateral'[u]
      <4>1. most(1) \in Nat /\ Mul(Mul(amounts.repay + 1, price[d]), bonus) \in Nat
            /\ Mul(Mul(amounts.repay + 1, price[d]), bonus) <= most(1)
        BY <2>7
      <4>2. Mul(taken, price[c]) <= most(1) + CeilDiv(price[d], One) + CeilDiv(bonus, One)
        BY ONLY <1>9, <2>6, <2>8, <4>1
      <4> QED
        BY <3>2, <4>2
    <3> QED
      BY <3>1, <3>2
  <2> QED
    BY <1>4, <2>1, <2>5, <2>9 DEF FairTo, most, repaid, up
<1>18. ASSUME NEW a \in Assets, NEW v \in Users, ~(a = c /\ v = u)
       PROVE  maTokens'[a][v] >= maTokens[a][v]
  <2>1. maTokens'[a][v] = ledgerOf(a)[v] /\ maTokens[a][v] \in Nat /\ v \in Addresses
    BY <1>1, <1>14 DEF Users
  <2>2. CASE a = c
    BY <1>13, <1>18, <2>1, <2>2
  <2>3. CASE a # c
    BY <2>1, <2>3
  <2> QED
    BY <2>2, <2>3
<1>19. \A a \in Assets, v \in Users : ~(a = d /\ v = u) => debts'[a][v] = debts[a][v]
  BY <1>1, <1>4
<1> QED
  BY <1>17, <1>18, <1>19

FairToAll ==
  \A u \in Users, c, d \in Assets :
    (maTokens'[c][u] < maTokens[c][u] /\ debts'[d][u] < debts[d][u]) => FairTo(u, c, d)

\* Every other step leaves the debts, or the maTokens of the users, as they are.
LEMMA FairStep ==
  ASSUME TypeInv, [Next]_vars
  PROVE  FairToAll
<1>1. TypeInv'
  BY TypeInvStep
<1>2. /\ \A a \in Assets, u \in Users : debts[a][u] \in Nat /\ maTokens[a][u] \in Nat
      /\ \A a \in Assets, u \in Users : debts'[a][u] \in Nat /\ maTokens'[a][u] \in Nat
  BY <1>1 DEF TypeInv, TypeOK, Users
<1>3. ASSUME debts' = debts
      PROVE  FairToAll
  BY <1>2, <1>3 DEF FairToAll
<1>4. ASSUME NEW a \in Assets, Listed(a),
             maTokens' = [maTokens EXCEPT ![a] = WithRewards(@, markets[a])]
      PROVE  FairToAll
  <2>1. \A b \in Assets, u \in Users : maTokens'[b][u] = maTokens[b][u]
    BY <1>1, <1>4, RewardsAreNotMinted
  <2> QED
    BY <1>2, <2>1 DEF FairToAll
<1>5. Users \subseteq Addresses /\ Amounts \subseteq Nat
  BY RedBankAssumptions DEF Users
<1>6. ASSUME NEW a \in Assets, OwnerStep(a) \/ PriceChange(a)
      PROVE  FairToAll
  BY <1>3, <1>6 DEF OwnerStep, InitAsset, UpdateAsset, UpdateUncollateralizedLoanLimit,
                    PriceChange
<1>7. ASSUME NEW a \in Assets, UserStep(a)
      PROVE  FairToAll
  <2>1. ASSUME NEW u \in Users, NEW amount \in Amounts, ReceiveStep(u, a, amount)
        PROVE  FairToAll
    <3>1. CASE Deposit(u, a, amount)
      BY <1>3, <3>1 DEF Deposit
    <3>2. ASSUME NEW sender \in Users, Repay(sender, u, a, amount)
          PROVE  FairToAll
      BY <1>4, <3>2 DEF Repay
    <3>3. ASSUME NEW liquidator \in Users, NEW c \in Assets, NEW receiveMaToken \in BOOLEAN,
                 Liquidate(liquidator, u, c, a, amount, receiveMaToken)
          PROVE  FairToAll
      <4>1. /\ FairTo(u, c, a)
            /\ \A b \in Assets, v \in Users :
                 /\ ~(b = c /\ v = u) => maTokens'[b][v] >= maTokens[b][v]
                 /\ ~(b = a /\ v = u) => debts'[b][v] = debts[b][v]
        BY <1>5, <3>3, LiquidateIsFair
      <4> SUFFICES ASSUME NEW v \in Users, NEW b \in Assets, NEW e \in Assets,
                          maTokens'[b][v] < maTokens[b][v], debts'[e][v] < debts[e][v]
                   PROVE  FairTo(v, b, e)
        BY DEF FairToAll
      <4>2. b = c /\ v = u /\ e = a
        BY <1>2, <4>1
      <4> QED
        BY <4>1, <4>2
    <3> QED
      BY <2>1, <3>1, <3>2, <3>3 DEF ReceiveStep
  <2>2. ASSUME NEW u \in Users, NEW amount \in Amounts, Borrow(u, a, amount)
        PROVE  FairToAll
    BY <1>4, <2>2 DEF Borrow
  <2>3. ASSUME NEW u \in Users, NEW amount \in Amounts, NEW recipient \in Addresses,
               TransferMaToken(u, recipient, a, amount)
        PROVE  FairToAll
    BY <1>3, <2>3 DEF TransferMaToken
  <2>4. ASSUME NEW u \in Addresses, NEW amount \in WithdrawAmounts(u, a),
               Withdraw(u, a, amount)
        PROVE  FairToAll
    BY <1>3, <2>4 DEF Withdraw
  <2>5. ASSUME NEW u \in Users, UpdateAssetCollateralStatus(u, a)
        PROVE  FairToAll
    BY <1>3, <2>5 DEF UpdateAssetCollateralStatus
  <2> QED
    BY <1>7, <2>1, <2>2, <2>3, <2>4, <2>5 DEF UserStep
<1>8. CASE UpdateConfig \/ Tick \/ UNCHANGED vars
  BY <1>3, <1>8 DEF UpdateConfig, Tick, vars
<1> QED
  BY <1>6, <1>7, <1>8 DEF Next

\* For every price, bonus, close factor and index a liquidation takes from an
\* unhealthy position only, at most the close factor's share of the debt, and
\* collateral worth no more than what it repays and the bonus, up to roundings
\* that do not grow with the amounts.
THEOREM LiquidationsAreFair == Spec => LiquidationIsFair
<1>1. TypeInv /\ [Next]_vars =>
        [ \A u \in Users, c, d \in Assets :
            (maTokens'[c][u] < maTokens[c][u] /\ debts'[d][u] < debts[d][u]) =>
              FairTo(u, c, d) ]_vars
  BY FairStep DEF FairToAll
<1> QED
  BY TypeCorrect, <1>1, PTL DEF Spec, LiquidationIsFair, FairTo

-----------------------------------------------------------------------------
(* Positions.  The two sides of the health factor are totals over all        *)
(* assets, so what a step does to them follows from what it does to the      *)
(* assets it touches: nothing is taken from a position, or what is taken was *)
(* checked, up to what the roundings of one asset cost.                      *)

\* What rounding an amount to a scaled one costs in market m.
Lost(m) ==
  IF BorrowIndex(m) > One THEN CeilDiv(CeilDiv(BorrowIndex(m), One), ScalingFactor) ELSE 0

\* What is lost is an amount.
LEMMA LostType ==
  ASSUME NEW m, MarketInv(m), now \in Nat
  PROVE  Lost(m) \in Nat
<1>1. BorrowIndex(m) \in Nat
  BY IndexOrder
<1>2. CeilDiv(BorrowIndex(m), One) \in Nat
  BY <1>1, CeilDivCovers, OneAssumption
<1>3. CeilDiv(CeilDiv(BorrowIndex(m), One), ScalingFactor) \in Nat
  BY <1>2, CeilDivCovers, RedBankAssumptions
<1> QED
  BY <1>3 DEF Lost

\* A deposit that is scaled anew is worth what it was, but for the units lost.
LEMMA LiquidityLost ==
  ASSUME NEW m, MarketInv(m), now \in Nat, NEW y \in Nat
  PROVE  y <= UnderlyingLiquidity(ScaledLiquidity(y, m), m) + Lost(m)
<1> DEFINE l == LiquidityIndex(m)
           b == BorrowIndex(m)
           s == y * ScalingFactor
           sc == (s * One) \div l
           q == (sc * l) \div One
           v == q \div ScalingFactor
           c == CeilDiv(b, One)
           k == CeilDiv(c, ScalingFactor)
<1>1. l \in Nat \ {0} /\ b \in Nat \ {0} /\ One <= l /\ l <= b
  BY IndexOrder
<1>2. One \in Nat \ {0} /\ ScalingFactor \in Nat \ {0}
  BY OneAssumption, RedBankAssumptions
<1>3. ScaledLiquidity(y, m) = sc
  BY DEF ScaledLiquidity, ScaledAmount, Div
<1>4. UnderlyingLiquidity(sc, m) = v
  BY DEF UnderlyingLiquidity, Mul
<1> HIDE DEF l, b
<1>5. s \in Nat /\ s * One \in Nat
  BY <1>2, ProductType
<1>6. sc \in Nat /\ s * One < sc * l + l
  BY <1>1, <1>5, DivFloor
<1>7. sc * l \in Nat
  BY <1>1, <1>6, ProductType
<1>8. q \in Nat /\ sc * l < q * One + One
  BY <1>2, <1>7, DivFloor
<1>9. v \in Nat /\ q < v * ScalingFactor + ScalingFactor
  BY <1>2, <1>8, DivFloor
<1>10. CASE b > One
  <2>1. c \in Nat /\ b <= c * One
    BY <1>1, <1>2, CeilDivCovers
  <2>2. k \in Nat /\ c <= k * ScalingFactor
    BY <1>2, <2>1, CeilDivCovers
  <2> HIDE DEF s, sc, q, v, c, k
  <2>3. c * One \in Nat /\ q * One \in Nat
    BY <1>2, <1>8, <2>1, ProductType
  <2>4. s * One < q * One + One + c * One
    BY ONLY <1>1, <1>2, <1>5, <1>6, <1>7, <1>8, <2>1, <2>3, SMT
  <2>5. q * One + One + c * One = (q + c + 1) * One
    BY ONLY <1>2, <1>8, <2>1, SMT
  <2>6. s <= q + c
    <3>1. SUFFICES ASSUME q + c + 1 <= s
                   PROVE  FALSE
      BY <1>5, <1>8, <2>1
    <3>2. (q + c + 1) * One <= s * One
      BY ONLY <1>2, <1>5, <1>8, <2>1, <3>1, ProductMono
    <3>3. (q + c + 1) * One \in Nat
      BY ONLY <1>2, <1>8, <2>1, ProductType
    <3> QED
      BY ONLY <1>5, <2>4, <2>5, <3>2, <3>3, SMT
  <2>7. v * ScalingFactor \in Nat /\ k * ScalingFactor \in Nat
    BY <1>2, <1>9, <2>2, ProductType
  <2>8. v * ScalingFactor + ScalingFactor + k * ScalingFactor = (v + k + 1) * ScalingFactor
    BY ONLY <1>2, <1>9, <2>2, SMT
  <2>9. s < (v + k + 1) * ScalingFactor
    BY ONLY <1>2, <1>5, <1>8, <1>9, <2>1, <2>2, <2>6, <2>7, <2>8, SMT
  <2>10. y <= v + k
    <3>1. SUFFICES ASSUME v + k + 1 <= y
                   PROVE  FALSE
      BY <1>9, <2>2
    <3>2. (v + k + 1) * ScalingFactor <= y * ScalingFactor
      BY ONLY <1>2, <1>9, <2>2, <3>1, y \in Nat, ProductMono
    <3>3. (v + k + 1) * ScalingFactor \in Nat
      BY ONLY <1>2, <1>9, <2>2, ProductType
    <3> QED
      BY ONLY <1>5, <2>9, <3>2, <3>3, SMT DEF s
  <2>11. Lost(m) = k
    BY <1>10 DEF Lost, k, c, b
  <2> QED
    BY <1>3, <1>4, <2>10, <2>11
<1>11. CASE ~(b > One)
  <2>1. l = One
    BY <1>1, <1>2, <1>11
  <2>2. sc = s
    BY <1>2, <1>5, <2>1, DivExact
  <2>3. q = s
    BY <1>2, <1>5, <2>1, <2>2, DivExact
  <2>4. v = y
    BY <1>2, <2>3, DivExact
  <2>5. Lost(m) = 0
    BY <1>11 DEF Lost, b
  <2> QED
    BY <1>3, <1>4, <2>4, <2>5
<1> QED
  BY <1>10, <1>11

\* A debt grows by what is borrowed and by the units lost at most.
LEMMA DebtGained ==
  ASSUME NEW m, MarketInv(m), now \in Nat, NEW s \in Nat, NEW x \in Nat
  PROVE  UnderlyingDebt(s + ScaledDebt(x, m), m) <= UnderlyingDebt(s, m) + x + Lost(m)
<1> DEFINE b == BorrowIndex(m)
           y == x * ScalingFactor
           t == CeilDiv(y * One, b)
           a == (s * b) \div One
           q == ((s + t) * b) \div One
           u == CeilDiv(a, ScalingFactor)
           c == CeilDiv(b, One)
           k == CeilDiv(c, ScalingFactor)
<1>1. b \in Nat \ {0} /\ One <= b
  BY IndexOrder, OneAssumption
<1>2. One \in Nat \ {0} /\ ScalingFactor \in Nat \ {0}
  BY OneAssumption, RedBankAssumptions
<1>3. ScaledDebt(x, m) = t
  BY DEF ScaledDebt, ScaledAmount, DivCeil
<1>4. UnderlyingDebt(s, m) = u
  BY DEF UnderlyingDebt, UnderlyingDebtAt, Mul
<1>5. UnderlyingDebt(s + t, m) = CeilDiv(q, ScalingFactor)
  BY DEF UnderlyingDebt, UnderlyingDebtAt, Mul
<1> HIDE DEF b
<1>6. y \in Nat /\ y * One \in Nat
  BY <1>2, ProductType
<1>7. t \in Nat
  BY <1>1, <1>6, CeilDivCovers
<1>8. s * b \in Nat /\ t * b \in Nat
  BY <1>1, <1>7, ProductType
<1>9. a \in Nat /\ s * b < a * One + One
  BY <1>2, <1>8, DivFloor
<1>10. u \in Nat /\ a <= u * ScalingFactor
  BY <1>2, <1>9, CeilDivCovers
<1>11. (s + t) * b = s * b + t * b /\ (s + t) * b \in Nat
  BY ONLY <1>1, <1>7, <1>8, s \in Nat, SMT
<1>12. q \in Nat /\ q * One <= (s + t) * b
  BY <1>2, <1>11, DivFloor
<1>13. CASE b > One
  <2>1. c \in Nat /\ b <= c * One
    BY <1>1, <1>2, CeilDivCovers
  <2>2. k \in Nat /\ c <= k * ScalingFactor
    BY <1>2, <2>1, CeilDivCovers
  <2>3. t * b < y * One + b
    <3> DEFINE n == y * One
    <3>1. n + (b - 1) \in Nat
      BY <1>1, <1>6
    <3>2. t * b <= n + (b - 1)
      BY <1>1, <3>1, DivFloor DEF CeilDiv
    <3> HIDE DEF n, t
    <3>3. t * b < n + b
      BY ONLY <1>1, <1>6, <1>8, <3>2, SMT DEF n
    <3> QED
      BY <3>3 DEF n
  <2> HIDE DEF y, t, a, q, u, c, k
  <2>4. a * One \in Nat /\ c * One \in Nat /\ q * One \in Nat
    BY <1>2, <1>9, <1>12, <2>1, ProductType
  <2>5. a * One + One + y * One + c * One = (a + y + c + 1) * One
    BY ONLY <1>2, <1>6, <1>9, <2>1, SMT
  <2>6. q * One < (a + y + c + 1) * One
    BY ONLY <1>1, <1>2, <1>6, <1>8, <1>9, <1>11, <1>12, <2>1, <2>3, <2>4, <2>5, SMT
  <2>7. q <= a + y + c
    <3>1. SUFFICES ASSUME a + y + c + 1 <= q
                   PROVE  FALSE
      BY <1>6, <1>9, <1>12, <2>1
    <3>2. (a + y + c + 1) * One <= q * One
      BY ONLY <1>2, <1>6, <1>9, <1>12, <2>1, <3>1, ProductMono
    <3>3. (a + y + c + 1) * One \in Nat
      BY ONLY <1>2, <1>6, <1>9, <2>1, ProductType
    <3> QED
      BY ONLY <2>4, <2>6, <3>2, <3>3, SMT
  <2>8. u * ScalingFactor + y + k * ScalingFactor = (u + x + k) * ScalingFactor
    BY ONLY <1>2, <1>10, <2>2, x \in Nat, SMT DEF y
  <2>9. u * ScalingFactor \in Nat /\ k * ScalingFactor \in Nat
    BY <1>2, <1>10, <2>2, ProductType
  <2>10. q <= (u + x + k) * ScalingFactor
    BY ONLY <1>6, <1>9, <1>10, <1>12, <2>1, <2>2, <2>7, <2>8, <2>9, SMT
  <2>11. u + x + k \in Nat
    BY <1>10, <2>2
  <2>12. CeilDiv(q, ScalingFactor) <= u + x + k
    BY ONLY <1>2, <1>12, <2>10, <2>11, CeilDivLeast
  <2>13. Lost(m) = k
    BY <1>13 DEF Lost, k, c, b
  <2> QED
    BY <1>3, <1>4, <1>5, <2>12, <2>13
<1>14. CASE ~(b > One)
  <2>1. b = One
    BY <1>1, <1>2, <1>14
  <2>2. t = y
    <3>1. y * One + (One - 1) = y * One + (One - 1) /\ One - 1 \in Nat
      BY <1>2
    <3>2. (y * One + (One - 1)) \div One = y + ((One - 1) \div One)
      <4> HIDE DEF y
      <4> QED
        BY ONLY <1>2, <1>6, <3>1, DivAdds, ZenonT(30)
    <3>3. (One - 1) \div One = 0
      BY <1>2, SMT
    <3> QED
      BY <1>6, <2>1, <3>2, <3>3 DEF CeilDiv
  <2>3. a = s /\ q = s + t
    BY <1>2, <1>7, <2>1, DivExact
  <2> HIDE DEF y, t, a, q, u
  <2>4. u * ScalingFactor + y = (u + x) * ScalingFactor /\ u * ScalingFactor \in Nat
    BY ONLY <1>2, <1>10, x \in Nat, SMT DEF y
  <2>5. q <= (u + x) * ScalingFactor
    BY ONLY <1>6, <1>7, <1>9, <1>10, <2>2, <2>3, <2>4, s \in Nat, SMT
  <2>6. u + x \in Nat
    BY <1>10
  <2>7. CeilDiv(q, ScalingFactor) <= u + x
    BY ONLY <1>2, <1>12, <2>5, <2>6, CeilDivLeast
  <2>8. Lost(m) = 0
    BY <1>14 DEF Lost, b
  <2> QED
    BY <1>3, <1>4, <1>5, <1>10, <2>7, <2>8
<1> QED
  BY <1>13, <1>14

ValidTerms(m) == m.max_loan_to_value <= m.liquidation_threshold /\ m.liquidation_threshold <= One

\* What Market::validate demands of the terms of every market there is.
TermsAreValid == \A a \in Assets : Listed(a) => ValidTerms(markets[a])

\* The bits of the users are those of markets.
FlagsAreListed == \A u \in Addresses : collateral[u] \cup borrowed[u] \subseteq QueryMarketsList

\* Both have the terms that Market::validate looks at.
SameTerms(m, r) ==
  /\ r.max_loan_to_value = m.max_loan_to_value
  /\ r.liquidation_threshold = m.liquidation_threshold

\* New rates leave the terms of a market alone ...
LEMMA RatesKeepTerms ==
  ASSUME NEW m \in Markets, NEW utilization, NEW time
  PROVE  SameTerms(m, UpdateMarketInterestRatesWithModel(m, utilization, time))
<1>1. \A x, y, z : SameTerms(m, [m EXCEPT !.borrow_rate = x, !.interest_rate_model = y,
                                          !.liquidity_rate = z])
  BY DEF Markets, SameTerms
<1> QED
  BY <1>1 DEF UpdateMarketInterestRatesWithModel

\* ... and so does a refresh, whatever the debt becomes.
LEMMA RefreshKeepsTerms ==
  ASSUME NEW m, MarketInv(m), now \in Nat, NEW debtTotal, NEW available
  PROVE  SameTerms(m, Refresh(m, debtTotal, available))
<1> DEFINE a == Accrue(m)
           d == [a EXCEPT !.debt_total_scaled = debtTotal]
           u == UtilizationRate(d, available)
<1>1. a \in Markets /\ m \in Markets
  BY AccrueFacts DEF MarketInv, SoundMarket
<1>2. \A x, y, z : SameTerms(m, [m EXCEPT !.borrow_index = x, !.liquidity_index = y,
                                          !.indexes_last_updated = z])
  BY <1>1 DEF Markets, SameTerms
<1>3. SameTerms(m, a)
  BY <1>2 DEF Accrue
<1> HIDE DEF a
<1>4. \A w, x, y, z :
        SameTerms(a, [[a EXCEPT !.debt_total_scaled = w] EXCEPT
                        !.borrow_rate = x, !.interest_rate_model = y, !.liquidity_rate = z])
  BY <1>1 DEF Markets, SameTerms
<1>5. Refresh(m, debtTotal, available) = UpdateMarketInterestRatesWithModel(d, u, now)
  BY DEF Refresh, UpdateInterestRates, a, d
<1> HIDE DEF u
<1>6. \E x, y, z : UpdateMarketInterestRatesWithModel(d, u, now) =
                     [d EXCEPT !.borrow_rate = x, !.interest_rate_model = y, !.liquidity_rate = z]
  BY ONLY Zenon DEF UpdateMarketInterestRatesWithModel
<1>7. SameTerms(a, UpdateMarketInterestRatesWithModel(d, u, now))
  <2>1. PICK x, y, z : UpdateMarketInterestRatesWithModel(d, u, now) =
                     [d EXCEPT !.borrow_rate = x, !.interest_rate_model = y, !.liquidity_rate = z]
    BY <1>6
  <2>2. SameTerms(a, [d EXCEPT !.borrow_rate = x, !.interest_rate_model = y, !.liquidity_rate = z])
    BY <1>4
  <2> QED
    BY ONLY <2>1, <2>2, Zenon
<1> QED
  BY <1>3, <1>5, <1>7 DEF SameTerms

\* What the owner sets are valid terms.
LEMMA UpdateAssetTerms ==
  ASSUME TypeInv, NEW a \in Assets, UpdateAsset(a)
  PROVE  ValidTerms(markets'[a])
<1> DEFINE m == markets[a]
<1>1. MarketInv(m) /\ now \in Nat /\ markets \in [Assets -> Markets \cup {NoMarket}]
  BY DEF UpdateAsset, TypeInv, TypeOK
<1>2. PICK p \in AssetParams[a], replaceModel \in BOOLEAN : UpdateAssetTo(a, p, replaceModel)
  BY DEF UpdateAsset
<1> DEFINE accrued == IF Reprices(m, p, replaceModel) THEN Accrue(m) ELSE m
           updated == Amended(m, p, replaceModel)
<1>3. p \in Params
  BY RedBankAssumptions
<1>4. accrued \in Markets
  BY <1>1, AccrueFacts DEF MarketInv, SoundMarket
<1>5. ValidParams(p)
  BY <1>2 DEF UpdateAssetTo
<1>6. p.max_loan_to_value <= p.liquidation_threshold /\ p.liquidation_threshold <= One
  BY <1>3, <1>5, OneAssumption DEF ValidParams, AtMostOne, Params
<1>7. WithTime(p.interest_rate_model) \in Models
  BY <1>1, <1>2, <1>3, WithTimeIsValid DEF UpdateAssetTo, Params
<1>8. /\ updated \in Markets
      /\ updated.max_loan_to_value = p.max_loan_to_value
      /\ updated.liquidation_threshold = p.liquidation_threshold
  <2> DEFINE model == IF replaceModel THEN WithTime(p.interest_rate_model)
                      ELSE accrued.interest_rate_model
  <2>1. updated = [accrued EXCEPT
                     !.max_loan_to_value = p.max_loan_to_value,
                     !.liquidation_threshold = p.liquidation_threshold,
                     !.liquidation_bonus = p.liquidation_bonus,
                     !.reserve_factor = p.reserve_factor,
                     !.active = p.active,
                     !.deposit_enabled = p.deposit_enabled,
                     !.borrow_enabled = p.borrow_enabled,
                     !.interest_rate_model = model]
    BY Zenon DEF Amended
  <2>2. model \in Models
    BY <1>4, <1>7 DEF Markets
  <2> HIDE DEF accrued, model, updated
  <2> QED
    BY <1>3, <1>4, <2>1, <2>2 DEF Markets, Params
<1>9. ValidTerms(updated)
  BY <1>6, <1>8 DEF ValidTerms
<1>10. \/ markets' = [markets EXCEPT ![a] = updated]
       \/ markets' = [markets EXCEPT ![a] = UpdateInterestRates(updated, cash[a])]
  BY <1>2 DEF UpdateAssetTo
<1> HIDE DEF updated
<1>11. SameTerms(updated, UpdateInterestRates(updated, cash[a]))
  BY <1>8, RatesKeepTerms DEF UpdateInterestRates
<1> QED
  BY <1>1, <1>9, <1>10, <1>11 DEF SameTerms, ValidTerms

\* What every step does to a market that is listed before or after it.
TermsHold(a) ==
  /\ Listed(a) => Listed(a)'
  /\ Listed(a)' => \/ Listed(a) /\ SameTerms(markets[a], markets'[a])
                   \/ ValidTerms(markets'[a])

\* No step takes a market away, and those that set terms set valid ones.
LEMMA TermsStep ==
  ASSUME TypeInv, [Next]_vars
  PROVE  \A a \in Assets : TermsHold(a)
<1>1. now \in Nat /\ markets \in [Assets -> Markets \cup {NoMarket}]
  BY DEF TypeInv, TypeOK
<1>2. ASSUME markets' = markets
      PROVE  \A a \in Assets : TermsHold(a)
  BY <1>2 DEF TermsHold, SameTerms, Listed
<1>3. ASSUME NEW b \in Assets, NEW total \in Nat, NEW available, MarketRefreshed(b, total),
             markets' = [markets EXCEPT ![b] = Refresh(markets[b], total, available)]
      PROVE  \A a \in Assets : TermsHold(a)
  <2>1. Listed(b) /\ Listed(b)' /\ MarketInv(markets[b])
    BY <1>3 DEF MarketRefreshed, TypeInv
  <2>2. SameTerms(markets[b], markets'[b]) /\ \A a \in Assets \ {b} : markets'[a] = markets[a]
    BY <1>1, <1>3, <2>1, RefreshKeepsTerms
  <2> QED
    BY <2>1, <2>2 DEF TermsHold, SameTerms, Listed
<1>4. ASSUME NEW b \in Assets, StepOf(b)
      PROVE  \A a \in Assets : TermsHold(a)
  <2>1. CASE InitAsset(b)
    <3>1. PICK p \in AssetParams[b] :
            /\ ~Listed(b) /\ ValidParams(p) /\ ValidModel(p.interest_rate_model)
            /\ markets' = [markets EXCEPT ![b] = CreateMarket(p)]
      BY <2>1 DEF InitAsset
    <3>2. p \in Params
      BY RedBankAssumptions
    <3>3. ValidTerms(CreateMarket(p))
      BY <3>1, <3>2, OneAssumption DEF ValidTerms, ValidParams, AtMostOne, CreateMarket, Params
    <3> QED
      BY <1>1, <3>1, <3>3 DEF TermsHold, SameTerms, Listed
  <2>2. CASE UpdateAsset(b)
    <3>1. PICK r : markets' = [markets EXCEPT ![b] = r] /\ MarketInv(r)
      BY <2>2, UpdateAssetMarket
    <3>2. r # NoMarket /\ ValidTerms(markets'[b])
      BY <2>2, <3>1, UpdateAssetTerms, RedBankAssumptions DEF MarketInv, SoundMarket
    <3> QED
      BY <1>1, <3>1, <3>2 DEF TermsHold, SameTerms, Listed
  <2>3. CASE PriceChange(b)
    BY <1>2, <2>3 DEF PriceChange
  <2>4. ASSUME NEW u \in Addresses,
               UpdateUncollateralizedLoanLimit(u, b) \/ UpdateAssetCollateralStatus(u, b)
        PROVE  \A a \in Assets : TermsHold(a)
    BY <1>2, <2>4 DEF UpdateUncollateralizedLoanLimit, UpdateAssetCollateralStatus
  <2>5. ASSUME NEW u \in Addresses, NEW amount \in Nat,
               Deposit(u, b, amount) \/ Withdraw(u, b, amount)
        PROVE  \A a \in Assets : TermsHold(a)
    <3>1. MarketRefreshed(b, markets[b].debt_total_scaled)
      BY <2>5, DepositStep, WithdrawStep
    <3>2. markets[b].debt_total_scaled \in Nat
      BY <3>1 DEF MarketRefreshed, TypeInv, MarketInv, SoundMarket, Markets
    <3>3. \E available : markets' = [markets EXCEPT ![b] =
                            Refresh(markets[b], markets[b].debt_total_scaled, available)]
      BY <2>5 DEF Deposit, Withdraw
    <3> QED
      BY <1>3, <3>1, <3>2, <3>3
  <2>6. ASSUME NEW u \in Addresses, NEW amount \in Nat, Borrow(u, b, amount)
        PROVE  \A a \in Assets : TermsHold(a)
    <3> DEFINE total == markets[b].debt_total_scaled + ScaledDebt(amount, markets[b])
    <3>1. MarketRefreshed(b, total) /\ ScaledDebt(amount, markets[b]) \in Nat
      BY <2>6, BorrowStep
    <3>2. total \in Nat
      BY <3>1 DEF MarketRefreshed, TypeInv, MarketInv, SoundMarket, Markets
    <3>3. \E available : markets' = [markets EXCEPT ![b] = Refresh(markets[b], total, available)]
      BY <2>6 DEF Borrow
    <3> QED
      BY <1>3, <3>1, <3>2, <3>3
  <2>7. ASSUME NEW u \in Addresses, NEW amount \in Nat, NEW other \in Addresses,
               Repay(other, u, b, amount)
        PROVE  \A a \in Assets : TermsHold(a)
    <3> DEFINE m == markets[b]
               owed == UnderlyingDebt(debts[b][u], m)
               rest == ScaledDebt(owed - SmallerOf(amount, owed), m)
    <3>1. /\ Listed(b)
          /\ markets' = [markets EXCEPT ![b] =
               Refresh(m, m.debt_total_scaled - (debts[b][u] - rest), cash[b] + amount)]
      BY <2>7 DEF Repay
    <3>2. PICK after \in Nat :
            /\ debts[b][u] - after <= m.debt_total_scaled
            /\ after <= debts[b][u]
            /\ debts' = [debts EXCEPT ![b][u] = after]
            /\ MarketRefreshed(b, m.debt_total_scaled - (debts[b][u] - after))
      BY <2>7, RepayStep
    <3>3. rest = after
      BY <2>7, <3>2 DEF Repay, TypeInv, TypeOK
    <3>4. m.debt_total_scaled - (debts[b][u] - after) \in Nat
      BY <3>1, <3>2 DEF TypeInv, TypeOK, MarketInv, SoundMarket, Markets
    <3> HIDE DEF rest
    <3> QED
      BY <1>3, <3>1, <3>2, <3>3, <3>4
  <2>8. ASSUME NEW u \in Addresses, NEW amount \in Nat, NEW other \in Addresses,
               TransferMaToken(u, other, b, amount)
        PROVE  \A a \in Assets : TermsHold(a)
    BY <1>2, <2>8 DEF TransferMaToken
  <2>9. ASSUME NEW u \in Addresses, NEW liquidator \in Addresses, NEW c \in Assets,
               NEW amount \in Nat, NEW receiveMaToken \in BOOLEAN,
               Liquidate(liquidator, u, c, b, amount, receiveMaToken)
        PROVE  \A a \in Assets : TermsHold(a)
    <3>1. ASSUME NEW a \in Assets
          PROVE  \/ markets'[a] = markets[a]
                 \/ \E total, available : markets'[a] = Refresh(markets[a], total, available)
      BY <2>9 DEF Liquidate
    <3>2. PICK after \in Nat :
            \A a \in Assets :
              \/ markets'[a] = markets[a]
              \/ /\ Listed(a)
                 /\ Refreshed(markets[a], markets'[a],
                      IF a = b THEN markets[b].debt_total_scaled - (debts[b][u] - after)
                      ELSE markets[a].debt_total_scaled)
      BY <2>9, LiquidateStep
    <3> SUFFICES ASSUME NEW a \in Assets
                 PROVE  TermsHold(a)
      OBVIOUS
    <3>3. CASE markets'[a] = markets[a]
      BY <3>3 DEF TermsHold, SameTerms, Listed
    <3>4. CASE markets'[a] # markets[a]
      <4>1. Listed(a) /\ MarketInv(markets[a]) /\ MarketInv(markets'[a])
        BY <3>2, <3>4 DEF Refreshed, TypeInv
      <4>2. PICK total, available : markets'[a] = Refresh(markets[a], total, available)
        BY <3>1, <3>4
      <4>3. SameTerms(markets[a], markets'[a])
        BY <1>1, <4>1, <4>2, RefreshKeepsTerms
      <4>4. Listed(a)'
        BY <4>1, RedBankAssumptions DEF Listed, MarketInv, SoundMarket
      <4> QED
        BY <4>1, <4>3, <4>4 DEF TermsHold
    <3> QED
      BY <3>3, <3>4
  <2> QED
    BY <1>4, <2>1, <2>2, <2>3, <2>4, <2>5, <2>6, <2>7, <2>8, <2>9 DEF StepOf
<1>5. CASE UpdateConfig \/ Tick \/ UNCHANGED vars
  BY <1>2, <1>5 DEF UpdateConfig, Tick, vars
<1> QED
  BY <1>4, <1>5, NextSteps

\* The terms of every market stay valid.
LEMMA TermsStayValid ==
  ASSUME TypeInv, TermsAreValid, [Next]_vars
  PROVE  TermsAreValid'
  BY TermsStep DEF TermsHold, TermsAreValid, SameTerms, ValidTerms

\* A bit is set for a market there is, and every market stays.
LEMMA FlagsAreListedStep ==
  ASSUME TypeInv, FlagsAreListed, [Next]_vars
  PROVE  FlagsAreListed'
<1>1. \A a \in Assets : Listed(a) => Listed(a)'
  BY TermsStep DEF TermsHold
<1>2. /\ collateral \in [Addresses -> SUBSET Assets]
      /\ borrowed \in [Addresses -> SUBSET Assets]
  BY DEF TypeInv, TypeOK
<1>3. ASSUME NEW b \in Assets, Listed(b),
             \A v \in Addresses : /\ collateral'[v] \subseteq collateral[v] \cup {b}
                                  /\ borrowed'[v] \subseteq borrowed[v] \cup {b}
      PROVE  FlagsAreListed'
  BY <1>1, <1>2, <1>3 DEF FlagsAreListed, QueryMarketsList
<1>4. ASSUME collateral' = collateral, borrowed' = borrowed
      PROVE  FlagsAreListed'
  BY <1>1, <1>2, <1>4 DEF FlagsAreListed, QueryMarketsList
<1>5. ASSUME NEW b \in Assets, StepOf(b)
      PROVE  FlagsAreListed'
  <2>1. CASE InitAsset(b) \/ UpdateAsset(b) \/ PriceChange(b)
    BY <1>4, <2>1 DEF InitAsset, UpdateAsset, PriceChange, position
  <2>2. ASSUME NEW u \in Addresses, UpdateUncollateralizedLoanLimit(u, b)
        PROVE  FlagsAreListed'
    BY <1>4, <2>2 DEF UpdateUncollateralizedLoanLimit, position
  <2>3. ASSUME NEW u \in Addresses, UpdateAssetCollateralStatus(u, b)
        PROVE  FlagsAreListed'
    BY <1>2, <1>3, <2>3 DEF UpdateAssetCollateralStatus
  <2>4. ASSUME NEW u \in Addresses, NEW amount \in Nat,
               Deposit(u, b, amount) \/ Withdraw(u, b, amount) \/ Borrow(u, b, amount)
        PROVE  FlagsAreListed'
    <3>1. Listed(b)
      BY <2>4 DEF Deposit, Withdraw, Borrow
    <3>2. \/ collateral' = [collateral EXCEPT ![u] = @ \cup {b}]
          \/ collateral' = [collateral EXCEPT ![u] = @ \ {b}]
          \/ collateral' = collateral
      BY <2>4 DEF Deposit, Withdraw, Borrow
    <3>3. borrowed' = [borrowed EXCEPT ![u] = @ \cup {b}] \/ borrowed' = borrowed
      BY <2>4 DEF Deposit, Withdraw, Borrow
    <3> QED
      BY <1>2, <1>3, <3>1, <3>2, <3>3
  <2>5. ASSUME NEW u \in Addresses, NEW amount \in Nat, NEW other \in Addresses,
               Repay(other, u, b, amount)
        PROVE  FlagsAreListed'
    <3>1. Listed(b) /\ collateral' = collateral
      BY <2>5 DEF Repay
    <3>2. borrowed' = [borrowed EXCEPT ![u] = @ \ {b}] \/ borrowed' = borrowed
      BY <2>5, RepayStep
    <3> QED
      BY <1>2, <1>3, <3>1, <3>2
  <2>6. ASSUME NEW u \in Addresses, NEW amount \in Nat, NEW other \in Addresses,
               TransferMaToken(u, other, b, amount)
        PROVE  FlagsAreListed'
    BY <1>2, <1>3, <2>6 DEF TransferMaToken
  <2>7. ASSUME NEW u \in Addresses, NEW liquidator \in Addresses, NEW c \in Assets,
               NEW amount \in Nat, NEW receiveMaToken \in BOOLEAN,
               Liquidate(liquidator, u, c, b, amount, receiveMaToken)
        PROVE  FlagsAreListed'
    <3>1. Listed(c) /\ borrowed' = borrowed
      BY <2>7 DEF Liquidate
    <3>2. \A v \in Addresses : collateral'[v] \subseteq collateral[v] \cup {c}
      BY <2>7, <1>2 DEF Liquidate
    <3> QED
      BY <1>3, <3>1, <3>2
  <2> QED
    BY <1>5, <2>1, <2>2, <2>3, <2>4, <2>5, <2>6, <2>7 DEF StepOf
<1>6. CASE UpdateConfig \/ Tick \/ UNCHANGED vars
  BY <1>4, <1>6 DEF UpdateConfig, Tick, vars, position
<1> QED
  BY <1>5, <1>6, NextSteps

\* What the debts of u that need collateral are worth, market by market.  A debt
\* that is not flagged is none, so the bits need no mention.
Owes(u) ==
  [a \in Assets |-> IF Listed(a) /\ u \notin uncollateralized[a] THEN DebtValue(u, a) ELSE 0]

\* What the flagged maTokens of u count for at the liquidation thresholds.
Backs(u, flagged, ledgers) ==
  [a \in Assets |->
     IF a \in flagged
     THEN Mul(CollateralValue(u, a, ledgers), markets[a].liquidation_threshold) ELSE 0]
Backing(u) == Backs(u, collateral[u], maTokens)

\* Both sides of the health factor are totals over all assets.
SidesAreTotals ==
  (TypeInv /\ DebtIsFlagged /\ FlagsAreListed) =>
    \A u \in Addresses :
      /\ Owes(u) \in [Assets -> Nat]
      /\ CollateralizedDebt(u) = Total(Owes(u), Assets)
      /\ Backing(u) \in [Assets -> Nat]
      /\ WeightedThreshold(u, collateral[u], maTokens) = Total(Backing(u), Assets)

\* The worth of a debt and of a deposit of a listed asset.
LEMMA WorthType ==
  ASSUME TypeInv, NEW a \in Assets, Listed(a), NEW s \in Nat
  PROVE  /\ Mul(UnderlyingDebt(s, markets[a]), price[a]) \in Nat
         /\ Mul(UnderlyingLiquidity(s, markets[a]), price[a]) \in Nat
         /\ Mul(Mul(UnderlyingLiquidity(s, markets[a]), price[a]),
                markets[a].liquidation_threshold) \in Nat
<1>1. MarketInv(markets[a]) /\ now \in Nat /\ price[a] \in Nat
  BY DEF TypeInv, TypeOK
<1>2. UnderlyingDebt(s, markets[a]) \in Nat /\ UnderlyingLiquidity(s, markets[a]) \in Nat
  BY <1>1, ScalingType
<1>3. markets[a].liquidation_threshold \in Nat
  BY <1>1 DEF MarketInv, SoundMarket, Markets
<1> QED
  BY <1>1, <1>2, <1>3, MulType

\* What backs a position is a total, for any flags and ledgers it is checked with.
LEMMA BacksType ==
  ASSUME TypeInv, NEW u \in Addresses, NEW flagged \in SUBSET QueryMarketsList,
         NEW ledgers \in [Assets -> [Addresses -> Nat]]
  PROVE  /\ Backs(u, flagged, ledgers) \in [Assets -> Nat]
         /\ WeightedThreshold(u, flagged, ledgers) = Total(Backs(u, flagged, ledgers), Assets)
<1>1. ASSUME NEW a \in flagged
      PROVE  Mul(CollateralValue(u, a, ledgers), markets[a].liquidation_threshold) \in Nat
  <2>1. a \in Assets /\ Listed(a) /\ ledgers[a][u] \in Nat
    BY DEF QueryMarketsList
  <2> QED
    BY <2>1, WorthType DEF CollateralValue
<1>2. flagged \subseteq Assets
  BY DEF QueryMarketsList
<1> DEFINE w(a) == Mul(CollateralValue(u, a, ledgers), markets[a].liquidation_threshold)
           g == [a \in Assets |-> IF a \in flagged THEN w(a) ELSE 0]
           f == [a \in flagged |-> w(a)]
<1>3. g \in [Assets -> Nat]
  BY <1>1
<1>4. (\A a \in flagged : g[a] = f[a]) /\ \A a \in Assets \ flagged : g[a] = 0
  BY <1>2
<1>5. Total(f, flagged) = Total(g, Assets)
  <2> HIDE DEF f, g
  <2> QED
    BY ONLY <1>2, <1>4, TotalPadded
<1> QED
  BY <1>3, <1>5 DEF Backs, WeightedThreshold

\* A debt of nothing is worth nothing, and so is a deposit of nothing.
NothingIsWorthNothing ==
  TypeInv => \A a \in Assets : Listed(a) =>
    /\ Mul(UnderlyingDebt(0, markets[a]), price[a]) = 0
    /\ Mul(Mul(UnderlyingLiquidity(0, markets[a]), price[a]),
           markets[a].liquidation_threshold) = 0

\* A ledger without an entry takes no part in a position.
LEMMA NothingsWorth == NothingIsWorthNothing
<1> SUFFICES ASSUME TypeInv, NEW a \in Assets, Listed(a)
             PROVE  /\ Mul(UnderlyingDebt(0, markets[a]), price[a]) = 0
                    /\ Mul(Mul(UnderlyingLiquidity(0, markets[a]), price[a]),
                           markets[a].liquidation_threshold) = 0
  BY DEF NothingIsWorthNothing
<1>1. /\ BorrowIndex(markets[a]) \in Nat /\ LiquidityIndex(markets[a]) \in Nat
      /\ price[a] \in Nat /\ markets[a].liquidation_threshold \in Nat
  BY IndexOrder DEF TypeInv, TypeOK, MarketInv, SoundMarket, Markets
<1>2. \A d \in Nat : Mul(0, d) = 0
  <2>1. \A d \in Nat : 0 * d = 0
    BY SMT
  <2>2. 0 \div One = 0
    BY OneAssumption, SMT
  <2> QED
    BY <2>1, <2>2 DEF Mul
<1>3. 0 \div ScalingFactor = 0 /\ CeilDiv(0, ScalingFactor) = 0
  BY RedBankAssumptions, SMT DEF CeilDiv
<1> QED
  BY <1>1, <1>2, <1>3 DEF UnderlyingDebt, UnderlyingDebtAt, UnderlyingLiquidity

\* The same of the state after a step.
LEMMA NothingsWorthNext == NothingIsWorthNothing'
  BY NothingsWorth, PTL

\* The sides of the health factor are the totals they are said to be.
LEMMA SidesTotal == SidesAreTotals
<1> SUFFICES ASSUME TypeInv, DebtIsFlagged, FlagsAreListed, NEW u \in Addresses
             PROVE  /\ Owes(u) \in [Assets -> Nat]
                    /\ CollateralizedDebt(u) = Total(Owes(u), Assets)
                    /\ Backing(u) \in [Assets -> Nat]
                    /\ WeightedThreshold(u, collateral[u], maTokens) = Total(Backing(u), Assets)
  BY DEF SidesAreTotals
<1>1. collateral[u] \subseteq QueryMarketsList /\ borrowed[u] \subseteq QueryMarketsList
  BY DEF FlagsAreListed
<1>2. maTokens \in [Assets -> [Addresses -> Nat]] /\ debts \in [Assets -> [Addresses -> Nat]]
  BY DEF TypeInv, TypeOK
<1>3. /\ Backing(u) \in [Assets -> Nat]
      /\ WeightedThreshold(u, collateral[u], maTokens) = Total(Backing(u), Assets)
  BY <1>1, <1>2, BacksType DEF Backing
<1>4. \A a \in Assets : Listed(a) => DebtValue(u, a) \in Nat
  BY <1>2, WorthType DEF DebtValue
<1>5. Owes(u) \in [Assets -> Nat]
  BY <1>4 DEF Owes
<1> DEFINE owed == {a \in borrowed[u] : u \notin uncollateralized[a]}
           f == [a \in owed |-> DebtValue(u, a)]
<1>6. owed \subseteq Assets
  BY <1>1 DEF QueryMarketsList
<1>7. \A a \in owed : Owes(u)[a] = f[a]
  BY <1>1, <1>6 DEF Owes, QueryMarketsList
<1>8. ASSUME NEW a \in Assets \ owed
      PROVE  Owes(u)[a] = 0
  <2>1. CASE Listed(a) /\ u \notin uncollateralized[a]
    <3>1. debts[a][u] = 0
      BY <1>2, <2>1 DEF DebtIsFlagged
    <3> QED
      BY <2>1, <3>1, NothingsWorth DEF NothingIsWorthNothing, Owes, DebtValue
  <2>2. CASE ~(Listed(a) /\ u \notin uncollateralized[a])
    BY <2>2 DEF Owes
  <2> QED
    BY <2>1, <2>2
<1>9. Total(f, owed) = Total(Owes(u), Assets)
  <2> HIDE DEF f, owed
  <2> QED
    BY ONLY <1>6, <1>7, <1>8, TotalPadded
<1> QED
  BY <1>3, <1>5, <1>9 DEF CollateralizedDebt, DebtOf

\* The same of the state after a step.
LEMMA SidesTotalNext == SidesAreTotals'
  BY SidesTotal, PTL

\* Who is healthy has at least the threshold its debts ask for.
LEMMA HealthyMeansCovered ==
  ASSUME TypeInv, DebtIsFlagged, FlagsAreListed, NEW u \in Addresses,
         NEW flagged \in SUBSET QueryMarketsList,
         NEW ledgers \in [Assets -> [Addresses -> Nat]],
         HealthyWith(u, flagged, ledgers)
  PROVE  CollateralizedDebt(u) <= WeightedThreshold(u, flagged, ledgers)
<1> DEFINE D == CollateralizedDebt(u)
           T == WeightedThreshold(u, flagged, ledgers)
<1>1. D \in Nat
  BY SidesTotal, TotalType, RedBankAssumptions DEF SidesAreTotals
<1>2. T \in Nat
  <2>1. /\ Backs(u, flagged, ledgers) \in [Assets -> Nat]
        /\ T = Total(Backs(u, flagged, ledgers), Assets)
    BY BacksType
  <2> QED
    BY <2>1, TotalType, RedBankAssumptions
<1>3. D > 0 => FromRatio(T, D) >= One
  BY DEF HealthyWith
<1> HIDE DEF D, T
<1>4. CASE D > 0
  <2>1. T * One \in Nat /\ One * D \in Nat
    BY <1>1, <1>2, OneAssumption, ProductType
  <2>2. (T * One) \div D \in Nat /\ ((T * One) \div D) * D <= T * One
    BY <1>1, <1>4, <2>1, DivFloor
  <2>3. One * D <= ((T * One) \div D) * D
    BY <1>1, <1>3, <1>4, <2>2, OneAssumption, ProductMono DEF FromRatio
  <2>4. One * D = D * One
    BY ONLY <1>1, OneAssumption, SMT
  <2>5. D * One <= T * One
    <3> HIDE DEF FromRatio
    <3>1. \A q : q \in Nat /\ q * D <= T * One /\ One * D <= q * D => One * D <= T * One
      BY ONLY <1>1, <1>2, <2>1, OneAssumption, ProductType, SMT
    <3> QED
      BY ONLY <2>2, <2>3, <2>4, <3>1, Zenon
  <2> QED
    BY <1>1, <1>2, <2>5, OneAssumption, CancelFactor DEF D, T
<1>5. CASE ~(D > 0)
  BY <1>1, <1>2, <1>5 DEF D, T
<1> QED
  BY <1>4, <1>5

\* What holds of every position.
HealthInv ==
  /\ TypeInv /\ DebtIsFlagged /\ MarkerMatchesLimit /\ FlagsAreListed /\ TermsAreValid

\* No price, no second, no limit and no threshold moves.
SameTermsOfTrade ==
  /\ UNCHANGED <<price, now, limits>>
  /\ \A a \in Assets : Listed(a) =>
       markets'[a].liquidation_threshold = markets[a].liquidation_threshold

\* What is true before and after a step that leaves the terms of trade alone.
QuietTerms ==
  /\ HealthInv /\ HealthInv' /\ [Next]_vars /\ SameTermsOfTrade

\* The values of a listed market are the same after such a step.
LEMMA SameWorth ==
  ASSUME QuietTerms, NEW a \in Assets, Listed(a)
  PROVE  /\ Listed(a)' /\ price'[a] = price[a]
         /\ BorrowIndex(markets[a])' = BorrowIndex(markets[a])
         /\ LiquidityIndex(markets[a])' = LiquidityIndex(markets[a])
         /\ markets'[a].liquidation_threshold = markets[a].liquidation_threshold
<1>1. TypeInv /\ [Next]_vars /\ now' = now
  BY DEF QuietTerms, HealthInv, SameTermsOfTrade
<1>2. Listed(a)'
  BY <1>1, TermsStep DEF TermsHold
<1>3. ValuesHold(a)
  BY <1>1, ValuesStep
<1> QED
  BY <1>1, <1>2, <1>3 DEF ValuesHold, QuietTerms, SameTermsOfTrade

\* What u owes after a step, at the indexes before it.
LEMMA OwesNext ==
  ASSUME QuietTerms, NEW u \in Addresses, NEW a \in Assets
  PROVE  /\ u \in uncollateralized[a] => Owes(u)'[a] = 0
         /\ (Listed(a) /\ u \notin uncollateralized[a]) =>
              Owes(u)'[a] = Mul(UnderlyingDebt(debts'[a][u], markets[a]), price[a])
         /\ debts'[a][u] <= debts[a][u] => Owes(u)'[a] <= Owes(u)[a]
<1>1. HealthInv /\ HealthInv' /\ limits' = limits
  BY DEF QuietTerms, SameTermsOfTrade
<1>2. u \in uncollateralized'[a] <=> u \in uncollateralized[a]
  BY <1>1 DEF HealthInv, MarkerMatchesLimit
<1>3. /\ debts \in [Assets -> [Addresses -> Nat]] /\ debts' \in [Assets -> [Addresses -> Nat]]
      /\ TypeInv /\ TypeInv' /\ now \in Nat
  BY <1>1 DEF HealthInv, TypeInv, TypeOK
<1>4. debts[a][u] \in Nat /\ debts'[a][u] \in Nat
  BY <1>3
<1>5. CASE u \in uncollateralized[a]
  <2>1. Owes(u)'[a] = 0 /\ Owes(u)[a] = 0
    BY <1>2, <1>5 DEF Owes
  <2> QED
    BY <1>5, <2>1
<1>6. CASE Listed(a) /\ u \notin uncollateralized[a]
  <2>1. Listed(a)' /\ price'[a] = price[a] /\ BorrowIndex(markets[a])' = BorrowIndex(markets[a])
    BY <1>6, SameWorth
  <2>2. Owes(u)'[a] = DebtValue(u, a)'
    BY <1>2, <1>6, <2>1 DEF Owes
  <2>3. DebtValue(u, a)' = Mul(UnderlyingDebt(debts'[a][u], markets[a]), price[a])
    BY <2>1 DEF DebtValue, UnderlyingDebt
  <2>4. Owes(u)[a] = Mul(UnderlyingDebt(debts[a][u], markets[a]), price[a])
    BY <1>6 DEF Owes, DebtValue
  <2>5. ASSUME debts'[a][u] <= debts[a][u]
        PROVE  Mul(UnderlyingDebt(debts'[a][u], markets[a]), price[a])
                 <= Mul(UnderlyingDebt(debts[a][u], markets[a]), price[a])
    <3>1. BorrowIndex(markets[a]) \in Nat /\ price[a] \in Nat
      BY <1>3, <1>6, IndexOrder DEF TypeInv, TypeOK
    <3> DEFINE p == debts'[a][u]
               q == debts[a][u]
               i == BorrowIndex(markets[a])
    <3>2. p \in Nat /\ q \in Nat /\ p <= q
      BY <1>4, <2>5
    <3> HIDE DEF p, q, i
    <3>3. i \in Nat /\ i <= i
      BY <3>1 DEF i
    <3>4. Mul(p, i) \in Nat /\ Mul(q, i) \in Nat /\ Mul(p, i) <= Mul(q, i)
      BY ONLY <3>2, <3>3, MulType, MulMono
    <3>5. /\ CeilDiv(Mul(p, i), ScalingFactor) \in Nat
          /\ CeilDiv(Mul(q, i), ScalingFactor) \in Nat
          /\ CeilDiv(Mul(p, i), ScalingFactor) <= CeilDiv(Mul(q, i), ScalingFactor)
      <4> DEFINE x == Mul(p, i)
                 y == Mul(q, i)
      <4>1. x \in Nat /\ y \in Nat /\ x <= y /\ ScalingFactor \in Nat \ {0}
        BY <3>4, RedBankAssumptions
      <4> HIDE DEF x, y
      <4>2. CeilDiv(x, ScalingFactor) \in Nat /\ CeilDiv(y, ScalingFactor) \in Nat
            /\ y <= CeilDiv(y, ScalingFactor) * ScalingFactor
        BY <4>1, CeilDivCovers
      <4>3. CeilDiv(y, ScalingFactor) * ScalingFactor \in Nat
        BY <4>1, <4>2, ProductType
      <4>4. x <= CeilDiv(y, ScalingFactor) * ScalingFactor
        BY ONLY <4>1, <4>2, <4>3, SMT
      <4>5. CeilDiv(x, ScalingFactor) <= CeilDiv(y, ScalingFactor)
        BY ONLY <4>1, <4>2, <4>4, CeilDivLeast
      <4> QED
        BY <4>2, <4>5 DEF x, y
    <3>6. Mul(CeilDiv(Mul(p, i), ScalingFactor), price[a])
            <= Mul(CeilDiv(Mul(q, i), ScalingFactor), price[a])
      BY <3>1, <3>5, MulMono
    <3> QED
      BY <3>6 DEF p, q, i, UnderlyingDebt, UnderlyingDebtAt
  <2> QED
    BY <1>6, <2>2, <2>3, <2>4, <2>5
<1>7. CASE ~Listed(a) /\ u \notin uncollateralized[a]
  <2>1. a \notin borrowed[u]
    BY <1>1, <1>7 DEF HealthInv, FlagsAreListed, QueryMarketsList
  <2>2. debts[a][u] = 0
    BY <1>1, <1>4, <2>1 DEF HealthInv, DebtIsFlagged
  <2>3. ASSUME debts'[a][u] <= debts[a][u]
        PROVE  Owes(u)'[a] = 0
    <3>1. debts'[a][u] = 0
      BY <1>4, <2>2, <2>3
    <3>2. Listed(a)' => Mul(UnderlyingDebt(0, markets[a]), price[a])' = 0
      BY <1>3, NothingsWorthNext DEF NothingIsWorthNothing
    <3> QED
      BY <3>1, <3>2 DEF Owes, DebtValue, UnderlyingDebt
  <2>4. Owes(u)[a] = 0
    BY <1>7 DEF Owes
  <2> QED
    BY <1>7, <2>3, <2>4
<1> QED
  BY <1>5, <1>6, <1>7

\* The sides of the health factor, as totals, before and after the step.
LEMMA Sides ==
  ASSUME QuietTerms, NEW u \in Addresses
  PROVE  /\ Owes(u) \in [Assets -> Nat] /\ Owes(u)' \in [Assets -> Nat]
         /\ Backing(u) \in [Assets -> Nat] /\ Backing(u)' \in [Assets -> Nat]
         /\ CollateralizedDebt(u) = Total(Owes(u), Assets)
         /\ CollateralizedDebt(u)' = Total(Owes(u)', Assets)
         /\ WeightedThreshold(u, collateral[u], maTokens) = Total(Backing(u), Assets)
         /\ WeightedThreshold(u, collateral[u], maTokens)' = Total(Backing(u)', Assets)
         /\ Total(Owes(u), Assets) \in Nat /\ Total(Owes(u)', Assets) \in Nat
         /\ Total(Backing(u), Assets) \in Nat /\ Total(Backing(u)', Assets) \in Nat
<1>1. /\ Owes(u) \in [Assets -> Nat]
      /\ CollateralizedDebt(u) = Total(Owes(u), Assets)
      /\ Backing(u) \in [Assets -> Nat]
      /\ WeightedThreshold(u, collateral[u], maTokens) = Total(Backing(u), Assets)
  BY SidesTotal DEF SidesAreTotals, QuietTerms, HealthInv
<1>2. /\ Owes(u)' \in [Assets -> Nat]
      /\ CollateralizedDebt(u)' = Total(Owes(u)', Assets)
      /\ Backing(u)' \in [Assets -> Nat]
      /\ WeightedThreshold(u, collateral[u], maTokens)' = Total(Backing(u)', Assets)
  BY SidesTotalNext DEF SidesAreTotals, QuietTerms, HealthInv
<1>3. \A f \in [Assets -> Nat] : Total(f, Assets) \in Nat
  BY TotalType, RedBankAssumptions
<1> QED
  BY <1>1, <1>2, <1>3

\* The worth of a deposit, and its weight, grow with the deposit.
LEMMA WorthGrows ==
  ASSUME TypeInv, NEW a \in Assets, Listed(a), NEW s \in Nat, NEW t \in Nat, s <= t
  PROVE  Mul(Mul(UnderlyingLiquidity(s, markets[a]), price[a]),
             markets[a].liquidation_threshold)
           <= Mul(Mul(UnderlyingLiquidity(t, markets[a]), price[a]),
                  markets[a].liquidation_threshold)
<1> DEFINE i == LiquidityIndex(markets[a])
           p == price[a]
           h == markets[a].liquidation_threshold
           x == Mul(s, i)
           y == Mul(t, i)
<1>1. i \in Nat /\ p \in Nat /\ h \in Nat
  BY IndexOrder DEF TypeInv, TypeOK, MarketInv, SoundMarket, Markets
<1> HIDE DEF i, p, h
<1>2. i <= i /\ p <= p /\ h <= h
  BY <1>1
<1>3. x \in Nat /\ y \in Nat /\ x <= y
  BY ONLY <1>1, <1>2, s \in Nat, t \in Nat, s <= t, MulType, MulMono
<1> HIDE DEF x, y
<1>4. x \div ScalingFactor \in Nat /\ y \div ScalingFactor \in Nat
      /\ x \div ScalingFactor <= y \div ScalingFactor
  BY <1>3, RedBankAssumptions, DivFloor, DivMono
<1> DEFINE v == x \div ScalingFactor
           w == y \div ScalingFactor
<1>5. v \in Nat /\ w \in Nat /\ v <= w
  BY <1>4
<1>6. UnderlyingLiquidity(s, markets[a]) = v /\ UnderlyingLiquidity(t, markets[a]) = w
  BY DEF UnderlyingLiquidity, x, y, i
<1> HIDE DEF v, w
<1>7. Mul(v, p) \in Nat /\ Mul(w, p) \in Nat /\ Mul(v, p) <= Mul(w, p)
  BY ONLY <1>1, <1>2, <1>5, MulType, MulMono
<1>8. Mul(Mul(v, p), h) <= Mul(Mul(w, p), h)
  BY ONLY <1>1, <1>2, <1>7, MulType, MulMono
<1> QED
  BY <1>6, <1>8 DEF p, h

\* What backs u after a step, at the index and the threshold before it.
LEMMA BackingNext ==
  ASSUME QuietTerms, NEW u \in Addresses, NEW a \in Assets
  PROVE  /\ Listed(a) => Backing(u)'[a] = Backs(u, collateral'[u], maTokens')[a]
         /\ (a \in collateral[u] => /\ a \in collateral'[u]
                                   /\ maTokens[a][u] <= maTokens'[a][u])
              => Backing(u)[a] <= Backing(u)'[a]
<1>1. ASSUME Listed(a)
      PROVE  Backing(u)'[a] = Backs(u, collateral'[u], maTokens')[a]
  <2>1. /\ price'[a] = price[a]
        /\ LiquidityIndex(markets[a])' = LiquidityIndex(markets[a])
        /\ markets'[a].liquidation_threshold = markets[a].liquidation_threshold
    BY <1>1, SameWorth
  <2>2. CollateralValue(u, a, maTokens)' = CollateralValue(u, a, maTokens')
    BY <2>1 DEF CollateralValue, UnderlyingLiquidity
  <2> QED
    BY <2>1, <2>2 DEF Backing, Backs
<1>2. ASSUME a \in collateral[u], a \in collateral'[u], maTokens[a][u] <= maTokens'[a][u]
      PROVE  Backing(u)[a] <= Backing(u)'[a]
  <2>1. TypeInv /\ TypeInv' /\ Listed(a)
    BY <1>2 DEF QuietTerms, HealthInv, FlagsAreListed, QueryMarketsList
  <2>2. maTokens[a][u] \in Nat /\ maTokens'[a][u] \in Nat
    BY <2>1 DEF TypeInv, TypeOK
  <2> QED
    BY <1>1, <1>2, <2>1, <2>2, WorthGrows DEF Backing, Backs, CollateralValue
<1>3. ASSUME a \notin collateral[u]
      PROVE  Backing(u)[a] <= Backing(u)'[a]
  <2>1. Backing(u)[a] = 0
    BY <1>3 DEF Backing, Backs
  <2>2. Backing(u)'[a] \in Nat
    BY Sides
  <2> QED
    BY <2>1, <2>2
<1> QED
  BY <1>1, <1>2, <1>3

\* The step takes no collateral from u and adds no debt of u.
TakesNothing(u) ==
  /\ \A a \in collateral[u] : a \in collateral'[u] /\ maTokens[a][u] <= maTokens'[a][u]
  /\ \A a \in Assets : u \in uncollateralized[a] \/ debts'[a][u] <= debts[a][u]

\* What UsersKeepPositionsHealthy asks for a user.
StaysHealthy(u) ==
  Healthy(u) =>
    \/ CollateralizedDebt(u)' <= WeightedThreshold(u, collateral[u], maTokens)'
    \/ \E a \in Assets :
         /\ DrawsOn(u, a)
         /\ CollateralizedDebt(u)' <=
              WeightedThreshold(u, collateral[u], maTokens)' + RoundingSlack(a)

\* The debt of a user does not grow when no debt is added, ...
LEMMA DebtKept ==
  ASSUME QuietTerms, NEW u \in Addresses,
         \A a \in Assets : u \in uncollateralized[a] \/ debts'[a][u] <= debts[a][u]
  PROVE  Total(Owes(u)', Assets) <= Total(Owes(u), Assets)
<1>1. \A a \in Assets : Owes(u)[a] \in Nat /\ Owes(u)'[a] \in Nat
  BY Sides
<1>2. \A a \in Assets : Owes(u)'[a] <= Owes(u)[a]
  BY <1>1, OwesNext
<1> DEFINE f == Owes(u)'
           g == Owes(u)
<1>3. \A a \in Assets : f[a] \in Nat /\ g[a] \in Nat /\ f[a] <= g[a]
  BY <1>1, <1>2
<1> HIDE DEF f, g
<1>4. Total(f, Assets) <= Total(g, Assets)
  BY ONLY <1>3, RedBankAssumptions, TotalMonotone
<1> QED
  BY <1>4 DEF f, g

\* ... and its backing does not fall when no collateral is taken.
LEMMA BackingKept ==
  ASSUME QuietTerms, NEW u \in Addresses,
         \A a \in collateral[u] : a \in collateral'[u] /\ maTokens[a][u] <= maTokens'[a][u]
  PROVE  Total(Backing(u), Assets) <= Total(Backing(u)', Assets)
<1>1. \A a \in Assets : Backing(u)[a] \in Nat /\ Backing(u)'[a] \in Nat
  BY Sides
<1>2. \A a \in Assets : Backing(u)[a] <= Backing(u)'[a]
  BY BackingNext
<1> DEFINE f == Backing(u)
           g == Backing(u)'
<1>3. \A a \in Assets : f[a] \in Nat /\ g[a] \in Nat /\ f[a] <= g[a]
  BY <1>1, <1>2
<1> HIDE DEF f, g
<1>4. Total(f, Assets) <= Total(g, Assets)
  BY ONLY <1>3, RedBankAssumptions, TotalMonotone
<1> QED
  BY <1>4 DEF f, g

\* Who is healthy is covered.
LEMMA HealthyIsCovered ==
  ASSUME QuietTerms, NEW u \in Addresses, Healthy(u)
  PROVE  Total(Owes(u), Assets) <= Total(Backing(u), Assets)
<1>1. /\ TypeInv /\ DebtIsFlagged /\ FlagsAreListed
      /\ collateral[u] \in SUBSET QueryMarketsList
      /\ maTokens \in [Assets -> [Addresses -> Nat]]
  BY DEF QuietTerms, HealthInv, TypeInv, TypeOK, FlagsAreListed
<1>2. HealthyWith(u, collateral[u], maTokens)
  BY DEF Healthy
<1>3. CollateralizedDebt(u) <= WeightedThreshold(u, collateral[u], maTokens)
  BY <1>1, <1>2, HealthyMeansCovered
<1> QED
  BY <1>3, Sides

\* A position from which nothing is taken stays healthy.
LEMMA QuietStaysHealthy ==
  ASSUME QuietTerms, NEW u \in Addresses, TakesNothing(u)
  PROVE  StaysHealthy(u)
<1> SUFFICES ASSUME Healthy(u)
             PROVE  CollateralizedDebt(u)' <= WeightedThreshold(u, collateral[u], maTokens)'
  BY DEF StaysHealthy
<1>1. Total(Owes(u), Assets) <= Total(Backing(u), Assets)
  BY HealthyIsCovered
<1>2. Total(Owes(u)', Assets) <= Total(Owes(u), Assets)
  BY DebtKept DEF TakesNothing
<1>3. Total(Backing(u), Assets) <= Total(Backing(u)', Assets)
  BY BackingKept DEF TakesNothing
<1> DEFINE o == Total(Owes(u), Assets)
           p == Total(Owes(u)', Assets)
           b == Total(Backing(u), Assets)
           c == Total(Backing(u)', Assets)
<1>4. o \in Nat /\ p \in Nat /\ b \in Nat /\ c \in Nat
  BY Sides
<1> HIDE DEF o, p, b, c
<1>5. p <= c
  <2>1. o <= b /\ p <= o /\ b <= c
    BY <1>1, <1>2, <1>3 DEF o, p, b, c
  <2> QED
    BY ONLY <1>4, <2>1, SMT
<1> QED
  BY <1>5, Sides DEF p, c

-----------------------------------------------------------------------------
(* The operations that take something from a position. *)

\* What backs u after a step that flags only what was listed.
LEMMA BackingIs ==
  ASSUME QuietTerms, NEW u \in Addresses, collateral'[u] \subseteq QueryMarketsList
  PROVE  /\ Backs(u, collateral'[u], maTokens') \in [Assets -> Nat]
         /\ \A a \in Assets : Backing(u)'[a] = Backs(u, collateral'[u], maTokens')[a]
         /\ Total(Backing(u)', Assets) = Total(Backs(u, collateral'[u], maTokens'), Assets)
<1>1. TypeInv /\ maTokens' \in [Assets -> [Addresses -> Nat]]
  BY DEF QuietTerms, HealthInv, TypeInv, TypeOK
<1> DEFINE f == Backing(u)'
           g == Backs(u, collateral'[u], maTokens')
<1>2. g \in [Assets -> Nat]
  BY <1>1, BacksType
<1>3. \A a \in Assets : f[a] = g[a]
  <2> SUFFICES ASSUME NEW a \in Assets
               PROVE  f[a] = g[a]
    OBVIOUS
  <2>1. CASE Listed(a)
    BY <2>1, BackingNext
  <2>2. CASE ~Listed(a)
    <3>1. a \notin collateral'[u]
      BY <2>2 DEF QueryMarketsList
    <3> QED
      BY <3>1 DEF Backing, Backs
  <2> QED
    BY <2>1, <2>2
<1> HIDE DEF f, g
<1>4. Total(f, Assets) = Total(g, Assets)
  BY <1>3, TotalAgree
<1> QED
  BY <1>2, <1>3, <1>4 DEF f, g

\* A step that was checked against the flags and maTokens it leaves.
LEMMA CheckedStaysHealthy ==
  ASSUME QuietTerms, NEW u \in Addresses, debts' = debts,
         collateral'[u] \subseteq collateral[u],
         NEW flagged \in SUBSET QueryMarketsList, HealthyWith(u, flagged, maTokens'),
         \A a \in flagged \ collateral'[u] : maTokens'[a][u] = 0,
         collateral'[u] \subseteq flagged
  PROVE  StaysHealthy(u)
<1>1. /\ TypeInv /\ DebtIsFlagged /\ FlagsAreListed /\ maTokens' \in [Assets -> [Addresses -> Nat]]
      /\ debts \in [Assets -> [Addresses -> Nat]]
      /\ collateral'[u] \subseteq QueryMarketsList
  BY DEF QuietTerms, HealthInv, TypeInv, TypeOK, FlagsAreListed
<1>2. CollateralizedDebt(u) <= WeightedThreshold(u, flagged, maTokens')
  BY <1>1, HealthyMeansCovered
<1> DEFINE f == Backs(u, flagged, maTokens')
           g == Backs(u, collateral'[u], maTokens')
<1>3. f \in [Assets -> Nat] /\ WeightedThreshold(u, flagged, maTokens') = Total(f, Assets)
  BY <1>1, BacksType
<1>4. \A a \in Assets : f[a] = g[a]
  <2> SUFFICES ASSUME NEW a \in Assets
               PROVE  f[a] = g[a]
    OBVIOUS
  <2>1. CASE a \in collateral'[u] \/ a \notin flagged
    BY <2>1 DEF Backs
  <2>2. CASE a \in flagged \ collateral'[u]
    <3>1. Listed(a) /\ maTokens'[a][u] = 0
      BY <2>2 DEF QueryMarketsList
    <3>2. f[a] = 0
      BY <1>1, <2>2, <3>1, NothingsWorth DEF NothingIsWorthNothing, Backs, CollateralValue
    <3>3. g[a] = 0
      BY <2>2 DEF Backs
    <3> QED
      BY <3>2, <3>3
  <2> QED
    BY <2>1, <2>2
<1> HIDE DEF f, g
<1>5. Total(f, Assets) = Total(g, Assets)
  BY <1>4, TotalAgree
<1>6. Total(Backing(u)', Assets) = Total(g, Assets)
  BY <1>1, BackingIs DEF g
<1>7. Total(Owes(u)', Assets) <= Total(Owes(u), Assets)
  <2>1. \A a \in Assets : debts'[a][u] <= debts[a][u]
    BY <1>1
  <2> QED
    BY <2>1, DebtKept
<1> DEFINE o == Total(Owes(u), Assets)
           p == Total(Owes(u)', Assets)
           c == Total(Backing(u)', Assets)
<1>8. o \in Nat /\ p \in Nat /\ c \in Nat
  BY Sides
<1>9. o <= c /\ p <= o
  BY <1>2, <1>3, <1>5, <1>6, <1>7, Sides
<1> HIDE DEF o, p, c
<1>10. p <= c
  BY ONLY <1>8, <1>9, SMT
<1> QED
  BY <1>10, Sides DEF StaysHealthy, p, c

\* What Lost is to the arithmetic UnitsLost is to the property.
LEMMA SlackIs ==
  ASSUME NEW a \in Assets, Listed(a)
  PROVE  RoundingSlack(a) = CeilDiv(Lost(markets[a]) * price[a], One) + 2
  BY DEF RoundingSlack, UnitsLost, Lost

\* A withdrawal leaves the position of its sender healthy, up to the roundings.
LEMMA WithdrawStaysHealthy ==
  ASSUME QuietTerms, NEW u \in Users, NEW a \in Assets, NEW amount \in Nat,
         Withdraw(u, a, amount)
  PROVE  StaysHealthy(u)
<1> DEFINE m == markets[a]
           held == maTokens[a][u]
           balance == UnderlyingLiquidity(held, m)
           left == ScaledLiquidity(balance - amount, m)
           p == price[a]
           t == m.liquidation_threshold
<1>1. /\ u \in Addresses /\ u # Collector /\ TypeInv /\ Listed(a) /\ MarketInv(m)
      /\ now \in Nat /\ p \in Nat /\ t \in Nat /\ t <= One
      /\ held \in Nat /\ maTokens[a] \in [Addresses -> Nat]
      /\ FlagsAreListed /\ DebtIsFlagged
  BY DEF Withdraw, Users, QuietTerms, HealthInv, TypeInv, TypeOK, TermsAreValid, ValidTerms,
         MarketInv, SoundMarket, Markets
<1>2. balance \in Nat /\ amount <= balance /\ balance - amount \in Nat
  <2>1. balance \in Nat
    BY <1>1, ScalingType
  <2> QED
    BY <2>1 DEF Withdraw
<1>3. left \in Nat
  BY <1>1, <1>2, ScalingType
<1>4. held - left \in Nat /\ held - left <= held /\ held - left > 0
  BY <1>1, <1>3 DEF Withdraw
<1>5. /\ Debit(maTokens[a], u, held - left) \in [Addresses -> Nat]
      /\ Debit(maTokens[a], u, held - left)[u] = left
  <2>1. held - (held - left) = left
    BY ONLY <1>1, <1>3, SMT
  <2> QED
    BY <1>1, <1>4, <2>1, LedgerType
<1>6. /\ maTokens'[a][u] = left
      /\ \A b \in Assets \ {a} : maTokens'[b] = maTokens[b]
  <2>1. maTokens' = [maTokens EXCEPT ![a] = WithRewards(Debit(maTokens[a], u, held - left), m)]
    BY DEF Withdraw
  <2>2. WithRewards(Debit(maTokens[a], u, held - left), m)[u] = left
    BY <1>1, <1>5, WithRewardsType
  <2>3. maTokens \in [Assets -> [Addresses -> Nat]]
    BY <1>1 DEF TypeInv, TypeOK
  <2> QED
    BY <2>1, <2>2, <2>3
<1>7. /\ debts' = debts
      /\ collateral' = IF amount = balance THEN [collateral EXCEPT ![u] = @ \ {a}] ELSE collateral
      /\ a \in collateral[u] /\ borrowed[u] # {} => StaysHealthyAfterWithdraw(u, a, amount)
  BY DEF Withdraw
<1>8. /\ collateral \in [Addresses -> SUBSET Assets]
      /\ debts \in [Assets -> [Addresses -> Nat]]
      /\ \A b \in Assets : maTokens[b][u] \in Nat
  BY <1>1 DEF TypeInv, TypeOK
<1>9. Total(Owes(u)', Assets) <= Total(Owes(u), Assets)
  <2>1. \A b \in Assets : debts'[b][u] <= debts[b][u]
    BY <1>1, <1>7, <1>8
  <2> QED
    BY <1>1, <2>1, DebtKept
<1> HIDE DEF left, balance
<1>10. CASE a \notin collateral[u]
  <2>1. TakesNothing(u)
    BY <1>1, <1>6, <1>7, <1>8, <1>10 DEF TakesNothing
  <2> QED
    BY <1>1, <2>1, QuietStaysHealthy
<1>11. CASE borrowed[u] = {}
  <2>1. CollateralizedDebt(u) = 0
    BY <1>11, TotalZero DEF CollateralizedDebt, DebtOf
  <2>2. /\ Total(Owes(u), Assets) = 0
        /\ Total(Owes(u)', Assets) \in Nat /\ Total(Backing(u)', Assets) \in Nat
    BY <1>1, <2>1, Sides
  <2>3. Total(Owes(u)', Assets) <= Total(Backing(u)', Assets)
    BY <1>9, <2>2
  <2> QED
    BY <1>1, <2>3, Sides DEF StaysHealthy
<1>12. CASE a \in collateral[u] /\ borrowed[u] # {}
  <2> DEFINE R == Mul(Mul(amount, p), t)
             o == Total(Owes(u), Assets)
             q == Total(Owes(u)', Assets)
             b == Total(Backing(u), Assets)
             c == Total(Backing(u)', Assets)
             f == Backing(u)
             g == Backing(u)'
  <2>1. /\ o \in Nat /\ q \in Nat /\ b \in Nat /\ c \in Nat
        /\ f \in [Assets -> Nat] /\ g \in [Assets -> Nat]
    BY <1>1, Sides
  <2>2. R \in Nat
    BY <1>1, MulType
  <2>3. /\ CollateralizedDebt(u) > 0
        /\ WeightedThreshold(u, collateral[u], maTokens) >= R
        /\ FromRatio(WeightedThreshold(u, collateral[u], maTokens) - R,
                     CollateralizedDebt(u)) >= One
    BY <1>7, <1>12 DEF StaysHealthyAfterWithdraw
  <2>4. o > 0 /\ b >= R /\ FromRatio(b - R, o) >= One
    BY <1>1, <2>3, Sides
  <2>5. \A x \in Assets \ {a} : g[x] = f[x]
    <3> SUFFICES ASSUME NEW x \in Assets \ {a}
                 PROVE  g[x] = f[x]
      OBVIOUS
    <3>1. x \in collateral'[u] <=> x \in collateral[u]
      BY <1>1, <1>7, <1>8
    <3>2. collateral'[u] \subseteq QueryMarketsList
      BY <1>1, <1>7, <1>8 DEF FlagsAreListed
    <3>3. g[x] = Backs(u, collateral'[u], maTokens')[x]
      BY <1>1, <3>2, BackingIs
    <3> QED
      BY <1>6, <3>1, <3>3 DEF Backing, Backs, CollateralValue
  <2>6. f[a] = Mul(Mul(balance, p), t)
    BY <1>12 DEF Backing, Backs, CollateralValue, balance
  <2>7. g[a] = IF amount = balance THEN 0 ELSE Mul(Mul(UnderlyingLiquidity(left, m), p), t)
    <3>1. a \in collateral'[u] <=> amount # balance
      BY <1>1, <1>7, <1>8, <1>12
    <3>2. g[a] = Backs(u, collateral'[u], maTokens')[a]
      BY <1>1, BackingNext
    <3> QED
      BY <1>6, <3>1, <3>2 DEF Backs, CollateralValue
  <2> HIDE DEF R, o, q, b, c, f, g, held
  <2>8. c = (b - f[a]) + g[a] /\ f[a] <= b
    <3>1. \A x \in Assets : f[x] \in Nat /\ g[x] \in Nat
      BY <2>1
    <3>2. /\ Total(g, Assets) = (Total(f, Assets) - f[a]) + g[a]
          /\ Total(f, Assets) \in Nat /\ Total(g, Assets) \in Nat
          /\ f[a] <= Total(f, Assets)
      <4>1. IsFiniteSet(Assets) /\ a \in Assets
        BY RedBankAssumptions
      <4> QED
        BY ONLY <2>5, <3>1, <4>1, TotalChange
    <3> QED
      BY <3>2 DEF b, c, f, g
  <2>9. b - R \in Nat /\ o \in Nat \ {0}
    BY ONLY <2>1, <2>2, <2>4, SMT
  <2>10. o <= b - R
    BY ONLY <2>4, <2>9, RatioCovers
  <2>11. q <= o
    BY <1>9 DEF q, o
  <2>12. f[a] \in Nat /\ g[a] \in Nat
    BY <2>1
  <2>13. CASE amount = balance
    <3>1. f[a] = R
      BY <2>6, <2>13 DEF R
    <3>2. q <= c
      BY ONLY <2>1, <2>2, <2>8, <2>10, <2>11, <2>12, <3>1, SMT
    <3> QED
      BY <1>1, <3>2, Sides DEF StaysHealthy, q, c
  <2>14. CASE amount # balance
    <3> DEFINE k == Lost(m)
               y == UnderlyingLiquidity(left, m)
               s == CeilDiv(k * p, One)
    <3>1. k \in Nat /\ y \in Nat
      BY <1>1, <1>3, LostType, ScalingType
    <3>2. balance - amount <= y + k
      BY <1>1, <1>2, LiquidityLost DEF left
    <3> HIDE DEF k, y
    <3>3. balance <= amount + y + k
      BY ONLY <1>2, <3>1, <3>2, amount \in Nat, SMT
    <3>4. f[a] <= R + g[a] + s + 2
      <4>1. Mul(Mul(balance, p), t) <= Mul(Mul(amount, p), t) + Mul(Mul(y, p), t) + s + 2
        BY <1>1, <1>2, <3>1, <3>3, WeighedParts
      <4> QED
        BY <2>6, <2>7, <2>14, <4>1 DEF R, y
    <3>5. s \in Nat
      BY <1>1, <3>1, ProductType, CeilDivCovers, OneAssumption
    <3>6. RoundingSlack(a) = s + 2
      BY <1>1, SlackIs DEF k
    <3> HIDE DEF s
    <3>7. q <= c + RoundingSlack(a)
      BY ONLY <2>1, <2>2, <2>8, <2>10, <2>11, <2>12, <3>4, <3>5, <3>6, SMT
    <3>8. DrawsOn(u, a)
      BY <1>1, <1>3, <1>4, <1>6 DEF DrawsOn, held
    <3> QED
      BY <1>1, <3>7, <3>8, Sides DEF StaysHealthy, q, c
  <2> QED
    BY <2>13, <2>14
<1> QED
  BY <1>10, <1>11, <1>12

\* A loan leaves the position of its sender healthy, up to the roundings.
LEMMA BorrowStaysHealthy ==
  ASSUME QuietTerms, NEW u \in Users, NEW a \in Assets, NEW amount \in Nat,
         Borrow(u, a, amount)
  PROVE  StaysHealthy(u)
<1> DEFINE m == markets[a]
           owed == UnderlyingDebt(debts[a][u], m)
           scaled == ScaledDebt(amount, m)
           p == price[a]
<1>1. /\ u \in Addresses /\ u # Collector /\ TypeInv /\ TypeInv' /\ Listed(a) /\ MarketInv(m)
      /\ now \in Nat /\ p \in Nat /\ debts[a][u] \in Nat
      /\ FlagsAreListed /\ DebtIsFlagged /\ TermsAreValid /\ MarkerMatchesLimit
  BY DEF Borrow, Users, QuietTerms, HealthInv, TypeInv, TypeOK
<1>2. scaled \in Nat /\ owed \in Nat
  BY <1>1, ScalingType
<1>3. /\ debts'[a][u] = debts[a][u] + scaled
      /\ \A b \in Assets \ {a} : debts'[b][u] = debts[b][u]
  BY <1>1 DEF Borrow, TypeInv, TypeOK
<1>4. /\ \A b \in Assets : maTokens'[b][u] = maTokens[b][u]
      /\ collateral' = collateral
  <2>1. maTokens' = [maTokens EXCEPT ![a] = WithRewards(@, markets[a])]
    BY DEF Borrow
  <2> QED
    BY <1>1, <2>1, RewardsAreNotMinted DEF Borrow
<1>5. \A b \in Assets : maTokens[b][u] \in Nat /\ debts[b][u] \in Nat
  BY <1>1 DEF TypeInv, TypeOK
<1>6. \A b \in collateral[u] : b \in collateral'[u] /\ maTokens[b][u] <= maTokens'[b][u]
  BY <1>1, <1>4, <1>5 DEF FlagsAreListed, QueryMarketsList
<1>7. CASE u \in uncollateralized[a] \/ scaled = 0
  <2>1. TakesNothing(u)
    BY <1>1, <1>3, <1>5, <1>6, <1>7 DEF TakesNothing
  <2> QED
    BY <1>1, <2>1, QuietStaysHealthy
<1>8. CASE u \notin uncollateralized[a] /\ scaled # 0
  <2> DEFINE o == Total(Owes(u), Assets)
             q == Total(Owes(u)', Assets)
             b == Total(Backing(u), Assets)
             c == Total(Backing(u)', Assets)
             f == Owes(u)
             g == Owes(u)'
             d == TotalDebt(u)
             r == MaxDebt(u)
             k == Lost(m)
             s == CeilDiv(k * p, One)
             x == Mul(amount, p)
  <2>1. /\ o \in Nat /\ q \in Nat /\ b \in Nat /\ c \in Nat
        /\ f \in [Assets -> Nat] /\ g \in [Assets -> Nat]
        /\ CollateralizedDebt(u) = o
        /\ WeightedThreshold(u, collateral[u], maTokens) = b
    BY <1>1, Sides
  <2>2. limits[a][u] = 0
    BY <1>1, <1>8 DEF MarkerMatchesLimit, TypeInv, TypeOK
  <2>3. d + x <= r
    BY <2>2 DEF Borrow
  <2>4. o <= d /\ d \in Nat
    <3> DEFINE all == [y \in borrowed[u] |-> DebtValue(u, y)]
               part == {y \in borrowed[u] : u \notin uncollateralized[y]}
               some == [y \in part |-> DebtValue(u, y)]
    <3>1. borrowed[u] \subseteq Assets /\ borrowed[u] \subseteq QueryMarketsList
      BY <1>1 DEF FlagsAreListed, QueryMarketsList
    <3>2. IsFiniteSet(borrowed[u])
      BY <3>1, RedBankAssumptions, FS_Subset
    <3>3. \A y \in borrowed[u] : DebtValue(u, y) \in Nat
      BY <1>1, <1>5, <3>1, WorthType DEF DebtValue, QueryMarketsList
    <3>4. (\A y \in borrowed[u] : all[y] \in Nat) /\ (\A y \in part : some[y] = all[y])
          /\ part \in SUBSET borrowed[u]
      BY <3>3
    <3>5. d = Total(all, borrowed[u]) /\ CollateralizedDebt(u) = Total(some, part)
      BY DEF TotalDebt, CollateralizedDebt, DebtOf
    <3> HIDE DEF all, some, part, d, o
    <3>6. Total(some, part) <= Total(all, borrowed[u]) /\ Total(all, borrowed[u]) \in Nat
      BY ONLY <3>2, <3>4, TotalOfPart, TotalType
    <3> QED
      BY <2>1, <3>5, <3>6
  <2>5. r <= b /\ r \in Nat
    <3> DEFINE max == [y \in collateral[u] |->
                  Mul(CollateralValue(u, y, maTokens), markets[y].max_loan_to_value)]
               thr == [y \in collateral[u] |->
                  Mul(CollateralValue(u, y, maTokens), markets[y].liquidation_threshold)]
    <3>1. collateral[u] \subseteq Assets /\ collateral[u] \subseteq QueryMarketsList
      BY <1>1 DEF FlagsAreListed, QueryMarketsList
    <3>2. IsFiniteSet(collateral[u])
      BY <3>1, RedBankAssumptions, FS_Subset
    <3>3. \A y \in collateral[u] : max[y] \in Nat /\ thr[y] \in Nat /\ max[y] <= thr[y]
      <4> SUFFICES ASSUME NEW y \in collateral[u]
                   PROVE  max[y] \in Nat /\ thr[y] \in Nat /\ max[y] <= thr[y]
        OBVIOUS
      <4> DEFINE v == CollateralValue(u, y, maTokens)
                 l == markets[y].max_loan_to_value
                 h == markets[y].liquidation_threshold
      <4>1. y \in Assets /\ Listed(y)
        BY <3>1 DEF QueryMarketsList
      <4>2. v \in Nat
        BY <1>1, <1>5, <4>1, WorthType DEF CollateralValue
      <4>3. l \in Nat /\ h \in Nat /\ l <= h
        BY <1>1, <4>1 DEF TypeInv, MarketInv, SoundMarket, Markets, TermsAreValid, ValidTerms
      <4>4. max[y] = Mul(v, l) /\ thr[y] = Mul(v, h)
        OBVIOUS
      <4> HIDE DEF v, l, h, max, thr
      <4>5. v <= v
        BY <4>2
      <4>6. Mul(v, l) \in Nat /\ Mul(v, h) \in Nat
        BY ONLY <4>2, <4>3, MulType
      <4>7. Mul(v, l) <= Mul(v, h)
        BY ONLY <4>2, <4>3, <4>5, MulMono
      <4> QED
        BY ONLY <4>4, <4>6, <4>7, Zenon
    <3>4. r = Total(max, collateral[u]) /\ b = Total(thr, collateral[u])
      BY <2>1 DEF MaxDebt, WeightedThreshold
    <3> HIDE DEF max, thr, r, b
    <3>5. Total(max, collateral[u]) <= Total(thr, collateral[u])
      BY ONLY <3>2, <3>3, TotalMonotone
    <3>6. Total(max, collateral[u]) \in Nat
      BY ONLY <3>2, <3>3, TotalType
    <3> QED
      BY <3>4, <3>5, <3>6
  <2>6. b <= c
    BY <1>1, <1>6, BackingKept
  <2>7. \A y \in Assets \ {a} : g[y] <= f[y]
    BY <1>1, <1>3, <1>5, OwesNext
  <2>8. f[a] = Mul(owed, p)
    BY <1>1, <1>8 DEF Owes, DebtValue
  <2>9. g[a] = Mul(UnderlyingDebt(debts[a][u] + scaled, m), p)
    BY <1>1, <1>3, <1>8, OwesNext
  <2>10. k \in Nat
    BY <1>1, LostType
  <2>11. x \in Nat /\ s \in Nat
    BY <1>1, <2>10, MulType, ProductType, CeilDivCovers, OneAssumption
  <2> DEFINE n == UnderlyingDebt(debts[a][u] + scaled, m)
  <2>12. n <= owed + amount + k
    BY <1>1, DebtGained
  <2>13. n \in Nat
    BY <1>1, <1>2, ScalingType
  <2> HIDE DEF o, q, b, c, f, g, d, r, k, n, owed, scaled
  <2>14. Mul(n, p) <= Mul(owed, p) + x + 1 + s
    <3>1. Mul(owed + amount + k, p) <= Mul(owed, p) + x + 1 + s
      BY <1>1, <1>2, <2>10, MulAdds
    <3>2. owed + amount + k \in Nat /\ p <= p
      BY <1>1, <1>2, <2>10
    <3>3. /\ Mul(n, p) \in Nat /\ Mul(owed + amount + k, p) \in Nat
          /\ Mul(n, p) <= Mul(owed + amount + k, p)
      BY ONLY <1>1, <2>12, <2>13, <3>2, MulType, MulMono
    <3>4. Mul(owed, p) \in Nat
      BY <1>1, <1>2, MulType
    <3> DEFINE e == Mul(n, p)
               h == Mul(owed + amount + k, p)
               i == Mul(owed, p)
    <3> HIDE DEF e, h, i, x, s
    <3>5. e \in Nat /\ h \in Nat /\ i \in Nat /\ e <= h /\ h <= i + x + 1 + s
      BY <3>1, <3>3, <3>4 DEF e, h, i
    <3>6. e <= i + x + 1 + s
      BY ONLY <3>5, <2>11, SMT
    <3> QED
      BY <3>6 DEF e, i
  <2>15. g[a] <= f[a] + x + 1 + s
    BY <2>8, <2>9, <2>14 DEF n
  <2> HIDE DEF x, s
  <2>16. q <= o + x + 1 + s
    <3> DEFINE h == [f EXCEPT ![a] = g[a]]
    <3>1. \A y \in Assets : f[y] \in Nat /\ g[y] \in Nat
      BY <2>1
    <3>2. \A y \in Assets : h[y] \in Nat /\ g[y] <= h[y]
      BY <2>1, <2>7, <3>1
    <3>3. (\A y \in Assets \ {a} : h[y] = f[y]) /\ h[a] = g[a]
      BY <2>1
    <3> HIDE DEF h
    <3>4. Total(g, Assets) <= Total(h, Assets)
      BY ONLY <3>1, <3>2, RedBankAssumptions, TotalMonotone
    <3>5. /\ Total(h, Assets) = (Total(f, Assets) - f[a]) + h[a]
          /\ Total(f, Assets) \in Nat /\ Total(h, Assets) \in Nat /\ f[a] <= Total(f, Assets)
      BY ONLY <3>1, <3>2, <3>3, a \in Assets, RedBankAssumptions, TotalChange
    <3>6. Total(g, Assets) = q /\ Total(f, Assets) = o
      BY DEF q, o, f, g
    <3> QED
      BY ONLY <2>1, <2>11, <2>15, <3>1, <3>3, <3>4, <3>5, <3>6, a \in Assets, SMT
  <2>17. RoundingSlack(a) = s + 2
    BY <1>1, SlackIs DEF s, k
  <2>18. q <= c + RoundingSlack(a)
    BY ONLY <2>1, <2>3, <2>4, <2>5, <2>6, <2>11, <2>16, <2>17, SMT
  <2>19. DrawsOn(u, a)
    BY <1>1, <1>2, <1>3, <1>8 DEF DrawsOn
  <2> QED
    BY <1>1, <2>18, <2>19, Sides DEF StaysHealthy, q, c
<1> QED
  BY <1>7, <1>8

\* A transfer is checked against the position its sender is left with.
LEMMA TransferStaysHealthy ==
  ASSUME QuietTerms, NEW u \in Users, NEW other \in Addresses, NEW a \in Assets,
         NEW amount \in Nat, TransferMaToken(u, other, a, amount)
  PROVE  \A v \in Users : StaysHealthy(v)
<1> DEFINE ledger == Credit(Debit(maTokens[a], u, amount), other, amount)
<1>1. /\ u \in Addresses /\ u # other /\ debts' = debts
      /\ amount <= maTokens[a][u] /\ maTokens' = [maTokens EXCEPT ![a] = ledger]
      /\ HealthyWith(u, collateral[u], maTokens')
      /\ collateral' = [v \in Addresses |->
           IF v = u /\ maTokens[a][v] = amount THEN collateral[v] \ {a}
           ELSE IF v = other /\ maTokens[a][v] = 0 THEN collateral[v] \cup {a}
           ELSE collateral[v]]
  BY DEF TransferMaToken, Users
<1>2. /\ maTokens \in [Assets -> [Addresses -> Nat]] /\ debts \in [Assets -> [Addresses -> Nat]]
      /\ collateral \in [Addresses -> SUBSET Assets] /\ FlagsAreListed
  BY DEF QuietTerms, HealthInv, TypeInv, TypeOK
<1>3. /\ maTokens'[a] = ledger /\ \A b \in Assets \ {a} : maTokens'[b] = maTokens[b]
      /\ maTokens[a] \in [Addresses -> Nat]
  BY <1>1, <1>2
<1>4. /\ Debit(maTokens[a], u, amount) \in [Addresses -> Nat]
      /\ Debit(maTokens[a], u, amount)[u] = maTokens[a][u] - amount
      /\ \A v \in Addresses \ {u} : Debit(maTokens[a], u, amount)[v] = maTokens[a][v]
  BY <1>1, <1>3 DEF Debit
<1>5. /\ ledger[u] = maTokens[a][u] - amount
      /\ \A v \in Addresses \ {u} : maTokens[a][v] <= ledger[v]
  <2> DEFINE d == Debit(maTokens[a], u, amount)
  <2>1. /\ \A v \in Addresses : d[v] <= Credit(d, other, amount)[v]
        /\ \A v \in Addresses \ {other} : Credit(d, other, amount)[v] = d[v]
    <3>1. d \in [Addresses -> Nat] /\ other \in Addresses /\ amount \in Nat
      BY <1>4
    <3> HIDE DEF d
    <3> QED
      BY ONLY <3>1, LedgerType
  <2> QED
    BY <1>1, <1>4, <2>1
<1> HIDE DEF ledger
<1>6. ASSUME NEW v \in Users, v # u
      PROVE  StaysHealthy(v)
  <2>1. v \in Addresses
    BY DEF Users
  <2>2. \A b \in Assets : maTokens[b][v] <= maTokens'[b][v] /\ debts'[b][v] <= debts[b][v]
    BY <1>1, <1>2, <1>3, <1>5, <1>6, <2>1
  <2>3. collateral[v] \subseteq collateral'[v] /\ collateral[v] \subseteq Assets
    BY <1>1, <1>2, <1>6, <2>1
  <2>4. TakesNothing(v)
    BY <2>2, <2>3 DEF TakesNothing
  <2> QED
    BY <2>1, <2>4, QuietStaysHealthy
<1>7. StaysHealthy(u)
  <2>1. collateral'[u] = IF maTokens[a][u] = amount THEN collateral[u] \ {a} ELSE collateral[u]
    BY <1>1
  <2>2. collateral[u] \in SUBSET QueryMarketsList
    BY <1>1, <1>2 DEF FlagsAreListed
  <2>3. collateral'[u] \subseteq collateral[u]
    BY <2>1
  <2>4. \A b \in collateral[u] \ collateral'[u] : maTokens'[b][u] = 0
    BY <1>1, <1>2, <1>3, <1>5, <2>1
  <2> QED
    BY <1>1, <2>2, <2>3, <2>4, CheckedStaysHealthy
<1> QED
  BY <1>6, <1>7

\* So is a collateral that is switched off.
LEMMA StatusStaysHealthy ==
  ASSUME QuietTerms, NEW u \in Addresses, NEW a \in Assets, UpdateAssetCollateralStatus(u, a)
  PROVE  \A v \in Users : StaysHealthy(v)
<1>1. /\ maTokens \in [Assets -> [Addresses -> Nat]] /\ debts \in [Assets -> [Addresses -> Nat]]
      /\ collateral \in [Addresses -> SUBSET Assets] /\ FlagsAreListed
  BY DEF QuietTerms, HealthInv, TypeInv, TypeOK
<1>2. maTokens' = maTokens /\ debts' = debts
  BY DEF UpdateAssetCollateralStatus
<1>3. ASSUME NEW v \in Users, collateral[v] \subseteq collateral'[v]
      PROVE  StaysHealthy(v)
  <2>1. v \in Addresses
    BY DEF Users
  <2>2. \A b \in Assets : maTokens[b][v] <= maTokens'[b][v] /\ debts'[b][v] <= debts[b][v]
    BY <1>1, <1>2, <2>1
  <2>3. collateral[v] \subseteq Assets
    BY <1>1, <2>1
  <2>4. TakesNothing(v)
    BY <1>3, <2>2, <2>3 DEF TakesNothing
  <2> QED
    BY <2>1, <2>4, QuietStaysHealthy
<1>4. CASE collateral' = [collateral EXCEPT ![u] = @ \cup {a}]
  <2>1. \A v \in Users : collateral[v] \subseteq collateral'[v]
    BY <1>1, <1>4 DEF Users
  <2> QED
    BY <1>3, <2>1
<1>5. CASE /\ HealthyWith(u, collateral[u] \ {a}, maTokens)
           /\ collateral' = [collateral EXCEPT ![u] = @ \ {a}]
  <2>1. \A v \in Users \ {u} : collateral[v] \subseteq collateral'[v]
    BY <1>1, <1>5 DEF Users
  <2>2. StaysHealthy(u)
    <3>1. collateral'[u] = collateral[u] \ {a}
      BY <1>1, <1>5
    <3>2. collateral[u] \ {a} \in SUBSET QueryMarketsList
      BY <1>1 DEF FlagsAreListed
    <3>3. HealthyWith(u, collateral[u] \ {a}, maTokens')
      BY <1>2, <1>5
    <3>4. \A b \in (collateral[u] \ {a}) \ collateral'[u] : maTokens'[b][u] = 0
      BY <3>1
    <3>5. collateral'[u] \subseteq collateral[u] /\ collateral'[u] \subseteq collateral[u] \ {a}
      BY <3>1
    <3> QED
      BY <1>2, <3>2, <3>3, <3>4, <3>5, CheckedStaysHealthy
  <2> QED
    BY <1>3, <2>1, <2>2
<1> QED
  BY <1>4, <1>5 DEF UpdateAssetCollateralStatus

\* A liquidation takes from an unhealthy position only, and adds no debt.
LEMMA LiquidateStaysHealthy ==
  ASSUME QuietTerms, NEW u \in Users, NEW liquidator \in Addresses,
         NEW c \in Assets, NEW d \in Assets, NEW sent \in Nat,
         NEW receiveMaToken \in BOOLEAN,
         Liquidate(liquidator, u, c, d, sent, receiveMaToken)
  PROVE  \A v \in Users : StaysHealthy(v)
<1>1. /\ TypeInv /\ collateral \in [Addresses -> SUBSET Assets]
      /\ debts \in [Assets -> [Addresses -> Nat]]
  BY DEF QuietTerms, HealthInv, TypeInv, TypeOK
<1>2. ~Healthy(u)
  BY DEF Liquidate
<1>3. \A a \in Assets, v \in Users :
        /\ ~(a = c /\ v = u) => maTokens'[a][v] >= maTokens[a][v]
        /\ ~(a = d /\ v = u) => debts'[a][v] = debts[a][v]
  BY <1>1, LiquidateIsFair
<1>4. \A v \in Addresses \ {u} : collateral[v] \subseteq collateral'[v]
  BY <1>1 DEF Liquidate
<1>5. ASSUME NEW v \in Users, v # u
      PROVE  StaysHealthy(v)
  <2>1. v \in Addresses
    BY DEF Users
  <2>2. \A a \in Assets : maTokens[a][v] <= maTokens'[a][v] /\ debts'[a][v] <= debts[a][v]
    <3>1. \A a \in Assets : debts[a][v] \in Nat
      BY <1>1, <2>1
    <3> QED
      BY <1>3, <1>5, <3>1
  <2>3. collateral[v] \subseteq collateral'[v] /\ collateral[v] \subseteq Assets
    BY <1>1, <1>4, <1>5, <2>1
  <2>4. TakesNothing(v)
    BY <2>2, <2>3 DEF TakesNothing
  <2> QED
    BY <2>1, <2>4, QuietStaysHealthy
<1>6. StaysHealthy(u)
  BY <1>2 DEF StaysHealthy
<1> QED
  BY <1>5, <1>6

\* No step makes the position of a user unhealthy, unless the terms of trade move.
LEMMA HealthStep ==
  ASSUME QuietTerms
  PROVE  \A u \in Users : StaysHealthy(u)
<1>1. /\ TypeInv /\ TypeInv' /\ [Next]_vars
      /\ collateral \in [Addresses -> SUBSET Assets]
      /\ maTokens \in [Assets -> [Addresses -> Nat]] /\ debts \in [Assets -> [Addresses -> Nat]]
  BY DEF QuietTerms, HealthInv, TypeInv, TypeOK
<1>2. Users \subseteq Addresses /\ Amounts \subseteq Nat
  BY RedBankAssumptions DEF Users
<1>3. ASSUME NEW u \in Users,
             \A a \in Assets : maTokens[a][u] <= maTokens'[a][u] /\ debts'[a][u] <= debts[a][u],
             collateral[u] \subseteq collateral'[u]
      PROVE  StaysHealthy(u)
  <2>1. TakesNothing(u)
    BY <1>1, <1>2, <1>3 DEF TakesNothing
  <2> QED
    BY <1>2, <2>1, QuietStaysHealthy
<1>4. \A u \in Users, a \in Assets : maTokens[a][u] \in Nat /\ debts[a][u] \in Nat
  BY <1>1, <1>2
<1>5. ASSUME maTokens' = maTokens, debts' = debts, collateral' = collateral
      PROVE  \A u \in Users : StaysHealthy(u)
  BY <1>3, <1>4, <1>5
<1>6. ASSUME NEW a \in Assets, Listed(a), collateral' = collateral,
             maTokens' = [maTokens EXCEPT ![a] = WithRewards(@, markets[a])],
             NEW u \in Users, \A b \in Assets : debts'[b][u] <= debts[b][u]
      PROVE  StaysHealthy(u)
  <2>1. \A b \in Assets : maTokens'[b][u] = maTokens[b][u]
    BY <1>1, <1>6, RewardsAreNotMinted
  <2> QED
    BY <1>3, <1>4, <1>6, <2>1
<1>7. ASSUME NEW a \in Assets, OwnerStep(a) \/ PriceChange(a)
      PROVE  \A u \in Users : StaysHealthy(u)
  <2>1. CASE UpdateAsset(a)
    <3>1. Listed(a) /\ collateral' = collateral /\ debts' = debts
      BY <2>1 DEF UpdateAsset, position
    <3>2. maTokens' = maTokens \/ maTokens' = [maTokens EXCEPT ![a] = WithRewards(@, markets[a])]
      BY <2>1 DEF UpdateAsset, UpdateAssetTo
    <3> QED
      BY <1>4, <1>5, <1>6, <3>1, <3>2
  <2>2. CASE InitAsset(a) \/ PriceChange(a)
             \/ \E u \in Users : UpdateUncollateralizedLoanLimit(u, a)
    BY <1>5, <2>2 DEF InitAsset, PriceChange, UpdateUncollateralizedLoanLimit, position
  <2> QED
    BY <1>7, <2>1, <2>2 DEF OwnerStep
<1>8. ASSUME NEW a \in Assets, UserStep(a)
      PROVE  \A u \in Users : StaysHealthy(u)
  <2>1. ASSUME NEW u \in Users, NEW amount \in Amounts, ReceiveStep(u, a, amount)
        PROVE  \A v \in Users : StaysHealthy(v)
    <3>1. CASE Deposit(u, a, amount)
      <4> DEFINE m == markets[a]
                 mint == ScaledLiquidity(amount, m)
                 ledger == WithRewards(maTokens[a], m)
      <4>1. /\ MarketInv(m) /\ now \in Nat /\ maTokens[a] \in [Addresses -> Nat]
            /\ amount \in Nat
        BY <1>1, <1>2, <3>1 DEF Deposit, TypeInv, TypeOK
      <4>2. mint \in Nat
        BY <4>1, ScalingType
      <4>3. ledger \in [Addresses -> Nat] /\ \A v \in Addresses : maTokens[a][v] <= ledger[v]
        BY <4>1, WithRewardsType
      <4>4. \A v \in Addresses : ledger[v] <= Credit(ledger, u, mint)[v]
            /\ Credit(ledger, u, mint)[v] \in Nat
        BY <1>2, <4>2, <4>3, LedgerType
      <4>5. /\ debts' = debts /\ collateral' = [collateral EXCEPT ![u] = @ \cup {a}]
            /\ maTokens' = [maTokens EXCEPT ![a] = Credit(ledger, u, mint)]
        BY <3>1 DEF Deposit
      <4> HIDE DEF ledger, mint
      <4>6. \A v \in Users : collateral[v] \subseteq collateral'[v]
        BY <1>1, <1>2, <4>5
      <4>7. ASSUME NEW v \in Users, NEW b \in Assets
            PROVE  maTokens[b][v] <= maTokens'[b][v] /\ debts'[b][v] <= debts[b][v]
        <5>1. maTokens[a][v] \in Nat /\ ledger[v] \in Nat
          BY <1>2, <1>4, <4>3
        <5>2. maTokens[a][v] <= Credit(ledger, u, mint)[v]
          BY <1>2, <4>3, <4>4, <5>1
        <5> QED
          BY <1>1, <1>4, <4>5, <5>2
      <4> QED
        BY <1>3, <4>6, <4>7
    <3>2. ASSUME NEW sender \in Users, Repay(sender, u, a, amount)
          PROVE  \A v \in Users : StaysHealthy(v)
      <4>1. amount \in Nat /\ u \in Addresses /\ sender \in Addresses
        BY <1>2
      <4>2. PICK after \in Nat : after <= debts[a][u] /\ debts' = [debts EXCEPT ![a][u] = after]
        BY <1>1, <3>2, <4>1, RepayStep
      <4>3. \A v \in Users, b \in Assets : debts'[b][v] <= debts[b][v]
        BY <1>1, <1>2, <1>4, <4>2
      <4> QED
        BY <1>6, <3>2, <4>3 DEF Repay
    <3>3. ASSUME NEW liquidator \in Users, NEW c \in Assets, NEW receiveMaToken \in BOOLEAN,
                 Liquidate(liquidator, u, c, a, amount, receiveMaToken)
          PROVE  \A v \in Users : StaysHealthy(v)
      BY <1>2, <3>3, LiquidateStaysHealthy
    <3> QED
      BY <2>1, <3>1, <3>2, <3>3 DEF ReceiveStep
  <2>2. ASSUME NEW u \in Users, NEW amount \in Amounts, Borrow(u, a, amount)
        PROVE  \A v \in Users : StaysHealthy(v)
    <3>1. StaysHealthy(u)
      BY <1>2, <2>2, BorrowStaysHealthy
    <3>2. ASSUME NEW v \in Users, v # u
          PROVE  StaysHealthy(v)
      <4>1. \A b \in Assets : debts'[b][v] <= debts[b][v]
        BY <1>1, <1>2, <1>4, <2>2, <3>2 DEF Borrow
      <4> QED
        BY <1>6, <2>2, <4>1 DEF Borrow
    <3> QED
      BY <3>1, <3>2
  <2>3. ASSUME NEW u \in Users, NEW amount \in Amounts, NEW recipient \in Addresses,
               TransferMaToken(u, recipient, a, amount)
        PROVE  \A v \in Users : StaysHealthy(v)
    BY <1>2, <2>3, TransferStaysHealthy
  <2>4. ASSUME NEW u \in Addresses, NEW amount \in WithdrawAmounts(u, a),
               Withdraw(u, a, amount)
        PROVE  \A v \in Users : StaysHealthy(v)
    <3>1. amount \in Nat
      BY <1>1, WithdrawAmountsType
    <3>2. ASSUME NEW v \in Users, v # u
          PROVE  StaysHealthy(v)
      <4> DEFINE m == markets[a]
                 left == ScaledLiquidity(UnderlyingLiquidity(maTokens[a][u], m) - amount, m)
                 burn == maTokens[a][u] - left
                 ledger == Debit(maTokens[a], u, burn)
      <4>1. /\ MarketInv(m) /\ now \in Nat /\ maTokens[a] \in [Addresses -> Nat]
            /\ maTokens[a][u] \in Nat
        BY <1>1, <2>4 DEF Withdraw, TypeInv, TypeOK
      <4>2. UnderlyingLiquidity(maTokens[a][u], m) \in Nat
            /\ amount <= UnderlyingLiquidity(maTokens[a][u], m) /\ burn > 0
        BY <2>4, <4>1, ScalingType DEF Withdraw
      <4>3. UnderlyingLiquidity(maTokens[a][u], m) - amount \in Nat
        BY <3>1, <4>2
      <4>4. left \in Nat
        BY <4>1, <4>3, ScalingType
      <4>5. burn \in Nat /\ burn <= maTokens[a][u]
        BY <4>1, <4>2, <4>4
      <4> HIDE DEF left, burn
      <4>6. ledger \in [Addresses -> Nat] /\ ledger[v] = maTokens[a][v]
        BY <1>2, <3>2, <4>1, <4>5 DEF Debit
      <4>7. WithRewards(ledger, m)[v] = maTokens[a][v]
        BY <1>2, <4>1, <4>6, WithRewardsType DEF Users
      <4>8. maTokens' = [maTokens EXCEPT ![a] = WithRewards(ledger, m)] /\ debts' = debts
        BY <2>4 DEF Withdraw, burn, left
      <4>9. collateral[v] \subseteq collateral'[v]
        BY <1>1, <1>2, <2>4, <3>2 DEF Withdraw
      <4> HIDE DEF ledger
      <4>10. \A b \in Assets : maTokens[b][v] <= maTokens'[b][v] /\ debts'[b][v] <= debts[b][v]
        BY <1>1, <1>4, <4>7, <4>8
      <4> QED
        BY <1>3, <4>9, <4>10
    <3>3. u \in Users => StaysHealthy(u)
      BY <2>4, <3>1, WithdrawStaysHealthy
    <3> QED
      BY <3>2, <3>3
  <2>5. ASSUME NEW u \in Users, UpdateAssetCollateralStatus(u, a)
        PROVE  \A v \in Users : StaysHealthy(v)
    BY <1>2, <2>5, StatusStaysHealthy
  <2> QED
    BY <1>8, <2>1, <2>2, <2>3, <2>4, <2>5 DEF UserStep
<1>9. CASE UpdateConfig \/ Tick \/ UNCHANGED vars
  <2>1. maTokens' = maTokens /\ debts' = debts /\ collateral' = collateral
    BY <1>9 DEF UpdateConfig, Tick, vars, position
  <2> QED
    BY <1>5, <2>1
<1> QED
  BY <1>1, <1>7, <1>8, <1>9 DEF Next

\* What holds of every position holds at first and stays.
LEMMA HealthInvHolds == Spec => []HealthInv
<1>1. Init => HealthInv
  BY TypeInvInit DEF Init, HealthInv, DebtIsFlagged, MarkerMatchesLimit, FlagsAreListed,
                     TermsAreValid, QueryMarketsList, Listed
<1>2. HealthInv /\ [Next]_vars => HealthInv'
  BY TypeInvStep, DebtIsFlaggedStep, MarkerStep, FlagsAreListedStep, TermsStayValid DEF HealthInv
<1> QED
  BY <1>1, <1>2, PTL DEF Spec

\* Whatever the prices, the terms and the indexes are, no transaction of a user
\* makes a healthy position unhealthy ...
THEOREM PositionsStayHealthy == Spec => UsersKeepPositionsHealthy
<1>1. ASSUME HealthInv, HealthInv', [Next]_vars, UNCHANGED <<price, now, limits>>,
             \A a \in Assets : Listed(a) =>
               markets'[a].liquidation_threshold = markets[a].liquidation_threshold,
             NEW u \in Users, QueryUserPosition(u).healthy
      PROVE  LET debt      == QueryUserPosition(u).total_collateralized_debt
                 threshold == QueryUserPosition(u).weighted_liquidation_threshold
             IN  \/ debt' <= threshold'
                 \/ \E a \in Assets : DrawsOn(u, a) /\ debt' <= threshold' + RoundingSlack(a)
  <2>1. QuietTerms
    BY <1>1 DEF QuietTerms, SameTermsOfTrade
  <2>2. StaysHealthy(u)
    BY <2>1, HealthStep
  <2>3. Healthy(u)
    BY <1>1 DEF QueryUserPosition
  <2>4. /\ QueryUserPosition(u).total_collateralized_debt' = CollateralizedDebt(u)'
        /\ QueryUserPosition(u).weighted_liquidation_threshold' =
             WeightedThreshold(u, collateral[u], maTokens)'
    BY DEF QueryUserPosition
  <2> QED
    BY <2>2, <2>3, <2>4 DEF StaysHealthy
<1>2. HealthInv /\ HealthInv' /\ [Next]_vars =>
        [ UNCHANGED <<price, now, limits>>
          /\ (\A a \in Assets : Listed(a) =>
                markets'[a].liquidation_threshold = markets[a].liquidation_threshold)
          => \A u \in Users : QueryUserPosition(u).healthy =>
               LET debt      == QueryUserPosition(u).total_collateralized_debt
                   threshold == QueryUserPosition(u).weighted_liquidation_threshold
               IN  \/ debt' <= threshold'
                   \/ \E a \in Assets : DrawsOn(u, a) /\ debt' <= threshold' + RoundingSlack(a)
        ]_vars
  BY <1>1
<1> QED
  BY HealthInvHolds, <1>2, PTL DEF Spec, UsersKeepPositionsHealthy

-----------------------------------------------------------------------------
(* What backs the deposits.  The type invariant is enough: each operation      *)
(* rounds the claims it creates down and those it settles up, and the indexes   *)
(* it is measured with do not move in a block.                                  *)

\* The maTokens of an amount claim at most the amount, and what is cut off is
\* worth less than one of them.
LEMMA ScaledDepositClaims ==
  ASSUME NEW m, MarketInv(m), now \in Nat, NEW amount \in Nat
  PROVE  LET scaled == ScaledLiquidity(amount, m)
             index  == LiquidityIndex(m)
         IN  /\ scaled \in Nat /\ index \in Nat \ {0}
             /\ scaled * index <= amount * ScalingFactor * One
             /\ amount * ScalingFactor * One <= scaled * index + (index - 1)
<1> DEFINE index == LiquidityIndex(m)
           fine == amount * ScalingFactor * One
           scaled == fine \div index
<1>1. index \in Nat \ {0} /\ ScalingFactor \in Nat \ {0} /\ One \in Nat \ {0}
  BY IndexOrder, RedBankAssumptions, OneAssumption
<1>2. fine \in Nat
  BY <1>1, ProductType
<1>3. scaled = ScaledLiquidity(amount, m)
  BY DEF ScaledAmount, ScaledLiquidity, Div
<1> HIDE DEF index, fine
<1>4. scaled \in Nat /\ scaled * index <= fine /\ fine < scaled * index + index
  BY <1>1, <1>2, DivFloor
<1> HIDE DEF scaled
<1>5. scaled * index \in Nat
  BY <1>1, <1>4, ProductType
<1>6. fine <= scaled * index + (index - 1)
  BY <1>1, <1>2, <1>4, <1>5
<1> QED
  BY <1>1, <1>3, <1>4, <1>6 DEF index, fine

\* A scaled debt covers the amount it is recorded for.
LEMMA ScaledDebtCovers ==
  ASSUME NEW m, MarketInv(m), now \in Nat, NEW amount \in Nat
  PROVE  LET scaled == ScaledDebt(amount, m)
             index  == BorrowIndex(m)
         IN  /\ scaled \in Nat /\ index \in Nat \ {0}
             /\ amount * ScalingFactor * One <= scaled * index
<1> DEFINE index == BorrowIndex(m)
           fine == amount * ScalingFactor * One
           scaled == CeilDiv(fine, index)
<1>1. index \in Nat \ {0} /\ ScalingFactor \in Nat \ {0} /\ One \in Nat \ {0}
  BY IndexOrder, RedBankAssumptions, OneAssumption
<1>2. fine \in Nat
  BY <1>1, ProductType
<1>3. scaled = ScaledDebt(amount, m)
  BY DEF ScaledAmount, ScaledDebt, DivCeil
<1> HIDE DEF index, fine
<1>4. scaled \in Nat /\ fine <= scaled * index
  BY <1>1, <1>2, CeilDivCovers
<1> QED
  BY <1>1, <1>3, <1>4 DEF index, fine

\* What maTokens are said to be worth they can claim ...
LEMMA UnderlyingIsClaimed ==
  ASSUME NEW m, MarketInv(m), now \in Nat, NEW scaled \in Nat
  PROVE  /\ UnderlyingLiquidity(scaled, m) \in Nat
         /\ UnderlyingLiquidity(scaled, m) * ScalingFactor * One <= scaled * LiquidityIndex(m)
<1> DEFINE index == LiquidityIndex(m)
           worth == Mul(scaled, index)
           amount == worth \div ScalingFactor
<1>1. index \in Nat \ {0} /\ ScalingFactor \in Nat \ {0} /\ One \in Nat \ {0}
  BY IndexOrder, RedBankAssumptions, OneAssumption
<1>2. amount = UnderlyingLiquidity(scaled, m)
  BY DEF UnderlyingLiquidity
<1> HIDE DEF index
<1>3. scaled * index \in Nat
  BY <1>1, ProductType
<1>4. worth \in Nat /\ worth * One <= scaled * index
  BY <1>1, <1>3, DivFloor DEF Mul
<1> HIDE DEF worth
<1>5. amount \in Nat /\ amount * ScalingFactor <= worth
  BY <1>1, <1>4, DivFloor
<1> HIDE DEF amount
<1>6. amount * ScalingFactor \in Nat /\ One <= One
  BY <1>1, <1>5, ProductType
<1>7. amount * ScalingFactor * One <= worth * One
  BY <1>1, <1>4, <1>5, <1>6, ProductMono
<1>8. amount * ScalingFactor * One \in Nat /\ worth * One \in Nat
  BY <1>1, <1>4, <1>6, ProductType
<1>9. amount * ScalingFactor * One <= scaled * index
  BY <1>3, <1>4, <1>7, <1>8
<1> QED
  BY <1>2, <1>5, <1>9 DEF index

\* ... and what a debt amounts to covers it, but for less than a scaled unit.
LEMMA UnderlyingCoversDebt ==
  ASSUME NEW m, MarketInv(m), now \in Nat, NEW scaled \in Nat
  PROVE  /\ UnderlyingDebt(scaled, m) \in Nat
         /\ scaled * BorrowIndex(m) <= UnderlyingDebt(scaled, m) * ScalingFactor * One + (One - 1)
<1> DEFINE index == BorrowIndex(m)
           worth == Mul(scaled, index)
           amount == CeilDiv(worth, ScalingFactor)
<1>1. index \in Nat \ {0} /\ ScalingFactor \in Nat \ {0} /\ One \in Nat \ {0}
  BY IndexOrder, RedBankAssumptions, OneAssumption
<1>2. amount = UnderlyingDebt(scaled, m)
  BY DEF UnderlyingDebt, UnderlyingDebtAt
<1> HIDE DEF index
<1>3. scaled * index \in Nat
  BY <1>1, ProductType
<1>4. worth \in Nat /\ scaled * index < worth * One + One
  BY <1>1, <1>3, DivFloor DEF Mul
<1> HIDE DEF worth
<1>5. amount \in Nat /\ worth <= amount * ScalingFactor
  BY <1>1, <1>4, CeilDivCovers
<1> HIDE DEF amount
<1>6. amount * ScalingFactor \in Nat /\ One <= One
  BY <1>1, <1>5, ProductType
<1>7. worth * One <= amount * ScalingFactor * One
  BY <1>1, <1>4, <1>5, <1>6, ProductMono
<1>8. amount * ScalingFactor * One \in Nat /\ worth * One \in Nat
  BY <1>1, <1>4, <1>6, ProductType
<1>9. scaled * index <= amount * ScalingFactor * One + (One - 1)
  BY <1>1, <1>3, <1>4, <1>7, <1>8
<1> QED
  BY <1>2, <1>5, <1>9 DEF index

\* Once its indexes are up to date, a market has no rewards left to mint.
NothingPending ==
  \A a \in Assets : (TypeInv /\ Listed(a) /\ markets[a].indexes_last_updated = now) =>
    RewardsMint(markets[a]) = 0

LEMMA NoRewardsPending == NothingPending
<1> SUFFICES ASSUME NEW a \in Assets, TypeInv, Listed(a), markets[a].indexes_last_updated = now
             PROVE  RewardsMint(markets[a]) = 0
  BY DEF NothingPending
<1> DEFINE m == markets[a]
<1>1. /\ MarketInv(m) /\ now \in Nat /\ m.borrow_index \in Nat
      /\ m.debt_total_scaled \in Nat /\ m.reserve_factor \in Nat
  BY DEF TypeInv, TypeOK, MarketInv, SoundMarket, Markets
<1>2. BorrowIndex(m) = m.borrow_index
  BY <1>1 DEF BorrowIndex, UpdatedIndex
<1>3. LiquidityIndex(m) \in Nat \ {0} /\ ScalingFactor \in Nat \ {0} /\ One \in Nat \ {0}
  BY <1>1, IndexOrder, RedBankAssumptions, OneAssumption
<1>4. 0 \div One = 0
  BY <1>3
<1>5. AccruedRewards(m) = 0
  <2>1. UnderlyingDebt(m.debt_total_scaled, m) = UnderlyingDebtAt(m.debt_total_scaled, m.borrow_index)
    BY <1>2 DEF UnderlyingDebt
  <2>2. UnderlyingDebt(m.debt_total_scaled, m) \in Nat
    BY <1>1, ScalingType
  <2>3. AccruedRewards(m) = Mul(0, m.reserve_factor)
    BY <2>1, <2>2 DEF AccruedRewards
  <2>4. 0 * m.reserve_factor = 0
    BY <1>1
  <2> QED
    BY <1>4, <2>3, <2>4 DEF Mul
<1>6. 0 * ScalingFactor * One = 0 /\ 0 \div LiquidityIndex(m) = 0
  BY <1>3
<1> QED
  BY <1>5, <1>6 DEF RewardsMint, ScaledLiquidity, ScaledAmount, Div

LEMMA NoRewardsPendingNext == NothingPending'
  BY NoRewardsPending, PTL

\* What holds of an asset when its depositors lose nothing but the roundings.
NothingLost(a) ==
  Backed(a) - Claimed(a) <= (Backed(a) - Claimed(a))' + LostInRounding(a)

\* The arithmetic of it, with what a step adds to the cash, to the debt and to the
\* claims.
LEMMA NetChange ==
  ASSUME NEW cash0 \in Int, NEW debt0 \in Int, NEW claims0 \in Int,
         NEW gain \in Int, NEW lent \in Int, NEW minted \in Int,
         NEW s \in Int, NEW o \in Int, NEW b \in Int, NEW l \in Int, NEW lost \in Int,
         minted * l <= gain * s * o + lent * b + lost
  PROVE  (cash0 * s * o + debt0 * b) - claims0 * l
           <= (((cash0 + gain) * s * o + (debt0 + lent) * b) - (claims0 + minted) * l) + lost
<1>1. (cash0 + gain) * s * o = cash0 * s * o + gain * s * o
  OBVIOUS
<1>2. (debt0 + lent) * b = debt0 * b + lent * b
  OBVIOUS
<1>3. (claims0 + minted) * l = claims0 * l + minted * l
  OBVIOUS
<1> DEFINE p == cash0 * s * o  q == gain * s * o  r == debt0 * b  t == lent * b
           v == claims0 * l  w == minted * l
<1>4. p \in Int /\ q \in Int /\ r \in Int /\ t \in Int /\ v \in Int /\ w \in Int
  OBVIOUS
<1>5. w <= q + t + lost
  OBVIOUS
<1>6. (p + r) - v <= (((p + q) + (r + t)) - (v + w)) + lost
  <2> HIDE DEF p, q, r, t, v, w
  <2> QED
    BY <1>4, <1>5
<1> QED
  BY <1>1, <1>2, <1>3, <1>6

\* The maTokens there are, and those still to be minted as rewards.
Claims(a) == Total(maTokens[a], Addresses) + RewardsMint(markets[a])

\* What a listed asset has, owes and may lose are numbers.
LEMMA NetType ==
  ASSUME TypeInv, NEW a \in Assets, Listed(a)
  PROVE  /\ MarketInv(markets[a]) /\ now \in Nat
         /\ cash[a] \in Nat /\ maTokens[a] \in [Addresses -> Nat]
         /\ markets[a].debt_total_scaled \in Nat /\ RewardsMint(markets[a]) \in Nat
         /\ Total(maTokens[a], Addresses) \in Nat /\ Claims(a) \in Nat
         /\ BorrowIndex(markets[a]) \in Nat \ {0} /\ LiquidityIndex(markets[a]) \in Nat \ {0}
         /\ LostInRounding(a) \in Nat
<1>1. /\ MarketInv(markets[a]) /\ now \in Nat /\ cash[a] \in Nat
      /\ maTokens[a] \in [Addresses -> Nat] /\ markets[a].debt_total_scaled \in Nat
  BY DEF TypeInv, TypeOK, MarketInv, SoundMarket, Markets
<1>2. /\ BorrowIndex(markets[a]) \in Nat \ {0} /\ LiquidityIndex(markets[a]) \in Nat \ {0}
      /\ One \in Nat \ {0}
  BY <1>1, IndexOrder, OneAssumption
<1>3. RewardsMint(markets[a]) \in Nat
  BY <1>1, RewardsType
<1>4. Total(maTokens[a], Addresses) \in Nat
  BY <1>1, RedBankAssumptions, TotalType
<1>5. LostInRounding(a) \in Nat
  BY <1>2 DEF LostInRounding
<1> QED
  BY <1>1, <1>2, <1>3, <1>4, <1>5 DEF Claims

\* No more is claimed than is added to the cash and to the debt, but for what is
\* lost.
LEMMA NothingLostBy ==
  ASSUME TypeInv, [Next]_vars, now' = now, NEW a \in Assets, Listed(a),
         NEW gain \in Int, NEW lent \in Int, NEW minted \in Int, NEW lost \in Int,
         cash'[a] = cash[a] + gain,
         markets'[a].debt_total_scaled = markets[a].debt_total_scaled + lent,
         Claims(a)' = Claims(a) + minted,
         minted * LiquidityIndex(markets[a]) <=
           gain * ScalingFactor * One + lent * BorrowIndex(markets[a]) + lost,
         lost <= LostInRounding(a)
  PROVE  NothingLost(a)
<1> DEFINE b == BorrowIndex(markets[a])
           l == LiquidityIndex(markets[a])
           held == cash[a]
           debt == markets[a].debt_total_scaled
           claims == Claims(a)
           before == (held * ScalingFactor * One + debt * b) - claims * l
           after == ((held + gain) * ScalingFactor * One + (debt + lent) * b)
                      - (claims + minted) * l
           slack == LostInRounding(a)
<1>1. /\ held \in Int /\ debt \in Int /\ claims \in Int /\ b \in Int /\ l \in Int
      /\ slack \in Int
  BY NetType
<1>2. ScalingFactor \in Int /\ One \in Int
  BY RedBankAssumptions, OneAssumption
<1>3. ValuesHold(a)
  BY ValuesStep
<1>4. BorrowIndex(markets[a])' = b /\ LiquidityIndex(markets[a])' = l
  BY <1>3 DEF ValuesHold
<1>5. Backed(a) - Claimed(a) = before
  BY DEF Backed, Claimed, Claims
<1>6. (Backed(a) - Claimed(a))' = after
  BY <1>4 DEF Backed, Claimed, Claims
<1>7. minted * l <= gain * ScalingFactor * One + lent * b + lost
  OBVIOUS
<1> HIDE DEF b, l, held, debt, claims
<1>8. before <= after + lost
  BY ONLY <1>1, <1>2, <1>7, gain \in Int, lent \in Int, minted \in Int, lost \in Int, NetChange
<1>9. before \in Int /\ after \in Int
  BY <1>1, <1>2
<1> HIDE DEF before, after, slack
<1>10. before <= after + slack
  <2>1. lost <= slack
    BY DEF slack
  <2> QED
    BY ONLY <1>1, <1>8, <1>9, <2>1, lost \in Int
<1> QED
  BY <1>5, <1>6, <1>10 DEF NothingLost, slack

\* The interest of a market runs on, and so do the rewards it brings ...
RunsOn(a) ==
  /\ markets'[a].borrow_index = markets[a].borrow_index
  /\ markets'[a].liquidity_index = markets[a].liquidity_index
  /\ markets'[a].borrow_rate = markets[a].borrow_rate
  /\ markets'[a].liquidity_rate = markets[a].liquidity_rate
  /\ markets'[a].indexes_last_updated = markets[a].indexes_last_updated
  /\ markets'[a].reserve_factor = markets[a].reserve_factor
  /\ markets'[a].debt_total_scaled = markets[a].debt_total_scaled

LEMMA SameClaims ==
  ASSUME NEW a \in Assets, now' = now, RunsOn(a),
         Total(maTokens'[a], Addresses) = Total(maTokens[a], Addresses)
  PROVE  Claims(a)' = Claims(a)
<1>1. BorrowIndex(markets[a])' = BorrowIndex(markets[a])
      /\ LiquidityIndex(markets[a])' = LiquidityIndex(markets[a])
  BY DEF RunsOn, BorrowIndex, LiquidityIndex, UpdatedIndex
<1>2. AccruedRewards(markets[a])' = AccruedRewards(markets[a])
  BY <1>1 DEF RunsOn, AccruedRewards, UnderlyingDebt, UnderlyingDebtAt
<1>3. RewardsMint(markets[a])' = RewardsMint(markets[a])
  BY <1>1, <1>2 DEF RewardsMint, ScaledLiquidity, ScaledAmount
<1> QED
  BY <1>3 DEF Claims

\* ... or was brought up to date, with the rewards minted.
LEMMA ClaimsMinted ==
  ASSUME TypeInv', NEW a \in Assets, Listed(a)', now' = now,
         markets'[a].indexes_last_updated = now
  PROVE  Claims(a)' = Total(maTokens'[a], Addresses)
<1>1. RewardsMint(markets[a])' = 0
  BY NoRewardsPendingNext DEF NothingPending
<1>2. /\ maTokens'[a] \in [Addresses -> Nat] /\ IsFiniteSet(Addresses)
  BY RedBankAssumptions DEF TypeInv, TypeOK
<1>3. Total(maTokens'[a], Addresses) \in Nat
  BY <1>2, TotalType
<1> QED
  BY <1>1, <1>3 DEF Claims

\* An asset of which nothing is paid in or out loses nothing.
LEMMA UntouchedLosesNothing ==
  ASSUME TypeInv, [Next]_vars, now' = now, NEW a \in Assets, Listed(a), RunsOn(a),
         Total(maTokens'[a], Addresses) = Total(maTokens[a], Addresses), cash'[a] = cash[a]
  PROVE  NothingLost(a)
<1>1. /\ cash[a] \in Nat /\ markets[a].debt_total_scaled \in Nat /\ Claims(a) \in Nat
      /\ BorrowIndex(markets[a]) \in Nat /\ LiquidityIndex(markets[a]) \in Nat
      /\ LostInRounding(a) \in Nat
  BY NetType
<1>2. Claims(a)' = Claims(a) + 0
  BY <1>1, SameClaims
<1>3. cash'[a] = cash[a] + 0
      /\ markets'[a].debt_total_scaled = markets[a].debt_total_scaled + 0
  BY <1>1 DEF RunsOn
<1>4. 0 * LiquidityIndex(markets[a]) <=
        0 * ScalingFactor * One + 0 * BorrowIndex(markets[a]) + 0
  BY <1>1, RedBankAssumptions, OneAssumption
<1>5. 0 \in Int /\ 0 <= LostInRounding(a)
  BY <1>1
<1> QED
  BY <1>2, <1>3, <1>4, <1>5, NothingLostBy

\* One asset is refreshed, and what is added to its claims is added to what backs
\* them.
LEMMA RefreshLosesNothing ==
  ASSUME TypeInv, TypeInv', [Next]_vars, now' = now, NEW b \in Assets,
         NEW gain \in Int, NEW lent \in Int, NEW minted \in Int, NEW lost \in Int,
         MarketRefreshed(b, markets[b].debt_total_scaled + lent),
         cash'[b] = cash[b] + gain,
         \A a \in Assets \ {b} : cash'[a] = cash[a] /\ maTokens'[a] = maTokens[a],
         Total(maTokens'[b], Addresses) =
           Total(maTokens[b], Addresses) + RewardsMint(markets[b]) + minted,
         minted * LiquidityIndex(markets[b]) <=
           gain * ScalingFactor * One + lent * BorrowIndex(markets[b]) + lost,
         lost <= LostInRounding(b)
  PROVE  \A a \in QueryMarketsList : NothingLost(a)
<1>1. /\ Listed(b) /\ Listed(b)' /\ markets'[b].indexes_last_updated = now
      /\ markets'[b].debt_total_scaled = markets[b].debt_total_scaled + lent
      /\ \A a \in Assets \ {b} : markets'[a] = markets[a]
  BY DEF MarketRefreshed, Refreshed
<1>2. Claims(b)' = Total(maTokens'[b], Addresses)
  BY <1>1, ClaimsMinted
<1>3. Claims(b)' = Claims(b) + minted
  BY <1>2 DEF Claims
<1>4. NothingLost(b)
  BY <1>1, <1>3, NothingLostBy
<1>5. ASSUME NEW a \in Assets \ {b}, Listed(a)
      PROVE  NothingLost(a)
  BY <1>1, <1>5, UntouchedLosesNothing DEF RunsOn
<1> QED
  BY <1>4, <1>5 DEF QueryMarketsList

\* The rewards add to the total of a ledger what they are.
LEMMA RewardedTotal ==
  ASSUME NEW m, MarketInv(m), now \in Nat, NEW ledger \in [Addresses -> Nat]
  PROVE  /\ WithRewards(ledger, m) \in [Addresses -> Nat]
         /\ Total(WithRewards(ledger, m), Addresses) = Total(ledger, Addresses) + RewardsMint(m)
         /\ Total(ledger, Addresses) \in Nat /\ RewardsMint(m) \in Nat
<1>1. RewardsMint(m) \in Nat /\ IsFiniteSet(Addresses) /\ Collector \in Addresses
  BY RewardsType, RedBankAssumptions
<1>2. /\ Credit(ledger, Collector, RewardsMint(m)) \in [Addresses -> Nat]
      /\ Total(Credit(ledger, Collector, RewardsMint(m)), Addresses) =
           Total(ledger, Addresses) + RewardsMint(m)
  BY <1>1, TotalCredit
<1>3. Total(ledger, Addresses) \in Nat
  BY <1>1, TotalType
<1> QED
  BY <1>1, <1>2, <1>3 DEF WithRewards

\* A deposit claims no more than was deposited.
LEMMA DepositLosesNothing ==
  ASSUME TypeInv, TypeInv', [Next]_vars, NEW b \in Assets, NEW u \in Addresses,
         NEW amount \in Nat, Deposit(u, b, amount)
  PROVE  \A a \in QueryMarketsList : NothingLost(a)
<1> DEFINE m == markets[b]
           mint == ScaledLiquidity(amount, m)
           ledger == WithRewards(maTokens[b], m)
<1>1. /\ Listed(b) /\ now' = now
      /\ MarketRefreshed(b, m.debt_total_scaled)
  BY DepositStep DEF Deposit
<1>2. /\ MarketInv(m) /\ now \in Nat /\ maTokens[b] \in [Addresses -> Nat]
      /\ m.debt_total_scaled \in Nat /\ BorrowIndex(m) \in Nat /\ LostInRounding(b) \in Nat
  BY <1>1, NetType
<1>3. /\ mint \in Nat /\ mint * LiquidityIndex(m) <= amount * ScalingFactor * One
      /\ LiquidityIndex(m) \in Nat
  BY <1>2, ScaledDepositClaims
<1>4. /\ ledger \in [Addresses -> Nat]
      /\ Total(ledger, Addresses) = Total(maTokens[b], Addresses) + RewardsMint(m)
  BY <1>2, RewardedTotal
<1>5. /\ maTokens'[b] = Credit(ledger, u, mint)
      /\ cash'[b] = cash[b] + amount
      /\ \A a \in Assets \ {b} : cash'[a] = cash[a] /\ maTokens'[a] = maTokens[a]
  BY DEF Deposit, TypeInv, TypeOK
<1> HIDE DEF ledger, mint
<1>6. Total(maTokens'[b], Addresses) =
        Total(maTokens[b], Addresses) + RewardsMint(m) + mint
  BY <1>3, <1>4, <1>5, RedBankAssumptions, TotalCredit
<1> HIDE DEF m
<1>7. MarketRefreshed(b, m.debt_total_scaled + 0)
  BY <1>1, <1>2 DEF m
<1>8. mint * LiquidityIndex(m) <= amount * ScalingFactor * One + 0 * BorrowIndex(m) + 0
  <2>1. amount * ScalingFactor * One \in Nat
    BY RedBankAssumptions, OneAssumption, ProductType
  <2>2. 0 * BorrowIndex(m) = 0
    BY <1>2
  <2> QED
    BY <1>3, <2>1, <2>2
<1>9. /\ amount \in Int /\ 0 \in Int /\ mint \in Int
      /\ 0 <= LostInRounding(b)
  BY <1>2, <1>3
<1> QED
  BY <1>1, <1>5, <1>6, <1>7, <1>8, <1>9, RefreshLosesNothing DEF m

\* A withdrawal burns what claims at least what is withdrawn.
LEMMA WithdrawLosesNothing ==
  ASSUME TypeInv, TypeInv', [Next]_vars, NEW b \in Assets, NEW u \in Addresses,
         NEW amount \in Nat, Withdraw(u, b, amount)
  PROVE  \A a \in QueryMarketsList : NothingLost(a)
<1> DEFINE m == markets[b]
           held == maTokens[b][u]
           balance == UnderlyingLiquidity(held, m)
           left == ScaledLiquidity(balance - amount, m)
           burn == held - left
           ledger == Debit(maTokens[b], u, burn)
           index == LiquidityIndex(m)
<1>1. /\ Listed(b) /\ now' = now
      /\ MarketRefreshed(b, m.debt_total_scaled)
      /\ amount <= balance /\ burn > 0
  BY WithdrawStep DEF Withdraw
<1>2. /\ MarketInv(m) /\ now \in Nat /\ maTokens[b] \in [Addresses -> Nat] /\ held \in Nat
      /\ m.debt_total_scaled \in Nat /\ BorrowIndex(m) \in Nat /\ LostInRounding(b) \in Nat
      /\ cash[b] \in Nat
  BY <1>1, NetType
<1>3. balance \in Nat /\ balance * ScalingFactor * One <= held * index
  BY <1>2, UnderlyingIsClaimed
<1> HIDE DEF balance
<1>4. balance - amount \in Nat
  BY <1>1, <1>3
<1>5. /\ left \in Nat /\ left * index <= (balance - amount) * ScalingFactor * One
      /\ index \in Nat
  BY <1>2, <1>4, ScaledDepositClaims
<1>6. /\ maTokens'[b] = WithRewards(ledger, m)
      /\ cash'[b] = cash[b] - amount
      /\ \A a \in Assets \ {b} : cash'[a] = cash[a] /\ maTokens'[a] = maTokens[a]
  BY DEF Withdraw, TypeInv, TypeOK, balance
<1> HIDE DEF left
<1>7. burn \in Nat /\ burn <= held
  BY <1>1, <1>2, <1>5
<1>8. /\ ledger \in [Addresses -> Nat]
      /\ Total(ledger, Addresses) = Total(maTokens[b], Addresses) - burn
  <2> HIDE DEF burn
  <2> QED
    BY <1>2, <1>7, RedBankAssumptions, TotalDebit
<1> HIDE DEF ledger
<1>9. Total(maTokens'[b], Addresses) = Total(ledger, Addresses) + RewardsMint(m)
      /\ RewardsMint(m) \in Nat /\ Total(maTokens[b], Addresses) \in Nat
  BY <1>1, <1>2, <1>6, <1>8, RewardedTotal, NetType
<1>10. Total(maTokens'[b], Addresses) =
         Total(maTokens[b], Addresses) + RewardsMint(m) + (- burn)
  BY <1>7, <1>8, <1>9
<1>11. (- burn) * index <= (- amount) * ScalingFactor * One
  <2> HIDE DEF index, held
  <2> DEFINE p == balance * ScalingFactor * One
             q == amount * ScalingFactor * One
  <2>1. ScalingFactor \in Nat /\ One \in Nat
    BY RedBankAssumptions, OneAssumption
  <2>2. p \in Nat /\ q \in Nat /\ held * index \in Nat /\ left * index \in Nat
    BY <1>2, <1>3, <1>5, <2>1, ProductType
  <2>3. (balance - amount) * ScalingFactor * One = p - q
    BY <1>3, <2>1
  <2>4. (- burn) * index = left * index - held * index
    BY <1>2, <1>5
  <2>5. (- amount) * ScalingFactor * One = - q
    BY <2>1
  <2> HIDE DEF p, q, burn
  <2>6. left * index <= p - q /\ p <= held * index
    BY <1>3, <1>5, <2>3 DEF p
  <2> QED
    BY <2>2, <2>4, <2>5, <2>6
<1> HIDE DEF m, burn
<1>12. MarketRefreshed(b, m.debt_total_scaled + 0)
  BY <1>1, <1>2 DEF m
<1>13. (- burn) * LiquidityIndex(m) <=
         (- amount) * ScalingFactor * One + 0 * BorrowIndex(m) + 0
  <2>1. 0 * BorrowIndex(m) = 0
    BY <1>2
  <2>2. (- amount) * ScalingFactor * One \in Int
    BY RedBankAssumptions, OneAssumption
  <2> QED
    BY <1>11, <2>1, <2>2
<1>14. /\ - amount \in Int /\ - burn \in Int /\ 0 \in Int
       /\ cash'[b] = cash[b] + (- amount)
       /\ 0 <= LostInRounding(b)
  BY <1>2, <1>6, <1>7
<1> QED
  BY <1>1, <1>6, <1>10, <1>12, <1>13, <1>14, RefreshLosesNothing DEF m

\* A debt is recorded for at least what is lent.
LEMMA BorrowLosesNothing ==
  ASSUME TypeInv, TypeInv', [Next]_vars, NEW b \in Assets, NEW u \in Addresses,
         NEW amount \in Nat, Borrow(u, b, amount)
  PROVE  \A a \in QueryMarketsList : NothingLost(a)
<1> DEFINE m == markets[b]
           scaled == ScaledDebt(amount, m)
<1>1. /\ Listed(b) /\ now' = now
      /\ MarketRefreshed(b, m.debt_total_scaled + scaled)
  BY BorrowStep DEF Borrow
<1>2. /\ MarketInv(m) /\ now \in Nat /\ maTokens[b] \in [Addresses -> Nat]
      /\ LiquidityIndex(m) \in Nat /\ LostInRounding(b) \in Nat /\ cash[b] \in Nat
  BY <1>1, NetType
<1>3. /\ scaled \in Nat /\ amount * ScalingFactor * One <= scaled * BorrowIndex(m)
      /\ BorrowIndex(m) \in Nat
  BY <1>2, ScaledDebtCovers
<1>4. /\ maTokens'[b] = WithRewards(maTokens[b], m)
      /\ cash'[b] = cash[b] - amount
      /\ \A a \in Assets \ {b} : cash'[a] = cash[a] /\ maTokens'[a] = maTokens[a]
  BY DEF Borrow, TypeInv, TypeOK
<1> HIDE DEF scaled
<1>5. Total(maTokens'[b], Addresses) = Total(maTokens[b], Addresses) + RewardsMint(m) + 0
  BY <1>2, <1>4, RewardedTotal
<1>6. 0 * LiquidityIndex(m) <=
        (- amount) * ScalingFactor * One + scaled * BorrowIndex(m) + 0
  <2>1. ScalingFactor \in Nat /\ One \in Nat
    BY RedBankAssumptions, OneAssumption
  <2>2. amount * ScalingFactor * One \in Nat /\ scaled * BorrowIndex(m) \in Nat
    BY <1>3, <2>1, ProductType
  <2>3. (- amount) * ScalingFactor * One = - (amount * ScalingFactor * One)
    BY <2>1
  <2>4. 0 * LiquidityIndex(m) = 0
    BY <1>2
  <2> QED
    BY <1>3, <2>2, <2>3, <2>4
<1>7. /\ - amount \in Int /\ 0 \in Int /\ scaled \in Int
      /\ cash'[b] = cash[b] + (- amount) /\ 0 <= LostInRounding(b)
  BY <1>2, <1>3, <1>4
<1> HIDE DEF m
<1> QED
  BY <1>1, <1>4, <1>5, <1>6, <1>7, RefreshLosesNothing DEF m

\* What is taken from a debt was repaid, but for less than a scaled unit, and for
\* nothing when the debt does not fall.
DebtLoss(before, after) == IF after < before THEN One - 1 ELSE 0

LEMMA RepaidIsCovered ==
  ASSUME NEW m, MarketInv(m), now \in Nat, NEW debt \in Nat, NEW repaid \in Nat,
         repaid <= UnderlyingDebt(debt, m),
         ScaledDebt(UnderlyingDebt(debt, m) - repaid, m) <= debt
  PROVE  LET after == ScaledDebt(UnderlyingDebt(debt, m) - repaid, m)
         IN  /\ after \in Nat /\ DebtLoss(debt, after) \in Nat
             /\ 0 <= repaid * ScalingFactor * One + (after - debt) * BorrowIndex(m)
                       + DebtLoss(debt, after)
<1> DEFINE owed == UnderlyingDebt(debt, m)
           after == ScaledDebt(owed - repaid, m)
           index == BorrowIndex(m)
           p == repaid * ScalingFactor * One
           q == owed * ScalingFactor * One
<1>1. /\ owed \in Nat /\ debt * index <= q + (One - 1)
      /\ ScalingFactor \in Nat /\ One \in Nat \ {0}
  BY UnderlyingCoversDebt, RedBankAssumptions, OneAssumption
<1> HIDE DEF owed
<1>2. owed - repaid \in Nat
  BY <1>1 DEF owed
<1>3. /\ after \in Nat /\ index \in Nat
      /\ (owed - repaid) * ScalingFactor * One <= after * index
  BY <1>2, ScaledDebtCovers
<1> HIDE DEF index, after
<1>4. p \in Nat /\ q \in Nat /\ after * index \in Nat /\ debt * index \in Nat
  BY <1>1, <1>3, ProductType
<1>5. (owed - repaid) * ScalingFactor * One = q - p
  BY <1>1
<1>6. (after - debt) * index = after * index - debt * index
  BY <1>3
<1> HIDE DEF p, q
<1>7. after <= debt
  BY DEF after, owed
<1>8. CASE after < debt
  <2>1. 0 <= p + (after - debt) * index + (One - 1)
    BY <1>1, <1>3, <1>4, <1>5, <1>6
  <2> QED
    BY <1>1, <1>3, <1>8, <2>1 DEF DebtLoss, after, owed, index, p
<1>9. CASE after = debt
  <2>1. (after - debt) * index = 0
    BY <1>4, <1>6, <1>9
  <2>2. ~(after < debt)
    BY <1>3, <1>9
  <2>3. 0 <= p + (after - debt) * index + 0
    BY <1>4, <2>1
  <2> QED
    BY <1>3, <2>2, <2>3 DEF DebtLoss, after, owed, index, p
<1> QED
  BY <1>3, <1>7, <1>8, <1>9

\* What a step may lose by its roundings is what the property allows it.
LEMMA LostAtLeast ==
  ASSUME TypeInv, NEW a \in Assets, Listed(a), NEW u \in Users
  PROVE  /\ DebtLoss(debts[a][u], debts'[a][u]) <= LostInRounding(a)
         /\ (maTokens'[a][u] < maTokens[a][u] /\ ~Healthy(u)) =>
              DebtLoss(debts[a][u], debts'[a][u]) + (LiquidityIndex(markets[a]) - 1)
                <= LostInRounding(a)
<1>1. LiquidityIndex(markets[a]) \in Nat \ {0} /\ One \in Nat \ {0}
  BY NetType, OneAssumption
<1> QED
  BY <1>1 DEF DebtLoss, LostInRounding, QueryUserPosition

\* A repayment takes no more from a debt than was repaid.
LEMMA RepayLosesNothing ==
  ASSUME TypeInv, TypeInv', [Next]_vars, NEW b \in Assets, NEW u \in Users,
         NEW sender \in Addresses, NEW amount \in Nat, Repay(sender, u, b, amount)
  PROVE  \A a \in QueryMarketsList : NothingLost(a)
<1> DEFINE m == markets[b]
           debt == debts[b][u]
           owed == UnderlyingDebt(debt, m)
           repaid == SmallerOf(amount, owed)
           after == ScaledDebt(owed - repaid, m)
           lent == after - debt
           lost == DebtLoss(debt, after)
<1>1. /\ Listed(b) /\ now' = now /\ u \in Addresses
      /\ after <= debt
      /\ debts' = [debts EXCEPT ![b][u] = after]
      /\ markets' = [markets EXCEPT ![b] =
           Refresh(m, m.debt_total_scaled - (debt - after), cash[b] + amount)]
  BY DEF Repay, Users
<1>2. /\ MarketInv(m) /\ now \in Nat /\ maTokens[b] \in [Addresses -> Nat]
      /\ LiquidityIndex(m) \in Nat /\ LostInRounding(b) \in Nat /\ cash[b] \in Nat
      /\ BorrowIndex(m) \in Nat /\ debt \in Nat /\ m.debt_total_scaled \in Nat
  BY <1>1, NetType DEF TypeInv, TypeOK
<1>3. owed \in Nat
  BY <1>2, ScalingType
<1>4. repaid \in Nat /\ repaid <= owed
  BY <1>3 DEF SmallerOf
<1>5. /\ after \in Nat /\ lost \in Nat
      /\ 0 <= repaid * ScalingFactor * One + lent * BorrowIndex(m) + lost
  <2> HIDE DEF repaid
  <2> QED
    BY <1>1, <1>2, <1>4, RepaidIsCovered
<1>6. /\ maTokens'[b] = WithRewards(maTokens[b], m)
      /\ cash'[b] = cash[b] + repaid
      /\ \A a \in Assets \ {b} : cash'[a] = cash[a] /\ maTokens'[a] = maTokens[a]
  BY DEF Repay, TypeInv, TypeOK
<1>7. debts'[b][u] = after
  BY <1>1 DEF TypeInv, TypeOK
<1> HIDE DEF lost
<1>8. lost <= LostInRounding(b)
  BY <1>1, <1>7, LostAtLeast DEF lost
<1>9. MarketRefreshed(b, m.debt_total_scaled + lent)
  <2>1. PICK rest \in Nat :
          /\ rest <= debt
          /\ debts' = [debts EXCEPT ![b][u] = rest]
          /\ MarketRefreshed(b, m.debt_total_scaled - (debt - rest))
    BY <1>1, RepayStep
  <2>2. rest = after
    BY <1>1, <1>7, <2>1 DEF TypeInv, TypeOK
  <2> HIDE DEF after
  <2>3. m.debt_total_scaled - (debt - rest) = m.debt_total_scaled + lent
    BY <1>2, <1>5, <2>2
  <2> HIDE DEF m, debt, lent
  <2> QED
    BY <2>1, <2>3
<1> HIDE DEF after, repaid
<1>10. Total(maTokens'[b], Addresses) = Total(maTokens[b], Addresses) + RewardsMint(m) + 0
  BY <1>2, <1>6, RewardedTotal
<1>11. 0 * LiquidityIndex(m) <= repaid * ScalingFactor * One + lent * BorrowIndex(m) + lost
  BY <1>2, <1>5
<1>12. repaid \in Int /\ lent \in Int /\ 0 \in Int /\ lost \in Int
  BY <1>2, <1>4, <1>5
<1> HIDE DEF m, lent
<1> QED
  BY <1>1, <1>6, <1>8, <1>9, <1>10, <1>11, <1>12, RefreshLosesNothing DEF m

\* New parameters cost nothing: what was pending is minted, or stays pending.
LEMMA UpdateAssetLosesNothing ==
  ASSUME TypeInv, TypeInv', [Next]_vars, NEW b \in Assets, UpdateAsset(b)
  PROVE  \A a \in QueryMarketsList : NothingLost(a)
<1> DEFINE m == markets[b]
<1>1. Listed(b) /\ now' = now /\ cash' = cash
  BY DEF UpdateAsset
<1>2. PICK r : /\ markets' = [markets EXCEPT ![b] = r]
               /\ MarketInv(r)
               /\ r.debt_total_scaled = m.debt_total_scaled
               /\ MovesOnce(m, r, now)
               /\ \/ /\ r.borrow_index = BorrowIndex(m)
                     /\ r.liquidity_index = LiquidityIndex(m)
                     /\ r.indexes_last_updated = now
                     /\ maTokens' = [maTokens EXCEPT ![b] = WithRewards(@, m)]
                  \/ /\ r.borrow_index = m.borrow_index
                     /\ r.liquidity_index = m.liquidity_index
                     /\ r.borrow_rate = m.borrow_rate
                     /\ r.liquidity_rate = m.liquidity_rate
                     /\ r.indexes_last_updated = m.indexes_last_updated
                     /\ r.reserve_factor = m.reserve_factor
                     /\ maTokens' = maTokens
  BY UpdateAssetMarket
<1>3. /\ markets'[b] = r /\ \A a \in Assets \ {b} : markets'[a] = markets[a]
  BY <1>2 DEF TypeInv, TypeOK
<1>4. /\ MarketInv(m) /\ now \in Nat /\ maTokens[b] \in [Addresses -> Nat]
      /\ m.debt_total_scaled \in Nat /\ BorrowIndex(m) \in Nat /\ LiquidityIndex(m) \in Nat
      /\ LostInRounding(b) \in Nat /\ cash[b] \in Nat
  BY <1>1, NetType
<1>5. CASE /\ r.borrow_index = BorrowIndex(m)
           /\ r.liquidity_index = LiquidityIndex(m)
           /\ r.indexes_last_updated = now
           /\ maTokens' = [maTokens EXCEPT ![b] = WithRewards(@, m)]
  <2>1. /\ maTokens'[b] = WithRewards(maTokens[b], m)
        /\ cash'[b] = cash[b] + 0
        /\ \A a \in Assets \ {b} : cash'[a] = cash[a] /\ maTokens'[a] = maTokens[a]
    BY <1>1, <1>4, <1>5 DEF TypeInv, TypeOK
  <2>2. Total(maTokens'[b], Addresses) = Total(maTokens[b], Addresses) + RewardsMint(m) + 0
    BY <1>4, <2>1, RewardedTotal
  <2>3. MarketRefreshed(b, m.debt_total_scaled + 0)
    <3>1. Listed(b)'
      BY <1>2, <1>3, RedBankAssumptions DEF Listed, MarketInv, SoundMarket
    <3>2. Refreshed(m, r, m.debt_total_scaled + 0)
      BY <1>2, <1>4, <1>5 DEF Refreshed
    <3>3. /\ markets' \in [Assets -> Markets \cup {NoMarket}]
          /\ \A a \in Assets : Listed(a)' => MarketInv(markets'[a])
      BY <1>2, OneMarketStep
    <3> QED
      BY <1>1, <1>3, <3>1, <3>2, <3>3 DEF MarketRefreshed
  <2>4. 0 * LiquidityIndex(m) <= 0 * ScalingFactor * One + 0 * BorrowIndex(m) + 0
    BY <1>4, RedBankAssumptions, OneAssumption
  <2>5. 0 \in Int /\ 0 <= LostInRounding(b)
    BY <1>4
  <2> HIDE DEF m
  <2> QED
    BY <1>1, <2>1, <2>2, <2>3, <2>4, <2>5, RefreshLosesNothing DEF m
<1>6. CASE /\ r.borrow_index = m.borrow_index
           /\ r.liquidity_index = m.liquidity_index
           /\ r.borrow_rate = m.borrow_rate
           /\ r.liquidity_rate = m.liquidity_rate
           /\ r.indexes_last_updated = m.indexes_last_updated
           /\ r.reserve_factor = m.reserve_factor
           /\ maTokens' = maTokens
  <2>1. \A a \in Assets : RunsOn(a)
    BY <1>2, <1>3, <1>6 DEF RunsOn
  <2> QED
    BY <1>1, <1>6, <2>1, UntouchedLosesNothing DEF QueryMarketsList
<1> QED
  BY <1>2, <1>5, <1>6

\* A transfer of maTokens leaves the claims together as they were.
LEMMA TransferLosesNothing ==
  ASSUME TypeInv, TypeInv', [Next]_vars, NEW b \in Assets, NEW u \in Addresses,
         NEW recipient \in Addresses, NEW amount \in Nat,
         TransferMaToken(u, recipient, b, amount)
  PROVE  \A a \in QueryMarketsList : NothingLost(a)
<1> DEFINE debited == Debit(maTokens[b], u, amount)
           ledger == Credit(debited, recipient, amount)
<1>1. /\ now' = now /\ cash' = cash /\ markets' = markets
      /\ maTokens' = [maTokens EXCEPT ![b] = ledger]
      /\ amount <= maTokens[b][u]
      /\ maTokens[b] \in [Addresses -> Nat] /\ maTokens[b][u] \in Nat
  BY DEF TransferMaToken, TypeInv, TypeOK
<1>2. /\ debited \in [Addresses -> Nat]
      /\ Total(debited, Addresses) = Total(maTokens[b], Addresses) - amount
  BY <1>1, RedBankAssumptions, TotalDebit
<1> HIDE DEF debited
<1>3. /\ ledger \in [Addresses -> Nat]
      /\ Total(ledger, Addresses) = Total(debited, Addresses) + amount
  <2>1. IsFiniteSet(Addresses)
    BY RedBankAssumptions
  <2>2. debited \in [Addresses -> Nat]
    BY <1>2
  <2>3. /\ Credit(debited, recipient, amount) \in [Addresses -> Nat]
        /\ Total(Credit(debited, recipient, amount), Addresses) = Total(debited, Addresses) + amount
    BY ONLY <2>1, <2>2, recipient \in Addresses, amount \in Nat, TotalCredit
  <2> QED
    BY <2>3
<1>4. Total(maTokens[b], Addresses) \in Nat
  BY <1>1, RedBankAssumptions, TotalType
<1> HIDE DEF ledger
<1>5. maTokens'[b] = ledger /\ \A a \in Assets \ {b} : maTokens'[a] = maTokens[a]
  BY <1>1 DEF TypeInv, TypeOK
<1>6. \A a \in Assets : Total(maTokens'[a], Addresses) = Total(maTokens[a], Addresses)
  BY <1>2, <1>3, <1>4, <1>5
<1>7. \A a \in Assets : RunsOn(a)
  BY <1>1 DEF RunsOn
<1> QED
  BY <1>1, <1>6, <1>7, UntouchedLosesNothing DEF QueryMarketsList

\* What a liquidation does to the ledger of the collateral: a transfer leaves its
\* total, a burn takes what was seized.
LEMMA SeizedTotal ==
  ASSUME NEW ledger \in [Addresses -> Nat], NEW u \in Addresses, NEW liquidator \in Addresses,
         NEW seized \in Nat, seized <= ledger[u]
  PROVE  /\ Debit(ledger, u, seized) \in [Addresses -> Nat]
         /\ Debit(ledger, u, seized)[u] = ledger[u] - seized
         /\ Credit(Debit(ledger, u, seized), liquidator, seized) \in [Addresses -> Nat]
         /\ Total(Debit(ledger, u, seized), Addresses) = Total(ledger, Addresses) - seized
         /\ Total(Credit(Debit(ledger, u, seized), liquidator, seized), Addresses) =
              Total(ledger, Addresses)
<1> DEFINE debited == Debit(ledger, u, seized)
           credited == Credit(debited, liquidator, seized)
<1>1. /\ debited \in [Addresses -> Nat]
      /\ Total(debited, Addresses) = Total(ledger, Addresses) - seized
  BY RedBankAssumptions, TotalDebit
<1>2. debited[u] = ledger[u] - seized
  BY DEF Debit
<1> HIDE DEF debited
<1>3. /\ credited \in [Addresses -> Nat]
      /\ Total(credited, Addresses) = Total(debited, Addresses) + seized
  BY <1>1, RedBankAssumptions, TotalCredit
<1>4. Total(ledger, Addresses) \in Nat
  BY RedBankAssumptions, TotalType
<1> HIDE DEF credited
<1> QED
  BY <1>1, <1>2, <1>3, <1>4 DEF debited, credited

\* A liquidation takes no more from a debt than was repaid, and burns what claims
\* as much as is paid out, up to the index.
LEMMA LiquidateLosesNothing ==
  ASSUME TypeInv, TypeInv', [Next]_vars, NEW u \in Users, NEW liquidator \in Addresses,
         NEW c \in Assets, NEW d \in Assets, NEW sent \in Nat, NEW receiveMaToken \in BOOLEAN,
         Liquidate(liquidator, u, c, d, sent, receiveMaToken)
  PROVE  \A a \in QueryMarketsList : NothingLost(a)
<1> DEFINE collMarket == markets[c]
           debtMarket == markets[d]
           balance == UnderlyingLiquidity(maTokens[c][u], collMarket)
           amounts == LiquidationAmounts(u, c, d, sent)
           repay == amounts.repay
           seize == amounts.seize
           seized == ScaledLiquidity(seize, collMarket)
           debt == debts[d][u]
           owed == UnderlyingDebt(debt, debtMarket)
           after == ScaledDebt(owed - repay, debtMarket)
           debtTotal == debtMarket.debt_total_scaled - (debt - after)
           paidOut == IF receiveMaToken THEN 0 ELSE seize
           burnt == IF receiveMaToken THEN 0 ELSE seized
           moved == IF receiveMaToken
                    THEN Credit(Debit(maTokens[c], u, seized), liquidator, seized)
                    ELSE Debit(maTokens[c], u, seized)
           cashAfter == [a \in Assets |-> cash[a]
                           + (IF a = d THEN repay ELSE 0)
                           - (IF a = c THEN paidOut ELSE 0)]
           refreshed == {d} \cup (IF receiveMaToken THEN {} ELSE {c})
           totalOf(a) == IF a = d THEN debtTotal ELSE markets[a].debt_total_scaled
           ledgerOf(a) == IF a = c THEN moved ELSE maTokens[a]
           lost == DebtLoss(debt, after)
<1>1. /\ Listed(c) /\ Listed(d) /\ ~Healthy(u) /\ now' = now /\ u \in Addresses
      /\ MarketInv(collMarket) /\ MarketInv(debtMarket) /\ now \in Nat
      /\ debt \in Nat /\ maTokens[c] \in [Addresses -> Nat] /\ maTokens[c][u] \in Nat
      /\ debtMarket.debt_total_scaled \in Nat
  <2>1. now' = now /\ Liquidatable(u, c, d)
    BY DEF Liquidate
  <2>2. Listed(c) /\ Listed(d) /\ ~Healthy(u)
    BY <2>1 DEF Liquidatable
  <2>3. MarketInv(collMarket) /\ MarketInv(debtMarket)
    BY <2>2 DEF TypeInv
  <2>4. debtMarket.debt_total_scaled \in Nat
    BY <2>3 DEF MarketInv, SoundMarket, Markets
  <2>5. /\ u \in Addresses /\ now \in Nat
        /\ debts \in [Assets -> [Addresses -> Nat]] /\ maTokens \in [Assets -> [Addresses -> Nat]]
    BY DEF Users, TypeInv, TypeOK
  <2> QED
    BY <2>1, <2>2, <2>3, <2>4, <2>5
<1>2. repay \in Nat /\ seize \in Nat
  BY <1>1, LiquidationAmountsType
<1>3. owed \in Nat
  BY <1>1, ScalingType
<1>4. /\ repay <= SmallerOf(sent, owed)
      /\ seized > 0 /\ seized <= maTokens[c][u]
      /\ after <= debt
      /\ debts' = [debts EXCEPT ![d][u] = after]
      /\ \A a \in refreshed : CanRefresh(markets[a]) /\ cashAfter[a] >= 0
      /\ markets' = [a \in Assets |->
           IF a \in refreshed
           THEN Refresh(markets[a], totalOf(a), cashAfter[a])
           ELSE markets[a]]
      /\ maTokens' = [a \in Assets |->
           IF a \in refreshed THEN WithRewards(ledgerOf(a), markets[a]) ELSE ledgerOf(a)]
      /\ cash' = cashAfter
  BY Zenon DEF Liquidate
<1> HIDE DEF amounts
<1>5. repay <= owed
  BY <1>2, <1>3, <1>4 DEF SmallerOf
<1>6. /\ after \in Nat /\ lost \in Nat
      /\ 0 <= repay * ScalingFactor * One + (after - debt) * BorrowIndex(debtMarket) + lost
  BY <1>1, <1>2, <1>4, <1>5, RepaidIsCovered
<1> DEFINE index == LiquidityIndex(collMarket)
<1>7. /\ seized \in Nat /\ index \in Nat \ {0}
      /\ seize * ScalingFactor * One <= seized * index + (index - 1)
  BY <1>1, <1>2, ScaledDepositClaims
<1> HIDE DEF seized, owed, repay, seize
<1>8. debts'[d][u] = after
  BY <1>4 DEF TypeInv, TypeOK
<1> HIDE DEF after, lost
<1>9. /\ moved \in [Addresses -> Nat]
      /\ Total(moved, Addresses) = Total(maTokens[c], Addresses) - burnt
      /\ ~receiveMaToken => moved[u] < maTokens[c][u]
  <2>1. /\ Debit(maTokens[c], u, seized) \in [Addresses -> Nat]
        /\ Debit(maTokens[c], u, seized)[u] = maTokens[c][u] - seized
        /\ Credit(Debit(maTokens[c], u, seized), liquidator, seized) \in [Addresses -> Nat]
        /\ Total(Debit(maTokens[c], u, seized), Addresses) =
             Total(maTokens[c], Addresses) - seized
        /\ Total(Credit(Debit(maTokens[c], u, seized), liquidator, seized), Addresses) =
             Total(maTokens[c], Addresses)
    BY <1>1, <1>4, <1>7, SeizedTotal
  <2>2. Total(maTokens[c], Addresses) \in Nat
    BY <1>1, RedBankAssumptions, TotalType
  <2>3. CASE receiveMaToken
    BY <2>1, <2>2, <2>3
  <2>4. CASE ~receiveMaToken
    BY <1>1, <1>4, <1>7, <2>1, <2>4
  <2> QED
    BY <2>3, <2>4
<1> HIDE DEF moved
<1> DEFINE gainOf(a) == (IF a = d THEN repay ELSE 0) + (IF a = c THEN 0 - paidOut ELSE 0)
           lentOf(a) == IF a = d THEN after - debt ELSE 0
           mintedOf(a) == IF a = c THEN 0 - burnt ELSE 0
           cutOf(a) == IF a = c /\ ~receiveMaToken THEN index - 1 ELSE 0
           lostOf(a) == (IF a = d THEN lost ELSE 0) + cutOf(a)
<1>10. /\ paidOut \in Nat /\ burnt \in Nat
       /\ \A a \in Assets : gainOf(a) \in Int /\ lentOf(a) \in Int /\ mintedOf(a) \in Int
                             /\ cutOf(a) \in Nat /\ lostOf(a) \in Int
  BY <1>1, <1>2, <1>6, <1>7
\* what is claimed less is paid out, and what is owed less was repaid
<1>11. ASSUME NEW a \in Assets, Listed(a)
       PROVE  mintedOf(a) * LiquidityIndex(markets[a]) <=
                gainOf(a) * ScalingFactor * One + lentOf(a) * BorrowIndex(markets[a])
                  + lostOf(a)
  <2> DEFINE l == LiquidityIndex(markets[a])
             b == BorrowIndex(markets[a])
             in == IF a = d THEN repay ELSE 0
             out == IF a = c THEN paidOut ELSE 0
             fromDebt == IF a = d THEN lost ELSE 0
  <2>1. l \in Nat /\ b \in Nat /\ ScalingFactor \in Nat /\ One \in Nat
    BY <1>11, NetType, RedBankAssumptions, OneAssumption
  <2>2. 0 <= in * ScalingFactor * One + lentOf(a) * b + fromDebt
    <3>1. CASE a = d
      BY <1>6, <3>1
    <3>2. CASE a # d
      BY <2>1, <3>2
    <3> QED
      BY <3>1, <3>2
  <2>3. mintedOf(a) * l <= cutOf(a) - out * ScalingFactor * One
    <3>1. CASE a = c /\ ~receiveMaToken
      <4>1. mintedOf(a) = 0 - seized /\ out = seize /\ cutOf(a) = index - 1 /\ l = index
        BY <1>7, <3>1
      <4>2. seize * ScalingFactor * One \in Nat /\ seized * index \in Nat
        BY <1>2, <1>7, <2>1, ProductType
      <4>3. (0 - seized) * index = 0 - (seized * index)
        BY <1>7
      <4>4. (0 - seized) * index <= (index - 1) - seize * ScalingFactor * One
        <5> HIDE DEF index
        <5> QED
          BY <1>7, <4>2, <4>3
      <4> QED
        BY <4>1, <4>4
    <3>2. CASE ~(a = c /\ ~receiveMaToken)
      <4>1. mintedOf(a) = 0 /\ out = 0 /\ cutOf(a) = 0
        <5>1. CASE a = c
          <6>1. paidOut = 0 /\ burnt = 0
            BY <3>2, <5>1
          <6> QED
            BY <3>2, <5>1, <6>1
        <5>2. CASE a # c
          BY <5>2
        <5> QED
          BY <5>1, <5>2
      <4>2. 0 * l <= 0 - 0 * ScalingFactor * One
        BY <2>1
      <4> QED
        BY <4>1, <4>2
    <3> QED
      BY <3>1, <3>2
  <2>4. in \in Nat /\ out \in Nat /\ fromDebt \in Nat /\ gainOf(a) = in - out
        /\ lostOf(a) = fromDebt + cutOf(a)
    BY <1>2, <1>6, <1>10
  <2>5. lentOf(a) \in Int /\ mintedOf(a) \in Int /\ cutOf(a) \in Nat
    BY <1>10
  <2> HIDE DEF in, out, fromDebt, gainOf, lentOf, mintedOf, cutOf, lostOf, l, b
  <2>6. gainOf(a) * ScalingFactor * One = in * ScalingFactor * One - out * ScalingFactor * One
    BY <2>1, <2>4
  <2>7. /\ in * ScalingFactor * One \in Nat /\ out * ScalingFactor * One \in Nat
        /\ lentOf(a) * b \in Int /\ mintedOf(a) * l \in Int
    BY <2>1, <2>4, <2>5
  <2>8. mintedOf(a) * l <= gainOf(a) * ScalingFactor * One + lentOf(a) * b + lostOf(a)
    BY <2>2, <2>3, <2>4, <2>5, <2>6, <2>7
  <2> QED
    BY <2>8 DEF l, b
\* the roundings are those the property allows
<1>12. ASSUME NEW a \in Assets, Listed(a)
       PROVE  lostOf(a) <= LostInRounding(a)
  <2>1. LostInRounding(a) \in Nat
    BY <1>12, NetType
  <2>2. /\ DebtLoss(debts[a][u], debts'[a][u]) <= LostInRounding(a)
        /\ (maTokens'[a][u] < maTokens[a][u] /\ ~Healthy(u)) =>
             DebtLoss(debts[a][u], debts'[a][u]) + (LiquidityIndex(markets[a]) - 1)
               <= LostInRounding(a)
    BY <1>12, LostAtLeast
  <2>3. DebtLoss(debts[a][u], debts'[a][u]) = IF a = d THEN lost ELSE 0
    <3>1. CASE a = d
      BY <1>8, <3>1 DEF lost
    <3>2. CASE a # d
      <4>1. debts'[a][u] = debts[a][u] /\ debts[a][u] \in Nat
        BY <1>1, <1>4, <3>2 DEF TypeInv, TypeOK
      <4> QED
        BY <3>2, <4>1 DEF DebtLoss
    <3> QED
      BY <3>1, <3>2
  <2>4. CASE a = c /\ ~receiveMaToken
    <3>1. maTokens'[a] = WithRewards(moved, markets[a])
      BY <1>4, <2>4
    <3>2. u \in Addresses \ {Collector}
      BY DEF Users
    <3>3. maTokens'[a][u] = moved[u]
      BY <1>1, <1>9, <2>4, <3>1, <3>2, WithRewardsType
    <3>4. maTokens'[a][u] < maTokens[a][u]
      BY <1>9, <2>4, <3>3
    <3>5. lostOf(a) = DebtLoss(debts[a][u], debts'[a][u]) + (LiquidityIndex(markets[a]) - 1)
      BY <2>3, <2>4
    <3> QED
      BY <1>1, <2>2, <3>4, <3>5
  <2>5. CASE ~(a = c /\ ~receiveMaToken)
    <3>1. lostOf(a) = DebtLoss(debts[a][u], debts'[a][u])
      BY <1>6, <2>3, <2>5
    <3> QED
      BY <2>2, <3>1
  <2> QED
    BY <2>4, <2>5
<1>13. ASSUME NEW a \in Assets, Listed(a)
       PROVE  /\ cash'[a] = cash[a] + gainOf(a)
              /\ markets'[a].debt_total_scaled = markets[a].debt_total_scaled + lentOf(a)
  <2>1. cash[a] \in Nat /\ markets[a].debt_total_scaled \in Nat
    BY <1>13, NetType
  <2>2. cash'[a] = cash[a] + gainOf(a)
    BY <1>2, <1>4, <1>10, <2>1
  <2>3. CASE a # d /\ markets'[a] = markets[a]
    BY <2>1, <2>2, <2>3
  <2>4. CASE ~(a # d /\ markets'[a] = markets[a])
    <3>1. PICK rest \in Nat :
            /\ debts' = [debts EXCEPT ![d][u] = rest]
            /\ \A e \in Assets :
                 \/ e # d /\ markets'[e] = markets[e]
                 \/ /\ Listed(e)
                    /\ Refreshed(markets[e], markets'[e],
                         IF e = d THEN markets[d].debt_total_scaled - (debts[d][u] - rest)
                         ELSE markets[e].debt_total_scaled)
      BY <1>1, LiquidateStep
    <3>2. rest = after
      BY <1>1, <1>8, <3>1 DEF TypeInv, TypeOK
    <3>3. markets'[a].debt_total_scaled =
            IF a = d THEN markets[d].debt_total_scaled - (debt - after)
            ELSE markets[a].debt_total_scaled
      BY <2>4, <3>1, <3>2 DEF Refreshed
    <3> QED
      BY <1>1, <1>6, <2>1, <2>2, <3>3
  <2> QED
    BY <2>3, <2>4
<1>14. ASSUME NEW a \in Assets, Listed(a)
       PROVE  Claims(a)' = Claims(a) + mintedOf(a)
  <2>1. /\ ledgerOf(a) \in [Addresses -> Nat] /\ maTokens[a] \in [Addresses -> Nat]
        /\ Total(ledgerOf(a), Addresses) = Total(maTokens[a], Addresses) + mintedOf(a)
        /\ Total(maTokens[a], Addresses) \in Nat /\ RewardsMint(markets[a]) \in Nat
        /\ MarketInv(markets[a])
    BY <1>9, <1>10, <1>14, NetType
  <2>2. CASE a \in refreshed
    <3>1. maTokens'[a] = WithRewards(ledgerOf(a), markets[a])
      BY <1>4, <2>2
    <3>2. Total(maTokens'[a], Addresses) = Total(ledgerOf(a), Addresses) + RewardsMint(markets[a])
      <4> HIDE DEF ledgerOf
      <4> QED
        BY <1>1, <2>1, <3>1, RewardedTotal
    <3>3. Listed(a)' /\ markets'[a].indexes_last_updated = now
      <4>1. markets'[a] = Refresh(markets[a], totalOf(a), cashAfter[a])
        BY <1>4, <2>2
      <4>2. totalOf(a) \in Nat /\ cashAfter[a] \in Nat /\ markets[a].reserve_factor <= One
        <5>1. markets'[a].debt_total_scaled = markets[a].debt_total_scaled + lentOf(a)
              /\ cash'[a] = cash[a] + gainOf(a)
          BY <1>13, <1>14
        <5>2. CanRefresh(markets[a])
          BY <1>4, <2>2
        <5>3. cashAfter[a] \in Nat
          BY <1>4 DEF TypeInv, TypeOK
        <5>4. totalOf(a) \in Nat
          <6>1. PICK rest \in Nat :
                  /\ debts[d][u] - rest <= markets[d].debt_total_scaled
                  /\ debts' = [debts EXCEPT ![d][u] = rest]
            BY <1>1, LiquidateStep
          <6>2. rest = after
            BY <1>1, <1>8, <6>1 DEF TypeInv, TypeOK
          <6>3. markets[a].debt_total_scaled \in Nat
            BY <1>14, NetType
          <6> QED
            BY <1>1, <1>6, <6>1, <6>2, <6>3
        <5> QED
          BY <5>2, <5>3, <5>4 DEF CanRefresh
      <4> HIDE DEF totalOf, cashAfter
      <4>3. MarketInv(markets'[a]) /\ markets'[a].indexes_last_updated = now
        BY <1>1, <2>1, <4>1, <4>2, RefreshFacts
      <4> QED
        BY <4>3, RedBankAssumptions DEF Listed, MarketInv, SoundMarket
    <3>4. Claims(a)' = Total(maTokens'[a], Addresses)
      BY <1>1, <3>3, ClaimsMinted
    <3>5. Total(ledgerOf(a), Addresses) \in Nat /\ mintedOf(a) \in Int
      BY <1>10, <2>1, RewardedTotal, <1>1
    <3> HIDE DEF ledgerOf, mintedOf
    <3>6. Claims(a)' = Total(maTokens[a], Addresses) + mintedOf(a) + RewardsMint(markets[a])
      BY <2>1, <3>2, <3>4
    <3> QED
      BY <2>1, <3>5, <3>6 DEF Claims
  <2>3. CASE a \notin refreshed
    <3>1. maTokens'[a] = ledgerOf(a) /\ markets'[a] = markets[a]
      BY <1>4, <2>3
    <3>2. mintedOf(a) = 0
      <4>1. a = c => burnt = 0
        BY <2>3
      <4> QED
        BY <4>1
    <3>3. Total(maTokens'[a], Addresses) = Total(maTokens[a], Addresses)
      BY <2>1, <3>1, <3>2
    <3>4. RunsOn(a)
      BY <3>1 DEF RunsOn
    <3>5. Claims(a)' = Claims(a)
      BY <1>1, <3>3, <3>4, SameClaims
    <3>6. Claims(a) \in Nat
      BY <1>14, NetType
    <3> QED
      BY <3>2, <3>5, <3>6
  <2> QED
    BY <2>2, <2>3
<1>15. ASSUME NEW a \in Assets, Listed(a)
       PROVE  NothingLost(a)
  <2>1. /\ gainOf(a) \in Int /\ lentOf(a) \in Int /\ mintedOf(a) \in Int /\ lostOf(a) \in Int
    BY <1>10
  <2>2. /\ cash'[a] = cash[a] + gainOf(a)
        /\ markets'[a].debt_total_scaled = markets[a].debt_total_scaled + lentOf(a)
        /\ Claims(a)' = Claims(a) + mintedOf(a)
        /\ mintedOf(a) * LiquidityIndex(markets[a]) <=
             gainOf(a) * ScalingFactor * One + lentOf(a) * BorrowIndex(markets[a]) + lostOf(a)
        /\ lostOf(a) <= LostInRounding(a)
    BY <1>11, <1>12, <1>13, <1>14, <1>15
  <2> HIDE DEF gainOf, lentOf, mintedOf, lostOf
  <2> QED
    BY <1>1, <1>15, <2>1, <2>2, NothingLostBy
<1> QED
  BY <1>15 DEF QueryMarketsList

\* No step costs the depositors anything, within a block.
LEMMA NetStep ==
  ASSUME TypeInv, TypeInv', [Next]_vars, now' = now
  PROVE  \A a \in QueryMarketsList : NothingLost(a)
<1>1. Users \subseteq Addresses /\ Amounts \subseteq Nat
  BY RedBankAssumptions DEF Users
<1>2. ASSUME \A a \in QueryMarketsList : markets'[a] = markets[a],
             maTokens' = maTokens, cash' = cash
      PROVE  \A a \in QueryMarketsList : NothingLost(a)
  BY <1>2, UntouchedLosesNothing DEF QueryMarketsList, RunsOn
<1>3. ASSUME NEW b \in Assets, OwnerStep(b) \/ PriceChange(b)
      PROVE  \A a \in QueryMarketsList : NothingLost(a)
  <2>1. CASE UpdateAsset(b)
    BY <2>1, UpdateAssetLosesNothing
  <2>2. CASE InitAsset(b)
    <3>1. \A a \in QueryMarketsList : markets'[a] = markets[a]
      BY <2>2 DEF InitAsset, QueryMarketsList, TypeInv, TypeOK
    <3> QED
      BY <1>2, <2>2, <3>1 DEF InitAsset
  <2>3. CASE PriceChange(b) \/ \E u \in Users : UpdateUncollateralizedLoanLimit(u, b)
    BY <1>2, <2>3 DEF PriceChange, UpdateUncollateralizedLoanLimit
  <2> QED
    BY <1>3, <2>1, <2>2, <2>3 DEF OwnerStep
<1>4. ASSUME NEW b \in Assets, UserStep(b)
      PROVE  \A a \in QueryMarketsList : NothingLost(a)
  <2>1. ASSUME NEW u \in Users, NEW amount \in Amounts, ReceiveStep(u, b, amount)
        PROVE  \A a \in QueryMarketsList : NothingLost(a)
    <3>1. CASE Deposit(u, b, amount)
      BY <1>1, <3>1, DepositLosesNothing
    <3>2. ASSUME NEW sender \in Users, Repay(sender, u, b, amount)
          PROVE  \A a \in QueryMarketsList : NothingLost(a)
      BY <1>1, <3>2, RepayLosesNothing
    <3>3. ASSUME NEW liquidator \in Users, NEW c \in Assets, NEW receiveMaToken \in BOOLEAN,
                 Liquidate(liquidator, u, c, b, amount, receiveMaToken)
          PROVE  \A a \in QueryMarketsList : NothingLost(a)
      BY <1>1, <3>3, LiquidateLosesNothing
    <3> QED
      BY <2>1, <3>1, <3>2, <3>3 DEF ReceiveStep
  <2>2. ASSUME NEW u \in Users, NEW amount \in Amounts, Borrow(u, b, amount)
        PROVE  \A a \in QueryMarketsList : NothingLost(a)
    BY <1>1, <2>2, BorrowLosesNothing
  <2>3. ASSUME NEW u \in Users, NEW amount \in Amounts, NEW recipient \in Addresses,
               TransferMaToken(u, recipient, b, amount)
        PROVE  \A a \in QueryMarketsList : NothingLost(a)
    BY <1>1, <2>3, TransferLosesNothing
  <2>4. ASSUME NEW u \in Addresses, NEW amount \in WithdrawAmounts(u, b),
               Withdraw(u, b, amount)
        PROVE  \A a \in QueryMarketsList : NothingLost(a)
    BY <2>4, WithdrawAmountsType, WithdrawLosesNothing
  <2>5. ASSUME NEW u \in Users, UpdateAssetCollateralStatus(u, b)
        PROVE  \A a \in QueryMarketsList : NothingLost(a)
    BY <1>2, <2>5 DEF UpdateAssetCollateralStatus
  <2> QED
    BY <1>4, <2>1, <2>2, <2>3, <2>4, <2>5 DEF UserStep
<1>5. CASE UpdateConfig \/ Tick \/ UNCHANGED vars
  BY <1>2, <1>5 DEF UpdateConfig, Tick, vars
<1> QED
  BY <1>3, <1>4, <1>5 DEF Next

\* Whatever the rates, the indexes and the prices are, no transaction costs the
\* depositors of an asset anything but the roundings the property allows.
THEOREM DepositorsStayWhole == Spec => DepositorsLoseNothing
<1>1. TypeInv /\ TypeInv' /\ [Next]_vars =>
        [ now' = now => \A a \in QueryMarketsList :
            Backed(a) - Claimed(a) <= (Backed(a) - Claimed(a))' + LostInRounding(a) ]_vars
  BY NetStep DEF NothingLost
<1> QED
  BY <1>1, TypeCorrect, PTL DEF Spec, DepositorsLoseNothing

=============================================================================

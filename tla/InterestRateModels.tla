------------------------- MODULE InterestRateModels -------------------------
(***************************************************************************)
(* The two interest rate models of a red bank market and the rates they    *)
(* give it.  A model is a record: kind, params and, for the dynamic one,   *)
(* the count of updates it skipped and the time of the last it made.       *)
(***************************************************************************)
EXTENDS FixedPoint

LinearModels ==
  [kind   : {"linear"},
   params : [optimal_utilization_rate : Nat, base : Nat, slope_1 : Nat, slope_2 : Nat]]
DynamicModels ==
  [kind   : {"dynamic"},
   params : [min_borrow_rate : Nat, max_borrow_rate : Nat, kp_1 : Nat, kp_2 : Nat,
             optimal_utilization_rate : Nat, kp_augmentation_threshold : Nat,
             update_threshold_txs : Nat, update_threshold_seconds : Nat],
   txs_since_last_borrow_rate_update : Nat,
   borrow_rate_last_updated : Nat]
Models == LinearModels \cup DynamicModels

\* InterestRateModelParams::validate
ValidLinear(params) == params.optimal_utilization_rate <= One
ValidDynamic(params) ==
  /\ params.min_borrow_rate <= params.max_borrow_rate
  /\ params.optimal_utilization_rate <= One
ValidModel(model) ==
  /\ model.kind = "linear" => ValidLinear(model.params)
  /\ model.kind = "dynamic" => ValidDynamic(model.params)

\* The rate grows slowly up to the optimal utilization and sharply beyond it.
LinearGetBorrowRate(params, utilization) ==
  LET optimal == params.optimal_utilization_rate
  IN  IF utilization = 0 THEN params.base
      ELSE IF utilization <= optimal
           THEN params.base + Mul(params.slope_1, Div(utilization, optimal))
           ELSE params.base + params.slope_1
                  + Div(Mul(params.slope_2, utilization - optimal), One - optimal)

\* A proportional controller moves the rate against the utilization's error,
\* within the bounds of the model.
DynamicGetBorrowRate(params, utilization, rate) ==
  LET optimal == params.optimal_utilization_rate
      error   == IF optimal > utilization THEN optimal - utilization
                                          ELSE utilization - optimal
      p       == Mul(IF error >= params.kp_augmentation_threshold
                     THEN params.kp_2 ELSE params.kp_1, error)
      moved   == IF optimal <= utilization THEN rate + p
                 ELSE IF rate > p THEN rate - p ELSE 0
  IN  IF moved < params.min_borrow_rate THEN params.min_borrow_rate
      ELSE SmallerOf(moved, params.max_borrow_rate)

\* A variant of ShouldUpdateBorrowRate that a run refutes: any number of moves
\* in one block.
ShouldUpdateAnyTime(model, time) ==
  \/ model.txs_since_last_borrow_rate_update + 1 >= model.params.update_threshold_txs
  \/ time - model.borrow_rate_last_updated >= model.params.update_threshold_seconds

\* The dynamic model moves at most once per block, after enough transactions
\* or enough time.
ShouldUpdateBorrowRate(model, time) ==
  LET elapsed == time - model.borrow_rate_last_updated
  IN  /\ \/ model.txs_since_last_borrow_rate_update + 1 >= model.params.update_threshold_txs
         \/ elapsed >= model.params.update_threshold_seconds
      /\ elapsed # 0

\* The part of the borrowers' interest that the depositors earn.
GetLiquidityRate(borrowRate, utilization, reserveFactor) ==
  Mul(Mul(borrowRate, utilization), One - reserveFactor)

\* The market with its borrow rate, the state of its model and its liquidity
\* rate brought up to date.
UpdateMarketInterestRatesWithModel(m, utilization, time) ==
  LET model   == m.interest_rate_model
      moves   == model.kind = "linear" \/ ShouldUpdateBorrowRate(model, time)
      newRate == IF model.kind = "linear"
                 THEN LinearGetBorrowRate(model.params, utilization)
                 ELSE IF moves
                      THEN DynamicGetBorrowRate(model.params, utilization, m.borrow_rate)
                      ELSE m.borrow_rate
      newModel == IF model.kind = "linear" THEN model
                  ELSE [model EXCEPT
                          !.txs_since_last_borrow_rate_update = IF moves THEN 0 ELSE @ + 1,
                          !.borrow_rate_last_updated = IF moves THEN time ELSE @]
  IN  [m EXCEPT !.borrow_rate = newRate,
                !.interest_rate_model = newModel,
                !.liquidity_rate =
                    GetLiquidityRate(newRate, utilization, m.reserve_factor)]

=============================================================================

-------------------------- MODULE MCRedBankInterest --------------------------
(***************************************************************************)
(* A red bank with one asset that earns interest: how the indexes, the     *)
(* roundings and the protocol rewards add up over time.                    *)
(***************************************************************************)
EXTENDS RedBank

CONSTANTS alice, bob, collector, ust

Linear ==
  [kind |-> "linear",
   params |-> [optimal_utilization_rate |-> 5, base |-> 1, slope_1 |-> 2, slope_2 |-> 3]]

Dynamic ==
  [kind |-> "dynamic",
   txs_since_last_borrow_rate_update |-> 0, borrow_rate_last_updated |-> 0,
   params |-> [min_borrow_rate |-> 1, max_borrow_rate |-> 8, kp_1 |-> 5, kp_2 |-> 10,
               optimal_utilization_rate |-> 5, kp_augmentation_threshold |-> 3,
               update_threshold_txs |-> 2, update_threshold_seconds |-> 2]]

Terms(model, reserveFactor, enabled) ==
  [max_loan_to_value |-> 5, liquidation_threshold |-> 7, liquidation_bonus |-> 1,
   reserve_factor |-> reserveFactor, interest_rate_model |-> model,
   active |-> TRUE, deposit_enabled |-> enabled, borrow_enabled |-> enabled,
   initial_borrow_rate |-> 2]

MCAddresses == {alice, bob, collector}
MCAssets == {ust}
LinearParams == [a \in MCAssets |-> {Terms(Linear, 5, TRUE)}]
DynamicParams == [a \in MCAssets |-> {Terms(Dynamic, 5, TRUE), Terms(Dynamic, 2, FALSE)}]
MCPrices == [a \in MCAssets |-> {10}]

-----------------------------------------------------------------------------
VARIABLE liquidated   \* history: whether maTokens were ever liquidated

MCInit == Init /\ liquidated = FALSE

Liquidates ==
  \E a \in Assets, u \in Users :
    maTokens'[a][u] < maTokens[a][u] /\ ~QueryUserPosition(u).healthy

MCNext ==
  \/ \E a \in Assets : UserStep(a) /\ liquidated' = (liquidated \/ Liquidates)
  \/ \E a \in Assets : OwnerStep(a) /\ UNCHANGED liquidated
  \/ \E a \in Assets : PriceChange(a) /\ UNCHANGED liquidated
  \/ UpdateConfig /\ UNCHANGED liquidated
  \/ Tick /\ UNCHANGED liquidated

MCSpec == MCInit /\ [][MCNext]_<<vars, liquidated>>

\* Until the first liquidation, whose burn is truncated, the red bank can meet the
\* depositors: no roundings of deposits, withdrawals, loans, repayments, rewards and
\* refreshes at other indexes add up against them.
SolventUntilLiquidated == ~liquidated => Solvent

=============================================================================

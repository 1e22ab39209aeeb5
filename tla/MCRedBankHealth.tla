--------------------------- MODULE MCRedBankHealth ---------------------------
(***************************************************************************)
(* A red bank with two assets and linear rates in one block, in which no   *)
(* interest accrues: what happens to positions when prices move.  A unit   *)
(* of an asset is worth five or ten uusd.                                   *)
(***************************************************************************)
EXTENDS RedBank, TLC

CONSTANTS alice, bob, collector, luna, ust

Linear ==
  [kind |-> "linear",
   params |-> [optimal_utilization_rate |-> 8, base |-> 1, slope_1 |-> 2, slope_2 |-> 9]]

Terms(ltv, threshold, depositEnabled, borrowEnabled) ==
  [max_loan_to_value |-> ltv, liquidation_threshold |-> threshold,
   liquidation_bonus |-> 5, reserve_factor |-> 0, interest_rate_model |-> Linear,
   active |-> TRUE, deposit_enabled |-> depositEnabled, borrow_enabled |-> borrowEnabled,
   initial_borrow_rate |-> 0]

MCAddresses == {alice, bob, collector}
MCAssets == {luna, ust}
MCAssetParams ==
  [a \in MCAssets |-> {Terms(5, 7, TRUE, a = ust)}]
MCPrices == [a \in MCAssets |-> IF a = luna THEN {50, 100} ELSE {100}]
MCSymmetry == Permutations({alice, bob})

-----------------------------------------------------------------------------
\* The steps of one block: all but the passing of time.
NextInBlock ==
  \/ \E a \in Assets : OwnerStep(a) \/ UserStep(a) \/ PriceChange(a)
  \/ UpdateConfig

SpecInBlock == Init /\ [][NextInBlock]_vars

=============================================================================

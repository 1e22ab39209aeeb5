---------------------------- MODULE MCDeployment ----------------------------
(***************************************************************************)
(* Two markets, a token and uusd, and a script that is started up to three *)
(* times.                                                                  *)
(***************************************************************************)
EXTENDS Deployment

CONSTANTS mars, uusd

MCAssets == {mars, uusd}
MCParties == {"protocol_rewards_collector", "safety_fund", "treasury", "staking", "council",
              "guardian"}
MCFees ==
  {[safety_fund |-> 1, treasury |-> 2], [safety_fund |-> 5, treasury |-> 5],
   [safety_fund |-> 6, treasury |-> 5]}
MCAddressParams == {[treasury |-> "council"], [treasury |-> "treasury"]}
MCInitialAssets == <<uusd, mars>>
MCStrategies == <<"fields">>

=============================================================================

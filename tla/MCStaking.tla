----------------------------- MODULE MCStaking ------------------------------
(***************************************************************************)
(* A few holders, units of MARS and blocks: enough for two claims opened   *)
(* at different rates, slashes before, between and after them, and ratios  *)
(* that do not divide.                                                     *)
(***************************************************************************)
EXTENDS Staking, TLC

CONSTANTS alice, bob, staking

MCInitialBalances == [u \in {} |-> 0]

MCAccounts == {alice, bob, staking}

\* The snapshots decide nothing in the staking contract: states that differ in
\* them alone are one state here.
MCView == <<height, xmars, xmarsSupply, stakingVars, time, cooldown>>
MCSymmetry == Permutations({alice, bob})

=============================================================================

------------------------------ MODULE MCXMars -------------------------------
(***************************************************************************)
(* The xMARS token with two holders and the staking contract; alice lets   *)
(* bob spend her tokens.                                                   *)
(***************************************************************************)
EXTENDS XMarsToken

CONSTANTS alice, bob, staking

MCInitialBalances == [u \in {alice} |-> 1]

MCAccounts == {alice, bob, staking}
MCApprovals == {<<alice, bob>>}

=============================================================================

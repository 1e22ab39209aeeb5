---------------------------- MODULE MCIncentives ----------------------------
(***************************************************************************)
(* Two users of a maToken, with emissions that a supply of three does not  *)
(* divide.                                                                 *)
(***************************************************************************)
EXTENDS Incentives, TLC

CONSTANTS alice, bob, maluna

MCUsers == {alice, bob}
MCSymmetry == Permutations({alice, bob})

=============================================================================

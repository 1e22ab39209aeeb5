----------------------------- MODULE MCClosure ------------------------------
(***************************************************************************)
(* Three holders of a maToken, of whom a page of refunds takes two.        *)
(***************************************************************************)
EXTENDS Closure

CONSTANTS alice, bob, carol

MCHolders == {alice, bob, carol}
MCAddressOrder == <<alice, bob, carol>>
MCApprovals == {<<alice, bob>>}
MCFortune == [u \in MCHolders |-> IF u = alice THEN 3 ELSE 1]

=============================================================================

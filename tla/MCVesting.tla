----------------------------- MODULE MCVesting ------------------------------
(***************************************************************************)
(* Two users, a schedule with its cliff inside its duration and one with a *)
(* cliff beyond it, which the contract does not refuse.                    *)
(***************************************************************************)
EXTENDS Vesting, TLC

CONSTANTS alice, bob

MCAccounts == {alice, bob}
MCVestSchedules ==
  {[start_time |-> 0, cliff |-> 1, duration |-> 3],
   [start_time |-> 1, cliff |-> 2, duration |-> 0]}
MCUnlockSchedule == [start_time |-> 1, cliff |-> 1, duration |-> 3]
MCSymmetry == Permutations({alice, bob})

=============================================================================

---------------------------- MODULE VotingPower -----------------------------
(***************************************************************************)
(* What the council relies on: the accounts have a voting power that may   *)
(* change at any time within a block, and once the block is over, the      *)
(* power they had at its end is known for good.                            *)
(*                                                                         *)
(* The xMARS token and the vesting contract each implement this with their *)
(* snapshots; their histories answer for every block before the present.   *)
(***************************************************************************)
EXTENDS Integers, Sequences

CONSTANTS
  Powers,         \* the distributions of voting power: functions of accounts
  NoPower         \* the distribution before the first block

VARIABLES
  height,         \* the present block; the first is block 1
  power,          \* the voting power of the accounts now
  sealed          \* sealed[b]: their voting power at the end of the past block b

powerVars == <<height, power, sealed>>

PowerInit == height = 1 /\ power = NoPower /\ sealed = <<>>

\* Tokens are minted, burnt, transferred, locked or unlocked.
ChangePower == power' \in Powers /\ UNCHANGED <<height, sealed>>

\* The block ends.
SealBlock ==
  /\ height' = height + 1
  /\ sealed' = Append(sealed, power)
  /\ UNCHANGED power

PowerSpec == PowerInit /\ [][ChangePower \/ SealBlock]_powerVars

=============================================================================

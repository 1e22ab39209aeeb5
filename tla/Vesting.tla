------------------------------ MODULE Vesting -------------------------------
(***************************************************************************)
(* The vesting contract: MARS allocated to users, withdrawn as it vests    *)
(* and unlocks, and giving its owners a voting power while it is locked.   *)
(***************************************************************************)
EXTENDS Snapshots, LedgerSums, FixedPoint

CONSTANTS
  Accounts,          \* the users that may get an allocation
  Amounts,           \* the amounts the protocol admin may allocate
  VestSchedules,     \* the schedules it may give with them
  UnlockSchedule,    \* CONFIG.unlock_schedule, one for all users
  Ratios,            \* what the staking contract may answer as xMARS per MARS
  NoAllocation,      \* the absence of an allocation
  MaxMars,           \* the supply of MARS
  MaxHeight          \* bound: the last block

Schedules == [start_time : Nat, cliff : Nat, duration : Nat]
Allocations ==
  [allocated_amount : Nat, withdrawn_amount : Nat, vest_schedule : Schedules]

\* validate_unlock_schedule, at time zero
ValidUnlockSchedule(schedule) ==
  schedule.start_time > 0 /\ schedule.cliff > 0 /\ schedule.duration > schedule.cliff

ASSUME VestingAssumptions ==
  /\ IsFiniteSet(Accounts)
  /\ Amounts \subseteq Nat /\ MaxMars \in Nat /\ MaxHeight \in Nat
  /\ VestSchedules \subseteq Schedules
  /\ UnlockSchedule \in Schedules /\ ValidUnlockSchedule(UnlockSchedule)
  /\ Ratios \subseteq Nat /\ NoAllocation \notin Allocations

VARIABLES
  height,            \* the present block
  time,              \* the block time in seconds
  allocations,       \* ALLOCATIONS: the allocation of an account, or NoAllocation
  powerSnapshots,    \* VOTING_POWER_SNAPSHOTS, by account
  totalSnapshots,    \* TOTAL_VOTING_POWER_SNAPSHOTS
  mars,              \* the MARS the contract holds for its allocations
  xmarsPerMars       \* the ratio of the staking contract, one if undefined

vars == <<height, time, allocations, powerSnapshots, totalSnapshots, mars, xmarsPerMars>>

\* The part of an amount that has vested, or that is unlocked, by now.
Released(amount, schedule) ==
  CASE time < schedule.start_time + schedule.cliff -> 0
    [] /\ time >= schedule.start_time + schedule.cliff
       /\ time < schedule.start_time + schedule.duration ->
         (amount * (time - schedule.start_time)) \div schedule.duration
    [] OTHER -> amount

\* What a user may have withdrawn by now.
Releasable(allocation) ==
  SmallerOf(Released(allocation.allocated_amount, allocation.vest_schedule),
            Released(allocation.allocated_amount, UnlockSchedule))

\* For Withdrawable: what was withdrawn already is forgotten.
WithdrawableAgain(allocation) == Releasable(allocation)

\* compute_withdrawable_amount: what is released and not withdrawn yet.
Withdrawable(allocation) == Releasable(allocation) - allocation.withdrawn_amount

\* What the snapshots answer for a block.
VotingPowerAt(u, block) == ValueAt(powerSnapshots[u], block)
TotalVotingPowerAt(block) == ValueAt(totalSnapshots, block)

\* For CaptureTotal: the total is counted from the allocation alone.
CaptureTotalAnew(change) == totalSnapshots' = Captured(totalSnapshots, height, change)

CapturePower(u, amount) ==
  powerSnapshots' = [powerSnapshots EXCEPT ![u] = Captured(@, height, amount)]
CaptureTotal(change) ==
  totalSnapshots' = Captured(totalSnapshots, height, TotalVotingPowerAt(height) + change)

\* The protocol admin sends MARS for a user that has no allocation yet, while
\* the ratio of MARS to xMARS is one to one.
CreateAllocation(u, amount, schedule) ==
  /\ amount > 0 /\ mars + amount <= MaxMars
  /\ xmarsPerMars = One
  /\ allocations[u] = NoAllocation
  /\ allocations' = [allocations EXCEPT ![u] =
       [allocated_amount |-> amount, withdrawn_amount |-> 0, vest_schedule |-> schedule]]
  /\ CapturePower(u, amount)
  /\ CaptureTotal(amount)
  /\ mars' = mars + amount
  /\ UNCHANGED <<height, time, xmarsPerMars>>

\* A user withdraws what is released; the MARS token refuses to transfer nothing.
Withdraw(u) ==
  /\ allocations[u] # NoAllocation
  /\ LET withdrawable == Withdrawable(allocations[u])
     IN  /\ withdrawable > 0 /\ withdrawable <= mars
         /\ VotingPowerAt(u, height) >= withdrawable
         /\ TotalVotingPowerAt(height) >= withdrawable
         /\ allocations' = [allocations EXCEPT ![u].withdrawn_amount = @ + withdrawable]
         /\ CapturePower(u, VotingPowerAt(u, height) - withdrawable)
         /\ CaptureTotal(-withdrawable)
         /\ mars' = mars - withdrawable
  /\ UNCHANGED <<height, time, xmarsPerMars>>

\* Stakers gain or lose MARS.
RatioChange ==
  /\ xmarsPerMars' \in Ratios
  /\ UNCHANGED <<height, time, allocations, powerSnapshots, totalSnapshots, mars>>

BlockPasses ==
  /\ height < MaxHeight
  /\ height' = height + 1
  /\ time' \in {time, time + 1}
  /\ UNCHANGED <<allocations, powerSnapshots, totalSnapshots, mars, xmarsPerMars>>

Init ==
  /\ height = 1
  /\ time = 0
  /\ allocations = [u \in Accounts |-> NoAllocation]
  /\ powerSnapshots = [u \in Accounts |-> NoHistory]
  /\ totalSnapshots = NoHistory
  /\ mars = 0
  /\ xmarsPerMars \in Ratios

\* The messages the contract takes.
VestingStep(u) ==
  \/ \E amount \in Amounts, schedule \in VestSchedules : CreateAllocation(u, amount, schedule)
  \/ Withdraw(u)

Next ==
  \/ \E u \in Accounts : VestingStep(u)
  \/ RatioChange
  \/ BlockPasses

Spec == Init /\ [][Next]_vars

-----------------------------------------------------------------------------
(* What the contract answers when it is asked. *)

\* The accounts the contract answers an allocation for.
Allocated == {u \in Accounts : allocations[u] # NoAllocation}
QueryAllocation(u) == allocations[u]

\* QueryMsg: what may be asked.
Questions ==
  [ask : {"config"}]
  \cup [ask : {"allocation"}, user_address : Allocated]
  \cup [ask : {"voting_power_at"}, user_address : Accounts, block : Nat]
  \cup [ask : {"total_voting_power_at"}, block : Nat]

Answer(q) ==
  CASE q.ask = "config"                -> [unlock_schedule |-> UnlockSchedule]
    [] q.ask = "allocation"            -> QueryAllocation(q.user_address)
    [] q.ask = "voting_power_at"       -> VotingPowerAt(q.user_address, q.block)
    [] q.ask = "total_voting_power_at" -> TotalVotingPowerAt(q.block)

-----------------------------------------------------------------------------
(* Properties. *)

TypeOK ==
  /\ height \in Nat \ {0} /\ time \in Nat
  /\ allocations \in [Accounts -> Allocations \cup {NoAllocation}]
  /\ \A u \in Accounts : DOMAIN powerSnapshots[u] \subseteq 1 .. height
  /\ DOMAIN totalSnapshots \subseteq 1 .. height
  /\ mars \in 0 .. MaxMars

\* The MARS an account still has in the contract.
LockedOf(u) ==
  IF u \notin Allocated THEN 0
  ELSE QueryAllocation(u).allocated_amount - QueryAllocation(u).withdrawn_amount
Locked == [u \in Accounts |-> LockedOf(u)]
PowerAt(block) == [u \in Accounts |-> VotingPowerAt(u, block)]

\* The voting power is what is locked, and what is locked is there: the
\* snapshots, kept by adding and subtracting, agree with the allocations.
PowerIsLocked ==
  /\ PowerAt(height) = Locked
  /\ Total(Locked, Accounts) = mars

\* For every block, the voting powers remembered add up to the total remembered.
PowersAddUp ==
  \A block \in 0 .. height :
    Total(PowerAt(block), Accounts) = TotalVotingPowerAt(block)

\* A schedule never takes back what it released, as the unchecked arithmetic of
\* execute_withdraw expects: no user has withdrawn more than it may have.
ReleasesAreFinal ==
  \A u \in Allocated :
    QueryAllocation(u).withdrawn_amount <= Releasable(QueryAllocation(u))

\* What is locked is a voting power: the snapshots answer for a past block what
\* was locked when it ended.
Implemented == INSTANCE VotingPower WITH
  power <- Locked,
  sealed <- [block \in 1 .. height - 1 |-> PowerAt(block)],
  Powers <- [Accounts -> 0 .. MaxMars],
  NoPower <- [u \in Accounts |-> 0]
VestingIsVotingPower == Implemented!PowerSpec

=============================================================================

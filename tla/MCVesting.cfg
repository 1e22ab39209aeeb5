CONSTANTS
  alice = alice
  bob = bob
  NoAllocation = NoAllocation
  One = 10
  Accounts <- MCAccounts
  Amounts = {1, 4}
  VestSchedules <- MCVestSchedules
  UnlockSchedule <- MCUnlockSchedule
  Ratios = {9, 10}
  MaxMars = 5
  MaxHeight = 6
SYMMETRY MCSymmetry
SPECIFICATION Spec
INVARIANTS
  PowerIsLocked
  PowersAddUp
  ReleasesAreFinal
PROPERTIES
  VestingIsVotingPower
CHECK_DEADLOCK FALSE

CONSTANTS
  alice = alice
  bob = bob
  staking = staking
  Never = Never
  Accounts <- MCAccounts
  StakingContract = staking
  InitialBalances <- MCInitialBalances
  Amounts = {1, 2}
  Approvals <- MCApprovals
  Expirations = {2}
  MaxCredit = 2
  MaxXMars = 2
  MaxHeight = 3
SPECIFICATION TokenSpec
INVARIANTS
  SnapshotsAddUp
  SpentWithinGrants
PROPERTIES
  XMarsIsVotingPower
CHECK_DEADLOCK FALSE

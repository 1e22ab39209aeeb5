CONSTANTS
  alice = alice
  bob = bob
  staking = staking
  NoClaim = NoClaim
  One = 10
  Accounts <- MCAccounts
  StakingContract = staking
  InitialBalances <- MCInitialBalances
  Amounts = {1, 3}
  Cooldowns = {1}
  MaxMars = 4
  MaxXMars = 3
  MaxHeight = 2
VIEW MCView
SYMMETRY MCSymmetry
SPECIFICATION Spec
INVARIANTS
  ReservesAreHeld
  ClaimsAreReserved
PROPERTIES
  HoldersAreNotDiluted
  SlashIsProportional
CHECK_DEADLOCK FALSE

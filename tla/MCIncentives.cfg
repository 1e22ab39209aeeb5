CONSTANTS
  alice = alice
  bob = bob
  maluna = maluna
  NoIncentive = NoIncentive
  One = 10
  Users <- MCUsers
  MaTokens = {maluna}
  Amounts = {1, 2}
  Emissions = {1, 4}
  MaxSupply = 3
  MaxMars = 2
  MaxTime = 3
SYMMETRY MCSymmetry
SPECIFICATION Spec
PROPERTIES
  RewardsMoveOnlyWithTime
  EmissionIsShared
CHECK_DEADLOCK FALSE

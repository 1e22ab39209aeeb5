CONSTANTS
  alice = alice
  bob = bob
  carol = carol
  Never = Never
  One = 10
  TaxRate = 0
  TaxCap = 0
  Sums = {1, 2}
  Fortune <- MCFortune
  NativeAsset = FALSE
  Holders <- MCHolders
  AddressOrder <- MCAddressOrder
  MaApprovals <- MCApprovals
  PageLimit = 2
  MaxSupply = 4
SPECIFICATION ClosureSpec
PROPERTIES
  EveryoneIsRefunded
CHECK_DEADLOCK FALSE

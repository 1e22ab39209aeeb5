CONSTANTS
  alice = alice
  bob = bob
  carol = carol
  Never = Never
  One = 10
  TaxRate = 5
  TaxCap = 1
  Sums = {1, 2}
  Fortune <- MCFortune
  NativeAsset = TRUE
  Holders <- MCHolders
  AddressOrder <- MCAddressOrder
  MaApprovals <- MCApprovals
  PageLimit = 2
  MaxSupply = 4
SPECIFICATION ClosureSpec
PROPERTIES
  RefundsAreFair
  WaitingIsSafe
  PageIsRefunded
CHECK_DEADLOCK FALSE

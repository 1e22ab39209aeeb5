CONSTANTS
  alice = alice
  bob = bob
  collector = collector
  luna = luna
  ust = ust
  NoMarket = NoMarket
  One = 10
  ScalingFactor = 1
  SecondsPerYear = 1
  Addresses <- MCAddresses
  Collector = collector
  Assets <- MCAssets
  AssetParams <- MCAssetParams
  CloseFactors = {5, 20}
  Limits = {0}
  Prices <- MCPrices
  Amounts = {2}
  MaxSupply = 4
  MaxCash = 4
  MaxTime = 0
  MaxTxs = 2
SYMMETRY MCSymmetry
SPECIFICATION SpecInBlock
INVARIANTS
  DebtIsFlagged
  HolderIsKnown
PROPERTIES
  UsersKeepPositionsHealthy
  LiquidationIsFair
CHECK_DEADLOCK FALSE

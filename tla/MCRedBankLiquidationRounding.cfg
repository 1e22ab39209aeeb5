CONSTANTS
  alice = alice
  bob = bob
  collector = collector
  ust = ust
  NoMarket = NoMarket
  One = 10
  ScalingFactor = 3
  SecondsPerYear = 1
  Addresses = {alice, collector}
  Collector = collector
  Assets <- MCAssets
  AssetParams <- LinearParams
  CloseFactors = {5}
  Limits = {0, 3}
  Prices <- MCPrices
  Amounts = {1, 3}
  MaxSupply = 6
  MaxCash = 3
  MaxTime = 3
  MaxTxs = 2
SPECIFICATION MCSpec
INVARIANTS
  Solvent
CHECK_DEADLOCK FALSE

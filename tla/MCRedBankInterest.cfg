CONSTANTS
  alice = alice
  bob = bob
  collector = collector
  ust = ust
  NoMarket = NoMarket
  One = 10
  ScalingFactor = 2
  SecondsPerYear = 1
  Addresses = {alice, collector}
  Collector = collector
  Assets <- MCAssets
  AssetParams <- DynamicParams
  CloseFactors = {5}
  Limits = {0, 2}
  Prices <- MCPrices
  Amounts = {1, 2}
  MaxSupply = 4
  MaxCash = 2
  MaxTime = 2
  MaxTxs = 2
SPECIFICATION MCSpec
INVARIANTS
  DebtTotalIsSum
  MarkerMatchesLimit
  CollateralIsHeld
  SolventUntilLiquidated
  DepositsEarnLess
PROPERTIES
  ValuesMoveOnlyWithTime
  RateMovesOncePerBlock
  AnswersAreKept
  DepositorsLoseNothing
CHECK_DEADLOCK FALSE

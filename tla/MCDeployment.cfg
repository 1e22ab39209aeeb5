CONSTANTS
  mars = mars
  uusd = uusd
  NoAddress = NoAddress
  One = 10
  TaxRate = 3
  TaxCap = 2
  Assets <- MCAssets
  Uusd = uusd
  Natives = {uusd}
  Parties <- MCParties
  Collector = "protocol_rewards_collector"
  Quantities = {7}
  FeeConfigs <- MCFees
  AddressParams <- MCAddressParams
  MaxUusd = 7
  InitialAssets <- MCInitialAssets
  Strategies <- MCStrategies
  IsTestnet = TRUE
  NextOwners = {"guardian"}
  MaxFunds = 14
  MaxRuns = 3
SPECIFICATION Spec
INVARIANTS
  DistributionFits
PROPERTIES
  HandedOver
  GetsDone
  RewardsAreShared
CHECK_DEADLOCK FALSE

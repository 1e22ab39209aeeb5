CONSTANTS
  mars = mars
  luna = luna
  stluna = stluna
  lp = lp
  ust = ust
  council = council
  NoSource = NoSource
  NoPrice = NoPrice
  One = 2
  Precision = 2
  Wrap = 13
  Owners = {council}
  Assets <- MCAssets
  Ust = ust
  Luna = luna
  Offered <- MCOffered
  Configured <- MCConfigured
  Pairs <- MCPairs
  Pools <- MCPools
  Rates <- MCRates
  LunaRates = {3}
  HubRates = {3}
  MaxTime = 6
SPECIFICATION Spec
INVARIANTS
  SnapshotsAreBounded
  AveragesWithinWindow
PROPERTIES
  RecordingKeepsAverages
CHECK_DEADLOCK FALSE

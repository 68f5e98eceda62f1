SPECIFICATION MCSpec
CONSTANTS
  v = v
  e = e
  m = m
  Stabilizers = {v, e, m}
  Accounts <- MCAccounts
  Treasury = Treasury
  Outside = Outside
  Unit = 2
  Scale = 1
  Precision = 10
  Day = 1
  DaysPerYear = 4
  AuctionStep = 1
  WriteOffLimit = 3
  InterestPrecision = 2
  Configs <- MCConfigs
  AssetOf <- MCAssetOf
  Waits = {0, 1}
  MaxClaim = 8
  AgentValues = {}
  MaxValue = 0
  AmountsOf <- MCAmounts
  SlippagesOf <- MCSlippages
  TokenPrices = {1, 2, 3, 8}
  UsdxPrices = {2}
  TargetPrices = {2}
  Accrued = {2}
  Cap = 2
  Junior = 2
  Pool = 4
  GovernanceOps = {}
  Bonus = 0
  MaxTime = 3
PROPERTIES
  NoFreeEquity
  DivestRaisesWhatIsAsked
  RedemptionLosesNothing
ACTION_CONSTRAINT
  MCScenarios
CHECK_DEADLOCK FALSE

SPECIFICATION Spec
CONSTANTS
  v = v
  e = e
  m = m
  Stabilizers = {e}
  Accounts <- MCAccounts
  Treasury = Treasury
  Outside = Outside
  Unit = 2
  Scale = 1
  Precision = 10
  Day = 1
  DaysPerYear = 4
  AuctionStep = 1
  WriteOffLimit = 3
  InterestPrecision = 2
  Configs <- MCOne
  AssetOf <- MCAssetOf
  Waits = {0, 1}
  MaxClaim = 8
  AgentValues = {}
  MaxValue = 0
  AmountsOf <- MCAmounts
  SlippagesOf <- MCSlippages
  TokenPrices = {2, 8}
  UsdxPrices = {2}
  TargetPrices = {2}
  Accrued = {2}
  Cap = 2
  Junior = 2
  Pool = 4
  GovernanceOps = {}
  Bonus = 0
  MaxTime = 3
PROPERTIES
  LiquidatorGetsAll
CHECK_DEADLOCK FALSE

SPECIFICATION Spec
CONSTANTS
  s1 = s1
  Stabilizers = {s1}
  Accounts <- MCAccounts
  Treasury = Treasury
  Outside = Outside
  Unit = 4
  Scale = 2
  Precision = 10
  Day = 1
  DaysPerYear = 4
  AuctionStep = 1
  WriteOffLimit = 3
  InterestPrecision = 2
  Configs <- MCOffChain
  AssetOf <- MCAssetOf
  AgentValues = {4}
  Waits = {0}
  MaxClaim = 0
  MaxValue = 4
  AmountsOf <- MCTwoAmounts
  SlippagesOf <- MCExact
  TokenPrices = {4}
  UsdxPrices = {4}
  TargetPrices = {4, 5}
  Accrued = {2}
  Cap = 16
  Junior = 2
  Pool = 4
  GovernanceOps = {"targetPrice"}
  Bonus = 0
  MaxTime = 2
PROPERTIES
  PaybackArrives
CHECK_DEADLOCK FALSE

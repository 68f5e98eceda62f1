SPECIFICATION Spec
CONSTANTS
  s1 = s1
  s2 = s2
  Stabilizers = {s1}
  Accounts <- MCAccounts
  Treasury = Treasury
  Outside = Outside
  Unit = 4
  Scale = 1
  Precision = 10
  Day = 2
  DaysPerYear = 4
  AuctionStep = 1
  WriteOffLimit = 3
  InterestPrecision = 2
  Configs <- MCCall
  AssetOf <- MCAssetOf
  AgentValues = {}
  Waits = {0}
  MaxClaim = 0
  MaxValue = 0
  AmountsOf <- MCTwoAmounts
  SlippagesOf <- MCExact
  TokenPrices = {1, 4}
  UsdxPrices = {4}
  TargetPrices = {4}
  Accrued = {2}
  Cap = 8
  Junior = 1
  Pool = 8
  GovernanceOps = {"sendToken"}
  Bonus = 0
  MaxTime = 6
INVARIANT
  PaidMeansNotCalled
CHECK_DEADLOCK FALSE

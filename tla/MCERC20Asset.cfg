SPECIFICATION MCSpec
CONSTANTS
  s1 = s1
  s2 = s2
  Stabilizers = {s1, s2}
  Accounts <- MCAccounts
  Treasury = Treasury
  Outside = Outside
  Unit = 4
  Scale = 1
  Precision = 10
  Day = 2
  DaysPerYear = 4
  AuctionStep = 1
  WriteOffLimit = 3
  InterestPrecision = 2
  Configs <- MCConfigs
  AssetOf <- MCAssetOf
  AgentValues = {}
  Waits = {0}
  MaxClaim = 0
  MaxValue = 0
  AmountsOf <- MCAmounts
  SlippagesOf <- MCSlippages
  TokenPrices = {2, 4}
  UsdxPrices = {4}
  TargetPrices = {3, 4, 5}
  Accrued = {2, 3}
  Cap = 8
  Junior = 1
  Pool = 3
  GovernanceOps = {"targetPrice", "removeMinter", "writeOff", "reject", "setLoanLimit", "sendToken"}
  Bonus = 0
  MaxTime = 3
INVARIANTS
  TypeOK
  AuctionHasDebt
  CallHasDeadline
PROPERTIES
  AuctionPriceNeverRises
  LiquidationPaysFloor
  RepayNeverDefaults
  DebtMatchesMint
  WriteOffKeepsValue
ACTION_CONSTRAINT
  MCScenarios
CHECK_DEADLOCK FALSE

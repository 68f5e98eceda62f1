SPECIFICATION QueueSpec
CONSTANTS
  s1 = s1
  Stabilizers = {s1}
  Accounts <- MCAccounts
  Treasury = Treasury
  Outside = Outside
  Unit = 4
  Scale = 1
  Precision = 10
  Day = 1
  DaysPerYear = 4
  AuctionStep = 1
  WriteOffLimit = 3
  InterestPrecision = 2
  Configs <- MCCall
  AssetOf <- MCAssetOf
  AgentValues = {}
  Waits = {0}
  MaxClaim = 0
  MaxValue = 0
  AmountsOf <- MCAmounts
  SlippagesOf <- MCExact
  TokenPrices = {3, 4}
  UsdxPrices = {4}
  TargetPrices = {4}
  Accrued = {2}
  Cap = 8
  Junior = 1
  Pool = 4
  GovernanceOps = {}
  Bonus = 0
  MaxTime = 2
  MaxQueue = 2
INVARIANTS
  AmountsQueued
  OrderedOnce
PROPERTIES
  CallAccountedFor
CHECK_DEADLOCK FALSE

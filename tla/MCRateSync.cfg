SPECIFICATION MCSpec
CONSTANTS
  Day = 2
  InterestPrecision = 100
  SpreadPrecision = 10
  MinRate <- MCMinRate
  MaxRate = 70
  TargetPriceLimit = 1
  WriteOffLimit = 3
  StepValue = 60
  ArbSpread = 1
  One = 100
  TwaPrices = {50, 200}
  Periods = {2, 3}
  Overrides = {"updateInterestRate", "setInterestRate", "setTargetPrice", "setPeriodStart", "setPeriod", "writeOff"}
  OverrideRates <- MCOverrideRates
  OverridePrices = {110}
  MaxTime = 6
  B = B
  Remotes <- MCRemotes
  MaxNonce = 2
INVARIANTS
  TypeOK
  PeriodOrder
  OneStepPerPeriod
  ChainsAgree
PROPERTIES
  MissedUntilMultisig
  PriceFollowsRate
  OnlyRefusedPlansReturn
CHECK_DEADLOCK FALSE

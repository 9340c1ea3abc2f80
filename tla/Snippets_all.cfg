SPECIFICATION ContractSpec
CONSTANTS
  MaxIrql = 15
  MaxDepth = 5
  Idle = Idle
  NoValue = NoValue
  NoFunction = "NoFunction"
  Drivers <- AllTests
  Extract <- Database
INVARIANTS
  MatchesBaseline RangeLeftIsReported
CHECK_DEADLOCK FALSE

SPECIFICATION ContractSpec
CONSTANTS
  MaxIrql = 3
  MaxDepth = 3
  Idle = Idle
  NoValue = NoValue
  NoFunction = "NoFunction"
  Drivers <- FloatStateAndLock
  Extract <- Database
INVARIANT InvariantWithoutChange
CHECK_DEADLOCK FALSE

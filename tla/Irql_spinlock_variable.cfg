SPECIFICATION Spec
CONSTANTS
  MaxIrql = 3
  MaxDepth = 2
  Idle = Idle
  NoValue = NoValue
  NoFunction = "NoFunction"
  Length = 3
  Drivers <- SpinLocks
  Extract <- Database
INVARIANT RestoreYieldsSavedLevel
CHECK_DEADLOCK FALSE

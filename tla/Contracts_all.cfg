SPECIFICATION ContractSpec
CONSTANTS
  MaxIrql = 3
  MaxDepth = 3
  Idle = Idle
  NoValue = NoValue
  NoFunction = "NoFunction"
  Drivers <- AllRoutines
  Extract <- Database
INVARIANTS
  SameLevelOrReported ChangeIsReported MismatchReported EventAlertsAreReal
  NotSavedAlertsAreReal
CHECK_DEADLOCK FALSE

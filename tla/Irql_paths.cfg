SPECIFICATION Spec
CONSTANTS
  MaxIrql = 3
  MaxDepth = 2
  Idle = Idle
  NoValue = NoValue
  NoFunction = "NoFunction"
  Length = 3
  Drivers <- AllRoutines
  Extract <- Database
INVARIANTS
  TypeOK Sound AlertsAreReal CertainBreaksReported SetAlertsAreReal
CHECK_DEADLOCK FALSE

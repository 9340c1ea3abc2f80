SPECIFICATION Spec
CONSTANT Routines <- AllRoutines
INVARIANTS
  MatchesBaseline
  OutsideOpenReported
  IsolationAlertsAreReal
  CaughtWhenOpened
CHECK_DEADLOCK FALSE

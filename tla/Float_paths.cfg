SPECIFICATION Spec
CONSTANT Routines <- SnippetsAndBranches
INVARIANTS
  TypeOK
  MatchesBaseline
  SavedOrReported
  RestoredOrReported
  FloatAlertsAreReal
CHECK_DEADLOCK FALSE

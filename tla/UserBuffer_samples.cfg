SPECIFICATION Spec
CONSTANTS
  Routines <- SamplesAndShort
  Helpers = {"Read", "Peek"}
  Contents = {0, 1}
  NotRead = NotRead
INVARIANTS TypeOK UnhandledFaultReported DisagreementReported
CHECK_DEADLOCK FALSE

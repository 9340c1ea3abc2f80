SPECIFICATION Spec
CONSTANTS
  Tests <- ThreeTests
  Workers = {w1, w2}
  Modes <- PlainModes
  Nothing = Nothing
  Stale = Stale
  TemplateOnly = TemplateOnly
  ExistingDb = ExistingDb
  NoTest = NoTest
INVARIANTS TypeOK RowsFaithful SavedComplete SuccessMeansEveryTestRan PrivatePdbServer
PROPERTIES BannersInOrder FrozenAfterJoin ImplementsVerdicts

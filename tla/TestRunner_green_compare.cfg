SPECIFICATION Spec
CONSTANTS
  Workers = {w1, w2}
  Nothing = Nothing
  Stale = Stale
  TemplateOnly = TemplateOnly
  ExistingDb = ExistingDb
  NoTest = NoTest
  Tests <- TwoTests
  Modes <- CompareModes
INVARIANT SuccessMeansEveryTestRan

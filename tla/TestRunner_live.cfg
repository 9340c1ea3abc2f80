SPECIFICATION FairSpec
CONSTANTS
  Workers = {w1, w2}
  Nothing = Nothing
  Stale = Stale
  TemplateOnly = TemplateOnly
  ExistingDb = ExistingDb
  NoTest = NoTest
  Tests <- TwoTests
  Modes <- LocalModes
INVARIANT RegressionNeverSilent
PROPERTIES Terminates EveryTestJudged

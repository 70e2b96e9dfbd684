SPECIFICATION Spec
CONSTANTS
  a = a
  b = b
  c = c
  NoAmount = NoAmount
  BadAmount = BadAmount
  Inputs <- MCInputs
  RuleSets <- MCRuleSets
  MaxRecords = 4
INVARIANTS
  PairOrderIndependent
  LatestRecordCounts
  ExactIffEqual
  MatchedSpread
  FlaggedDisagrees
  StrictMajorityUnflagged

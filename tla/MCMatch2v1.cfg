SPECIFICATION Spec
CONSTANTS
  a = a
  b = b
  c = c
  NoAmount = NoAmount
  BadAmount = BadAmount
  Inputs <- MCInputs
  RuleSets <- MajorityOnly
  MaxRecords = 3
INVARIANT TwoVersusOneMatches

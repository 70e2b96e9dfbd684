SPECIFICATION FairSpec
CONSTANTS
  Refs <- ThreeRefs
  Systems = {s1}
  Times <- TwoTimes
  Any = Any
  Sizes <- ThreeSizes
  DefaultSize = 2
  MaxSize = 2
  MaxChanges = 2
  MaxFaults = 1
INVARIANTS
  TypeOK
  StandingListed
  ListedOnce
  ListedQualified
PROPERTIES
  ListingEnds
CHECK_DEADLOCK FALSE

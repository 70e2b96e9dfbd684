SPECIFICATION Spec
CONSTANTS
  fast = fast
  slow = slow
  Sources = {fast, slow}
  Callers = {c1, c2, c3}
  Unit = 20
  DefaultRate = 4
  Overrides <- OneSlow
  MaxCalls = 5
  MaxNow = 6
INVARIANTS
  TypeOK
  AdmittedBounded
  RefusedHasSpent
CHECK_DEADLOCK FALSE

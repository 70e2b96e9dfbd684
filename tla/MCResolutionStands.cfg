SPECIFICATION Spec
CONSTANTS
  Tx = {t1}
  RetryWorker = w
  Ops = {o1}
  Ceilings <- OneOrTwo
  Base = 1
  Cap = 2
  AutoApply = FALSE
  NoTx = NoTx
  MaxCalls = 2
  MaxFaults = 0
  MaxCount = 2
PROPERTIES
  ResolutionStands
CHECK_DEADLOCK FALSE

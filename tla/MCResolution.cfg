SPECIFICATION FairSpec
CONSTANTS
  Tx = {t1}
  RetryWorker = w
  Ops = {o1, o2}
  Ceilings <- OneOrTwo
  Base = 1
  Cap = 2
  AutoApply = TRUE
  NoTx = NoTx
  MaxCalls = 2
  MaxFaults = 2
  MaxCount = 2
INVARIANTS
  TypeOK
  ResolvedIsOnFile
  ClosedWasSettled
  BudgetHolds
PROPERTIES
  QueueDrains
  KeepsContract
CHECK_DEADLOCK FALSE

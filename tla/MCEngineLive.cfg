SPECIFICATION FairSpec
CONSTANTS
  erp = erp
  vendor = vendor
  NoAmount = NoAmount
  BadAmount = BadAmount
  NoRow = NoRow
  NoTx = NoTx
  Tx = {1, 2}
  Worker = w
  Rpc = {}
  Inputs <- OneBad
  Rules <- ExactRules
  MaxRetries = 2
  Backoff = 0
  Timeout = 1
  BatchSize = 1
  MaxRecords = 2
  MaxCalls = 0
  MaxFaults = 0
PROPERTIES
  EveryTransactionAttempted
  PendingEscalates

SPECIFICATION FairSpec
CONSTANTS
  erp = erp
  vendor = vendor
  NoAmount = NoAmount
  BadAmount = BadAmount
  NoRow = NoRow
  NoTx = NoTx
  Tx = {1}
  Worker = w
  Rpc = {}
  Inputs <- TwoAmounts
  Rules <- ExactRules
  MaxRetries = 3
  Backoff = 1
  Timeout = 10
  BatchSize = 1
  MaxRecords = 2
  MaxCalls = 0
  MaxFaults = 0
PROPERTIES
  PendingEscalates

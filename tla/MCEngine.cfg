SPECIFICATION Spec
CONSTANTS
  erp = erp
  vendor = vendor
  NoAmount = NoAmount
  BadAmount = BadAmount
  NoRow = NoRow
  NoTx = NoTx
  Tx = {1}
  Worker = w
  Rpc = {r1}
  Inputs <- TwoAmounts
  Rules <- ExactRules
  MaxRetries = 1
  Backoff = 0
  Timeout = 1
  BatchSize = 1
  MaxRecords = 3
  MaxCalls = 1
  MaxFaults = 1
INVARIANTS
  TypeOK
  RetryBounded
  VerdictFromSnapshot
  ShownIsAudited
  RestingAgreement
PROPERTIES
  CountGrows
  KeepsContract

SPECIFICATION FairSpec
CONSTANTS
  k1 = k1
  k2 = k2
  Keys = {k1, k2}
  Bad = {k2}
  Handlers = {h1}
  Consumer = c
  Topic <- Messages
  Empty = Empty
  QueueCap = 1
  NoKey = NoKey
  NoId = NoId
  MaxCalls = 3
  MaxExpiries = 1
  MaxFaults = 1
INVARIANTS
  TypeOK
  AnsweredIsStored
  OneIdPerKey
  NothingVanishes
  CommittedWasQueued
PROPERTIES
  AcceptedSettles
  CommitsCatchUp
CHECK_DEADLOCK FALSE

SPECIFICATION FairSpec
CONSTANTS
  k1 = k1
  k2 = k2
  Keys = {k1, k2}
  None = None
  Clients = {c1, c2}
  Bodies <- SomeBodies
  QueueCap = 1
  MaxUploads = 2
INVARIANTS
  TypeOK
  QueuedIsPrefix
  StoredOnce
PROPERTIES
  UploadEnds
CHECK_DEADLOCK FALSE

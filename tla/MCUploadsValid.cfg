SPECIFICATION Spec
CONSTANTS
  k1 = k1
  k2 = k2
  Keys = {k1, k2}
  None = None
  Clients = {c1}
  Bodies <- SomeBodies
  QueueCap = 1
  MaxUploads = 1
INVARIANTS
  StoredIsValid
CHECK_DEADLOCK FALSE

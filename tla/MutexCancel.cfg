SPECIFICATION CancelFairSpec
CONSTANTS
  t1 = t1
  t2 = t2
  n1 = n1
  NoName = NoName
  NoThread = NoThread
  Threads <- MCThreads
  Tasks <- MCThreads
  Names <- MCNames
  SerialMod = 3
  CallIds <- MCCallIds
  MaxMutexes = 1
  CreateOverlapsDelete = TRUE
CHECK_DEADLOCK FALSE
PROPERTIES
  NonBlockingReturns
  LockWaitsForHolder
  OrphanStaysLocked

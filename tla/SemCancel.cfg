SPECIFICATION CancelFairSpec
CONSTANTS
  t1 = t1
  t2 = t2
  t3 = t3
  n1 = n1
  NoName = NoName
  Threads <- MCThreads
  Tasks <- MCTasks
  Names <- MCNames
  MaxSems = 1
  SemValueMax = 2
  SerialMod = 3
  CallIds <- MCSemIds
  Contract <- MCContract
CONSTRAINT MCInterrupt
CHECK_DEADLOCK FALSE
INVARIANTS
  RefCountAccounted
PROPERTIES
  LostPinsSemaphore
  AskedTaskLeaves
  PostNotBlockedForever

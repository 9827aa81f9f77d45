SPECIFICATION Spec
CONSTANTS
  t1 = t1
  t2 = t2
  t3 = t3
  n1 = n1
  n2 = n2
  NoName = NoName
  NoThread = NoThread
  Threads <- MCThreads3
  Names <- MCNames2
  SerialMod = 3
  CallIds <- MCMutexIds
  MaxMutexes = 2
  CreateOverlapsDelete = FALSE
SYMMETRY MCSymmetry
CHECK_DEADLOCK FALSE
INVARIANTS
  RefCountExact
  LockerKeepsSlot
  OwnerCanUnlock
  IInv
PROPERTIES
  ImplementsTable

SPECIFICATION Spec
CONSTANTS
  t1 = t1
  t2 = t2
  t3 = t3
  n1 = n1
  n2 = n2
  NoName = NoName
  Threads <- MCThreads3
  Names <- MCNames1
  MaxSems = 1
  SemValueMax = 2
  SerialMod = 3
  CallIds <- MCCallIds
  Contract <- MCNoCreateContract
CHECK_DEADLOCK FALSE
INVARIANTS
  WaiterKeepsSlot

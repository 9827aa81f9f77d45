SPECIFICATION Spec
CONSTANTS
  t1 = t1
  t2 = t2
  t3 = t3
  n1 = n1
  n2 = n2
  NoName = NoName
  Threads <- MCThreads3
  Names <- MCNames2
  MaxSems = 2
  SemValueMax = 2
  SerialMod = 3
  CallIds <- MCCallIds
  Contract <- MCFullContract
SYMMETRY MCSymmetry
CHECK_DEADLOCK FALSE
INVARIANTS
  RefCountExact
  WaiterKeepsSlot
  TokenConserved
  IInv

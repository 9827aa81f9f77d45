SPECIFICATION Spec
CONSTANTS
  c1 = c1
  c2 = c2
  n1 = n1
  n2 = n2
  n3 = n3
  a = a
  b = b
  NoThread = NoThread
  EmptyName = EmptyName
  SerialMod = 3
  Callers <- MCCallers2
  Natives <- MCNatives2
  Names <- MCNames2
  MaxTasks = 2
  Priorities <- MCTwoPriorities
  RtEnabled = TRUE
  CallIds <- MCCallIds
  Contract <- MCFullContract
SYMMETRY MCSymmetry
CHECK_DEADLOCK FALSE
INVARIANTS
  SlotOutlivesThread
  ClaimIsKept
  StateTruthful
  OwnIdentity
  IInv
PROPERTIES
  ImplementsLife

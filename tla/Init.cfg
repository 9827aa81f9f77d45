SPECIFICATION Spec
CONSTANTS
  t1 = t1
  t2 = t2
  NoThread = NoThread
  UIntMod = 65536
  Threads <- MCThreads
  Ranges <- MCRanges
  MaxFailures = 2
INVARIANTS
  InitializedIsReady
  KeyAccounted
  PrioritiesSeparate
  ReportsStand
  SchedulingRestored
  IInv
PROPERTIES
  ObjectsKept
  SchedulingSettled

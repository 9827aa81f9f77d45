SPECIFICATION FairSpec
CONSTANTS
  t1 = t1
  Threads <- MCThreads
  Timeouts <- MCTimeouts
  NsPerUs = 2
  UsPerMs = 2
  MsPerSec = 2
  MaxTime = 20
  MaxShift = 2
  MaxSettings = 2
  MaxInterrupts = 1
CHECK_DEADLOCK FALSE
INVARIANTS
  IInv
  DeadlineExact
  NeverEarly
PROPERTIES
  ReadingsGrow
  WaitReturns

SPECIFICATION Spec
CONSTANTS
  MaxTid = 2
  NumProcs = 2
  Interval = 2
  ProcInterval = 4
  Costs = {1}
  Delays = {1}
  SyscallCost = 3
  InOrder = TRUE
  MaxCycle = 4
  MaxCalls = 1
CHECK_DEADLOCK FALSE
INVARIANTS
  TypeOK
  SameRounds
PROPERTIES
  IsBarrier
  WaitEnds
  Reached

SPECIFICATION Spec
CONSTANTS
  NumProcs = 2
  NumThreads = 2
  NumCores = 4
  Delays = {3}
  MayWait = {0, 1}
  StartsFirst = TRUE
  Tag0Shared = FALSE
  MaxWork = 2
  MaxRounds = 2
CHECK_DEADLOCK FALSE
INVARIANTS
  TypeOK
  CoresExclusive
  RepliesExpected
  ExitsLast
PROPERTIES
  InStep
  Terminates

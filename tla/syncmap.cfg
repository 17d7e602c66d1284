SPECIFICATION Spec
CONSTANTS
  w1 = w1  w2 = w2  w3 = w3  w4 = w4
  b1 = b1  b2 = b2  b3 = b3
  Word = {w1, w2, w3, w4}
  BlockOf <- Blocks
  MaxEpoch = 6
  SyncmapSize = 10
CHECK_DEADLOCK FALSE
INVARIANTS
  TypeOK
  NothingLost
  NewestFound
  OneEntryPerWord

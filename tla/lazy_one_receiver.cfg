SPECIFICATION Spec
CONSTANTS
  c1 = c1  c2 = c2
  k1 = k1  k2 = k2
  r1 = r1
  Core = {c1, c2}
  Cache = {k1, k2}
  Parent <- Private2
  Cache0 = k1
  LimitedPtr = FALSE
  MaxSharers = 6
  KeepDirOnWB = FALSE
  Addr = {a1, a2, a3}
  L1Ways = 2
  L2Ways = 3
  DirWays = 3
  Models = {"RLSB"}
  Receiver = {r1}
  ReceiverOf <- OneReceiver
  Program <- BothRelease
  AddrMapSize = 10
  ForeignEpochs = TRUE
  MaxEpoch = 2
  SyncmapSize = 10
SYMMETRY AddrSymmetry
INVARIANTS
  ReleaseOrdered

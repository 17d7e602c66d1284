SPECIFICATION Spec
CONSTANTS
  c1 = c1  c2 = c2  c3 = c3
  k1 = k1  k2 = k2
  Core = {c1, c2, c3}
  Cache = {k1, k2}
  Parent <- Shared3
  Cache0 = k1
  LimitedPtr = TRUE
  MaxSharers = 1
  KeepDirOnWB = FALSE
  Addr = {a1, a2, a3}
  L1Ways = 2
  L2Ways = 2
  DirWays = 2
  Persistent = TRUE
SYMMETRY AddrSymmetry
INVARIANTS
  TypeOK
  CoherenceInv
  SingleOwner
  WriteBackFindsOwner
  DirectoryReaches
PROPERTIES
  UpgradeRegistered

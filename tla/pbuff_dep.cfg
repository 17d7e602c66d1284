SPECIFICATION Spec
CONSTANTS
  a1 = a1  a2 = a2
  NumCores = 2
  Block = {a1, a2}
  BufferSize = 2
  Program <- Roles
  MaxWrites <- Writes
SYMMETRY BlockSymmetry
INVARIANTS
  DependencyFirst

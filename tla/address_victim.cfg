SPECIFICATION Spec
CONSTANTS
  Page <- Pages
  BlocksPerPage = 4
  TlbWays = 1
  NumSets = {5}
  Nets <- OneNet
INVARIANTS
  VictimKnown

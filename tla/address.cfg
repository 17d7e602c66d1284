SPECIFICATION Spec
CONSTANTS
  Page <- Pages
  BlocksPerPage = 3
  TlbWays = 1
  NumSets = {3, 4}
  Nets <- SomeNets
INVARIANTS
  TypeOK
  LinkExists
  ShortestWay
  LinksApart
  PagesApart
  HomesShare
  FramesApart

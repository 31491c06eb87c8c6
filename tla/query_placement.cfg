SPECIFICATION FairSpec
CONSTANTS
  a = a
  b = b
  c = c
  d = d
  e = e
  NoNode = NoNode
  Nodes = {a, b, c, d, e}
  Own = a
  Listed <- MCListed
  Reports <- MCReports
  Queries <- MCQueries
  EnergyWeight = 5
  BdpWeight = 5
INVARIANTS
  TypeOK
  RoutesSound
  OperatorsPlaced
PROPERTIES
  SearchEnds
CHECK_DEADLOCK FALSE

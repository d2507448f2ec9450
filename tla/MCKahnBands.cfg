CONSTANTS
  u1 = u1
  u2 = u2
  u3 = u3
  x = x
  e1 = e1
  e2 = e2
  e3 = e3
  e4 = e4
  Units <- MCUnits
  Outside <- MCOutside
  Edges <- MCEdges
SPECIFICATION Spec
INVARIANTS
  CountsMatchGraph
  BandsAreFrontiers
  CompleteIffNoKnot
PROPERTY
  Terminates

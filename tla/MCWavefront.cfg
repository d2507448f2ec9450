CONSTANTS
  w1 = w1
  w2 = w2
  u1 = u1
  u2 = u2
  u3 = u3
  none = none
  Workers <- MCWorkers
  Tasks <- MCUnits
  MayPanic <- MCPanic
  NoTask = none
  DepGraphs <- MCGraphs
SPECIFICATION Spec
INVARIANTS
  BandBarrier
  ChannelOfBand
  ReturnAccountsForUnits
PROPERTIES
  RunReturnsUnlessPoolDies
  ImplementsOrderedRun
CHECK_DEADLOCK FALSE

CONSTANTS
  t1 = t1
  t2 = t2
  none = none
  Threads <- MCThreads
  SignalCount = 2
  MaxMade = 2
  MaxRaised = 2
  None = none
SPECIFICATION Spec
INVARIANTS
  HandlersRestored
  AltStackAlive

  

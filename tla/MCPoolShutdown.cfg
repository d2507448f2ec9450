CONSTANTS
  w1 = w1
  w2 = w2
  t1 = t1
  t2 = t2
  t3 = t3
  none = none
  Workers <- MCWorkers
  Tasks <- MCTasks
  MayPanic <- MCNoPanic
  NoTask = none
SPECIFICATION PoolSpec
PROPERTY
  ShutdownReturnsDrained

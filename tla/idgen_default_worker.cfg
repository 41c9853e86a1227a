CONSTANTS
  g1 = g1  g2 = g2  t1 = t1  t2 = t2  t3 = t3
  Generator <- MCGenerator
  Thread <- MCThread
  GenOf <- MCGenOf
  Worker <- MCSame
  WorkerSpan = 2
  SequenceSpan = 2
  TimeSpan = 3
  MaxTime = 3
  MaxStepBacks = 1
  MaxCalls = 5
SPECIFICATION Spec
INVARIANT ClusterUnique
CHECK_DEADLOCK FALSE

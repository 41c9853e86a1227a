CONSTANTS
  g1 = g1  g2 = g2  t1 = t1  t2 = t2  t3 = t3
  Generator <- MCGenerator
  Thread <- MCThread
  GenOf <- MCGenOf
  Worker <- MCDistinct
  WorkerSpan = 2
  SequenceSpan = 2
  TimeSpan = 3
  MaxTime = 3
  MaxStepBacks = 1
  MaxCalls = 5
SPECIFICATION FairSpec
INVARIANT TypeOK
INVARIANT SpinnerHoldsGenerator
INVARIANT Increasing
INVARIANT ClusterUnique
PROPERTY SpinTerminates
CHECK_DEADLOCK FALSE

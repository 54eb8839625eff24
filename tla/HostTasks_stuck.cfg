SPECIFICATION FairSpec
CONSTANTS
  i1 = i1 i2 = i2 e1 = e1 e2 = e2
  MaxTasks = 1
  Instances <- TwoInstances
  Jobs <- AllOnOne
  Executors <- TwoExecutors
  MaxRetries = 1
  MaxRestarts = 1
  None = None
CHECK_DEADLOCK FALSE
PROPERTY OverdueEnds

SPECIFICATION Spec
CONSTANTS
  i1 = i1 i2 = i2 p1 = p1 p2 = p2
  Instances <- TwoInstances
  Procs <- TwoProcs
  MaxTraffic = 1
  MaxTime = 2
  MaxStops = 1
  MaxSkew = 1
  User = User
  None = None
CHECK_DEADLOCK FALSE
SYMMETRY Symmetry
INVARIANTS TypeOK UserIsSum OneAtATime
PROPERTY MeterSpec

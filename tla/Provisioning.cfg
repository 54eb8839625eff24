SPECIFICATION FairSpec
CONSTANTS
  MaxRetries = 1
  MaxCrashes = 1
CHECK_DEADLOCK FALSE
INVARIANTS TypeOK DeliverOrCompensate NoOrphan
PROPERTIES CreatingEnds

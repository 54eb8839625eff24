SPECIFICATION FairSpec
CONSTANTS
  alice = alice bob = bob h1 = h1 h2 = h2
  Seller = alice
  Users <- TwoUsers
  Handlers <- TwoHandlers
  MaxTransfers = 2
  MaxNames = 2
  MaxUpsets = 1
  None = None
CHECK_DEADLOCK FALSE
INVARIANTS TypeOK HandsOverAlone FeeSettledOnce
PROPERTIES RecordedNameIsReal DestroysOwn ProcessingEnds

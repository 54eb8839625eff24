SPECIFICATION Spec
CONSTANTS
  alice = alice bob = bob h1 = h1 h2 = h2
  Seller = alice
  Users <- TwoUsers
  Handlers <- TwoHandlers
  MaxTransfers = 2
  MaxNames = 1
  MaxUpsets = 1
  None = None
CHECK_DEADLOCK FALSE
INVARIANT OnlyOwnInstance

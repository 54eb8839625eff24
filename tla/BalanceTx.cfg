SPECIFICATION FairSpec
CONSTANTS
  alice = alice bob = bob c1 = c1 c2 = c2
  addReq = addReq backReq = backReq order = order
  Users <- TwoUsers
  Slots <- TwoSlots
  Requests <- MCReqs
  Reclaims <- MCReclaims
  Orders <- MCOrders
  DocUser <- OrderOfBob
  DocAmount <- MCDocAmount
  Amounts = {1}
  InitBalance <- MCInit
  MaxBalance = 2
  NoDoc = NoDoc
  None = None
  MaxLog = 1
CHECK_DEADLOCK FALSE
INVARIANTS TypeOK StatementAddsUp SnapshotFresh SettledOnce
PROPERTIES LedgerSpec TransactionEnds

SPECIFICATION Spec
CONSTANTS
  h1 = h1 h2 = h2
  Handlers <- TwoHandlers
  MaxRequests = 2
  MaxAtWork = 3
  MaxPeriods = 3
  MaxTime = 3
  MaxVersion = 3
  Period = 1
  Extension = 1
  Grace = 0
  Window = 1
SYMMETRY Perms
CHECK_DEADLOCK FALSE
INVARIANTS TypeOK PeriodsDisjoint LiveHasContainer RefundedOnce RefundedMeansGone
PROPERTIES SparesPaid

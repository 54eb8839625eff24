SPECIFICATION Spec
CONSTANTS
  h1 = h1 h2 = h2
  Handlers <- TwoHandlers
  MaxAttempts = 1
CHECK_DEADLOCK FALSE
SYMMETRY Symmetry
INVARIANTS TypeOK CreditedOnce PaymentNotDropped

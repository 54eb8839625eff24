SPECIFICATION FairSpec
CONSTANTS
  h1 = h1 h2 = h2
  Handlers <- OneHandler
  MaxAttempts = 1
CHECK_DEADLOCK FALSE
PROPERTIES PaidEnds PaidIsAnswered

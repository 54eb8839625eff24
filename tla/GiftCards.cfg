SPECIFICATION FairSpec
CONSTANTS
  alice = alice bob = bob card = card s1 = s1 s2 = s2 s3 = s3
  Users <- TwoUsers
  Cards <- OneCard
  Slots <- ThreeSlots
  Face = 2
  Worth = 1
  InitBalance <- Balances
  None = None
CHECK_DEADLOCK FALSE
INVARIANTS TypeOK PaysOnce MoneyConserved
PROPERTIES RequestEnds

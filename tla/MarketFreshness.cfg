SPECIFICATION FairSpec
CONSTANTS
  R1 = R1
  R2 = R2
  C1 = C1
  C2 = C2
  Reserve <- TwoReserves
  Caller <- TwoCallers
  undefined = undefined
  MaxGroup = 1
  MaxSlot = 2
PROPERTIES
  EventuallyFresh

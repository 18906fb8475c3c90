SPECIFICATION Spec
CONSTANTS
  Config <- MCConfig
  Groups <- MCGroups
  ReferralFee <- MCReferral
  SlotsPerYear = 10
  SlotsPerDay = 2
  SlotAdjustment <- MCAdjust
  Margin <- MCMargin
  Markets <- MCMarkets
  Owner <- MCOwner
  Amounts = {10}
  OthersAmount = 10
  Slots = {0, 6}
  MaxOthers = 1
  MaxRequests = 2
CHECK_DEADLOCK FALSE
INVARIANTS
  PsTypeOK
PROPERTIES
  MaximumServed
  SimulationNoRosier

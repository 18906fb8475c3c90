SPECIFICATION Spec
CONSTANTS
  Requests <- MCRequests
  Missing <- MCMissing
  WrapCap = 20
  Dust = 3
  Sol = 30
  MaxLtv <- MCMaxLtv
  MaxDisturbances = 1
CHECK_DEADLOCK FALSE
INVARIANTS
  LvTypeOK
  ServedWithinSlippage
  PositionAsAsked
  SwapAsShown

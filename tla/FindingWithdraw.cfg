SPECIFICATION Spec
CONSTANTS
  C1 = C1
  C2 = C2
  ResA = ResA
  ResB = ResB
  Callers <- TwoCallers
  Requests <- Calls
  Vaults <- Starts
  Reserve <- TwoReserves
  NoReserve = NoReserve
  NoState = NoState
  Accrued <- Grown
  OthersAmount = 2
  MaxCalls = 2
  MaxOthers = 1
PROPERTIES
  WithdrawsSharesAsked
SYMMETRY Swap
CHECK_DEADLOCK FALSE

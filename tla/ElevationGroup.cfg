SPECIFICATION SendSpec
CONSTANTS
  ResA = ResA
  ResB = ResB
  Sol = Sol
  Reserve <- ThreeReserves
  NoReserve = NoReserve
  SolReserve = Sol
  CollFarm <- CollFarms
  DebtFarm <- DebtFarms
  Group <- TwoGroups
  GroupsOf <- InGroups
  GroupDebt <- DebtIsSol
  GroupLtv <- Ltvs
  POSITION_LIMIT = 4
  Requests <- GroupRequests
  Chains <- GroupChains
  MaxAttempts = 1
INVARIANTS
  ServableNeverRejected
  GroupReached
CHECK_DEADLOCK FALSE

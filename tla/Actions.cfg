SPECIFICATION SendSpec
CONSTANTS
  ResA = ResA
  ResB = ResB
  Sol = Sol
  Reserve <- ThreeReserves
  NoReserve = NoReserve
  SolReserve = Sol
  CollFarm <- CollFarms
  DebtFarm <- DebtFarms
  Group <- TwoGroups
  GroupsOf <- InGroups
  GroupDebt <- DebtIsSol
  GroupLtv <- Ltvs
  POSITION_LIMIT = 3
  Requests <- ActionRequests
  Chains <- ActionChains
  MaxAttempts = 2
INVARIANTS
  TypeOK
  ServableNeverRejected
  ServableNeverThrown
  FarmRefreshAdjacent
  NoStrandedSol
  WsolAccountRestored
  PositionLimitKept
  ListsOwnPositions
CHECK_DEADLOCK FALSE

SPECIFICATION LutSpec
CONSTANTS
  MintA = MintA
  MintB = MintB
  MintSol = MintSol
  MintX = MintX
  F1 = F1
  F2 = F2
  NoFarm = NoFarm
  NoTx = NoTx
  Tx <- Txs
  Mint <- AllMints
  Listed <- Mints
  SolMint = MintSol
  CollFarm <- CollFarms
  DebtFarm <- DebtFarms
  chunkSize = 10
  Requests <- LutRequests
  MaxCalls = 2
  MaxBatches = 3
INVARIANTS
  LutTypeOK
  ReturnedMeansLanded
  ThrewMeansNoEffect
  CompleteWhenDone
  OneTable
  NoRepeatInCall
CHECK_DEADLOCK FALSE

SPECIFICATION CuSpec
CONSTANTS
  NoTx = NoTx
  Tx <- Txs
  NetValueOrder = "little"
  ReserveEdits <- EditsOfReserve
  MarketEdits <- EditsOfMarket
  EntireEdits <- EntireEditsOfReserve
  Topics <- Topic
  OtherEdits <- EditsOfOthers
  Input = {in1, in2}
  ChunkSize = 6
  MaxCalls = 2
  MaxBatches = 3
  MaxOther = 1
  MaxObjects = 2
INVARIANTS
  CuTypeOK
  TwoRoundsSuffice
  MarketReached
  LatestKeepsInputs
PROPERTIES
  OracleSparesTheRest
  OnlyEditsLand
SYMMETRY Symmetric
CHECK_DEADLOCK FALSE

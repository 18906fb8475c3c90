SPECIFICATION CuSpec
CONSTANTS
  NoTx = NoTx
  Tx <- Txs
  NetValueOrder = "little"
  ReserveEdits <- Empty
  MarketEdits <- EditsOfMarket
  EntireEdits <- FewReserveEdits
  Topics <- OfReserve
  OtherEdits <- Empty
  Input = {in1, in2}
  ChunkSize = 6
  MaxCalls = 2
  MaxBatches = 3
  MaxOther = 1
  MaxObjects = 2
INVARIANT TakeRateOfFile
CHECK_DEADLOCK FALSE

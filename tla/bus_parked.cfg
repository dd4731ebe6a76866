SPECIFICATION KeyReleasedSpec
CONSTANTS
  Addr <- MCAddr
  Data = {0, 1}
  NoAddr = NoAddr
  NoData = NoData
  Words = {0, 1}
  TxCycles = 3
PROPERTY DebugWriteSticks

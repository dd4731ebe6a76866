SPECIFICATION LinkSpec
CONSTANTS
  Byte <- MCByte
  NoByte = NoByte
  NumRegs = 2
  WordBytes = 4
  CsrBytes = 2
  ByteBase = 12
  Depth = 4
  TimeoutCycles = 20
  TxCycles = 12
  Sessions <- MCSessions
  Gaps <- MCGaps
  HostSees = 2
  PauseCycles = 25
INVARIANTS LogFollowsScript AnswersMatch FreshHaltWorks FreshAnswers ImageLoaded
PROPERTIES Delivered

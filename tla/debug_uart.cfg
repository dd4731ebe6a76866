SPECIFICATION FairSpec
CONSTANTS
  Byte = {1, 2, 3, 4, 6, 7, 9, 10}
  NoByte = NoByte
  NumRegs = 1
  WordBytes = 1
  CsrBytes = 1
  TimeoutCycles = 1
  TxCycles = 2
INVARIANTS TypeOK MemOnlyWhileHalted ReplyEndsAtPc
PROPERTIES NeverWedged ImplementsPort

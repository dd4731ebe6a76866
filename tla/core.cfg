CONSTANTS
  MaxWord = 255
  Regs <- MCRegs
  Lines = {0, 1}
  LineOf <- MCLineOf
  Fns <- MCFns
  Alu <- MCAlu
  Cond <- MCCond
  LoadVal <- MCLoadVal
  StoreVal <- MCStoreVal
  BitOr <- MCBitOr
  BitAndNot <- MCBitAndNot
  Programs <- CorePrograms
  Fetch <- MCFetch
  InitRegs <- MCInitRegs
  InitMems <- MCInitMems
  InitCsrs <- TrapCsrs
  IrqLevels = {FALSE}
SPECIFICATION NoResetSpec
INVARIANTS TypeOK OperandsFresh VectorFresh
PROPERTIES TrapStands ImplementsSingleCycle

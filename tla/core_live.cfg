CONSTANTS
  MaxWord = 255
  Regs <- MCRegs
  Lines = {0, 1, 2}
  LineOf <- MCTimerLineOf
  Fns <- MCFns
  Alu <- MCAlu
  Cond <- MCCond
  LoadVal <- MCLoadVal
  StoreVal <- MCStoreVal
  BitOr <- MCBitOr
  BitAndNot <- MCBitAndNot
  Programs <- LivePrograms
  Fetch <- MCFetch
  InitRegs <- LiveRegs
  InitMems <- MCTimerMems
  InitCsrs <- LiveCsrs
  IrqLevels = {TRUE, FALSE}
  TimerSel <- MCTimerSel
  TimerReg <- MCTimerReg
  MaxResets = 1
SPECIFICATION LiveSpec
INVARIANT FetchOrder
PROPERTIES Converges IrqReached OneIrqPerTick NotNested

CONSTANTS
  MaxWord = 255
  Regs <- MCRegs
  Lines = {0, 1, 2}
  LineOf <- MCTimerLineOf
  Fns <- MCFns
  Alu <- MCAlu
  Cond <- MCCond
  LoadVal <- MCLoadVal
  StoreVal <- MCStoreVal
  BitOr <- MCBitOr
  BitAndNot <- MCBitAndNot
  Programs <- OneTickProgram
  Fetch <- MCFetch
  InitRegs <- LiveRegs
  InitMems <- MCTimerMems
  InitCsrs <- LiveCsrs
  IrqLevels = {TRUE, FALSE}
  TimerSel <- MCTimerSel
  TimerReg <- MCTimerReg
  MaxResets = 1
SPECIFICATION TimerSpec
PROPERTY PreciseInterrupt

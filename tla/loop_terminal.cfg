\* The terminal: keyboard, UART, screen, with the user at the prompt.
CONSTANTS
  a1 = a1  a2 = a2
  lower = lower  upper = upper  poked = poked  CR = CR  LF = LF  NUL = NUL
  Char <- MCChar
  toupper <- MCtoupper
  Addr = {a1}
  Key = {lower, CR}
  CpuChar = {upper, CR}
  PokeChar = poked
  Mask <- OneMask
  IerValue <- MCIerValue
  Instr = {"internal", "readRbr", "writeThr", "modifyUart", "writeIer"}
  Command = {"g", "m", "mThr", "mIer", "bye"}
  IrqCmd <- NoIrq
  MON_NUMBER_OF_BREAKPOINTS = 1
  MaxKbd = 2
  MaxOut = 3
SPECIFICATION FairSpec
INVARIANTS
  TermMatchesUse PrintedIsTaken
PROPERTIES
  IsSerialPort OutputDrains

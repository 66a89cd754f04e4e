\* A character that is there before its interrupt is enabled.
CONSTANTS
  CR = 13  LF = 10  NUL = 0
  Char <- MCChar
  toupper <- MCtoupper
  Addr <- MCAddr
  Key <- MCKey
  CpuChar <- MCCpuChar
  PokeChar = 255
  Mask <- NoMask
  IerValue <- MCIerValue
  Instr = {"internal", "readRbr", "writeThr", "writeIer", "fault"}
  Command = {"g", "bye"}
  IrqCmd <- NoIrq
  MON_NUMBER_OF_BREAKPOINTS = 1
  MaxKbd = 2
  MaxOut = 20
  Programs = {"echoirq"}
  MaxTyped = 2
SPECIFICATION FairGuestSpec
PROPERTY ReceivedIsRead

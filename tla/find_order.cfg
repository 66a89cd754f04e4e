\* An interrupt within an interrupt of echoirq.
CONSTANTS
  CR = 13  LF = 10  NUL = 0
  Char <- MCChar
  toupper <- MCtoupper
  Addr <- MCAddr
  Key <- TwoLetters
  CpuChar <- MCCpuChar
  PokeChar = 255
  Mask <- NoMask
  IerValue <- MCIerValue
  Instr = {"internal", "readRbr", "writeThr", "writeIer", "fault"}
  Command = {"g", "bye"}
  IrqCmd <- NoIrq
  MON_NUMBER_OF_BREAKPOINTS = 1
  MaxKbd = 2
  MaxOut = 20
  Programs = {"echoirq"}
  MaxTyped = 2
SPECIFICATION GuestSpec
INVARIANT EchoIrqInOrder

\* The programs echo, echoirq and hellow on the whole machine.
CONSTANTS
  CR = 13  LF = 10  NUL = 0
  Char <- MCChar
  toupper <- MCtoupper
  Addr <- MCAddr
  Key <- MCKey
  CpuChar <- MCCpuChar
  PokeChar = 255
  Mask <- NoMask
  IerValue <- MCIerValue
  Instr = {"internal", "readRbr", "writeThr", "writeIer", "fault"}
  Command = {"g", "bye"}
  IrqCmd <- NoIrq
  MON_NUMBER_OF_BREAKPOINTS = 1
  MaxKbd = 2
  MaxOut = 20
  Programs = {"echo", "echoirq", "hellow"}
  MaxTyped = 3
SPECIFICATION FairGuestSpec
INVARIANTS GuestTypeOK PrintsInOrder StackBalanced EchoedOnce ErrorComesLast
PROPERTIES IsVmLoop CatchesUp InterruptsAnswered

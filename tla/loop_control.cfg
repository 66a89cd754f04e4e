\* Control: halts, steps, break points, errors, interrupts, with the liveness of
\* ctrl-c and NMI under the fairness of the loop's own steps.
\* The guest program does not use the UART.
CONSTANTS
  a1 = a1  a2 = a2
  lower = lower  upper = upper  poked = poked  CR = CR  LF = LF  NUL = NUL
  Char <- MCChar
  toupper <- MCtoupper
  Addr = {a1, a2}
  Key = {}
  CpuChar = {}
  PokeChar = poked
  Mask <- MCMask
  IerValue <- NoIer
  Instr = {"internal", "swi", "fault", "badPost", "crash"}
  Command = {"g", "s", "sAddr", "t", "i", "b", "rc", "bye"}
  IrqCmd <- AllIrq
  MON_NUMBER_OF_BREAKPOINTS = 1
  MaxKbd = 0
  MaxOut = 0
SPECIFICATION FairSpec
INVARIANTS
  TypeOK HaltGate StepsOne BreakpointStops NmiNeverWaits
PROPERTIES
  CtrlCReturns NmiIsTaken

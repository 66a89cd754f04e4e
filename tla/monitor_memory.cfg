\* m and l: nine bytes, six files, fills that end before the last address.
CONSTANTS
  here = here  there = there  short = short  long = long  gone = gone
  BASE = 3
  Device <- MCDevice
  Path = {here, there}
  Name = {short, long, gone}
  Disk <- MCDisk
  TooLong <- MCTooLong
  VM6809_DEFAULT_PATH = here
  VM6809_DEFAULT_FILE = short
  VM6809_DEFAULT_START = 2
  Typed = {5, 7}
  FillTo <- Inside
  MaxCommands = 4
SPECIFICATION FairSpec
INVARIANT TypeOK
PROPERTIES FillIsExact LoadIsExact RestartRunsLoaded PromptReturns

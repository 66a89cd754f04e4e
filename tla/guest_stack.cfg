\* Requests that stack all registers, nested in each other.
CONSTANTS
  Start <- MainStart
  Sources <- Slow
  MaxFrames = 4
SPECIFICATION Spec
INVARIANTS TypeOK NoError
PROPERTIES PopsRestore KeepsStack

\* A conditional long branch.
CONSTANTS
  Start <- LongStart
  Sources <- None
  MaxFrames = 0
SPECIFICATION Spec
PROPERTY BranchLands

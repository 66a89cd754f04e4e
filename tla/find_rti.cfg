\* An IRQ and a FIRQ nested in each other, either of them first: what the
\* inner one leaves in E is wrong for the RTI of the outer one.
CONSTANTS
  Start <- FastStart
  Sources <- Mixed
  MaxFrames = 2
SPECIFICATION Spec
PROPERTY PopsRestore

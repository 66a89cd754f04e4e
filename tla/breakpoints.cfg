\* The four slots of the monitor and five addresses, address 0 among them.
CONSTANTS
  p = p  q = q  r = r  s = s
  Zero = Zero
  Addr = {Zero, p, q, r, s}
  MON_NUMBER_OF_BREAKPOINTS = 4
SPECIFICATION Spec
INVARIANTS TypeOK SetIsFirst EnabledIsSet
PROPERTIES CommandsTakeEffect OthersStayArmed IsArmedSet

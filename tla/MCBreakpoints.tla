--------------------------- MODULE MCBreakpoints ---------------------------
(* Breakpoints with four slots and five addresses, so that slots are      *)
(* reused and given up.                                                          *)
EXTENDS Breakpoints
CONSTANTS p, q, r, s
=============================================================================

------------------------------ MODULE MCVmLoop ------------------------------
(***************************************************************************)
(* Instances of VmLoop for TLC.  The configurations share this module and  *)
(* differ in the instructions and commands they let happen.                *)
(***************************************************************************)
EXTENDS VmLoop, TLC

CONSTANTS a1, a2,               \* two program addresses
          lower, upper, poked   \* a letter, the same raised, a poked character

MCChar == {lower, upper, poked, CR, LF, NUL}
MCtoupper == [c \in MCChar |-> IF c = lower THEN upper ELSE c]
MCMask == SUBSET {cc_f, cc_i}
OneMask == {{}}
MCIerValue == SUBSET UartFlag
NoIer == {{}}
AllIrq == {irq_rst, irq_nmi, irq_firq, irq_irq}
NoIrq == {}
=============================================================================

----------------------------- MODULE Flags6809 -----------------------------
(***************************************************************************)
(* The flag registers of the virtual machine and the operations on them.   *)
(* A flag register (cc, _irq, _trap, LSR, IER, IIR) is the set of its bits *)
(* that are 1, each bit standing for itself by its weight: `r & f` is then *)
(* r \cap f, `r |= f` is r \cup f and `r &= ~f` is r \ f.                  *)
(***************************************************************************)
EXTENDS Integers

(* Condition codes, cpu_ccflags_6809. *)
cc_e == 128
cc_f == 64
cc_h == 32
cc_i == 16
cc_n == 8
cc_z == 4
cc_v == 2
cc_c == 1
CcFlag == {cc_e, cc_f, cc_h, cc_i, cc_n, cc_z, cc_v, cc_c}

(* Interrupt requests, cpu_irqflags_6809. *)
irq_rst  == 128
irq_irq  == 64
irq_firq == 32
irq_nmi  == 16
irq_swi  == 8
irq_swi2 == 4
irq_swi3 == 2
IrqFlag == {irq_rst, irq_irq, irq_firq, irq_nmi, irq_swi, irq_swi2, irq_swi3}

(* Trap register, cpu_trap_code. *)
tc_halt  == 128
tc_trap  == 64
tc_trace == 32
tc_step  == 16
TrapFlag == {tc_halt, tc_trap, tc_trace, tc_step}

(* Line status, interrupt enable and interrupt identification, lsr_flags. *)
xxr_rbr_full  == 128
xxr_thr_empty == 64
UartFlag == {xxr_rbr_full, xxr_thr_empty}

(* What accesses to the data register of the UART do to its line status. *)
tio_read_rbr(lsr)  == lsr \ {xxr_rbr_full}
tio_write_thr(lsr) == lsr \ {xxr_thr_empty}

(* Clear before set. *)
_setclrf(reg, set, clr) == (reg \ clr) \cup set

-----------------------------------------------------------------------------
(***************************************************************************)
(* Requesting and servicing interrupts.                                    *)
(***************************************************************************)

(* cpu_reset, cpu_irq, cpu_firq, cpu_nmi: raise or withdraw one request. *)
_irq(irq, flag, set) ==
  _setclrf(irq, IF set THEN {flag} ELSE {}, IF set THEN {} ELSE {flag})

(* Mutant: a set I bit holds every request but FIRQ back. *)
DeliverableMasked(irq, cc) ==
  {flag \in irq : IF flag = irq_firq THEN cc_f \notin cc ELSE cc_i \notin cc}

(* FIRQ and IRQ wait while their mask bit in cc is 1; nothing else does. *)
Deliverable(irq, cc) ==
  {flag \in irq : /\ flag = irq_firq => cc_f \notin cc
                  /\ flag = irq_irq  => cc_i \notin cc}

(* Mutant: NMI is tested last. *)
PriorityNmiLast ==
  <<irq_rst, irq_firq, irq_irq, irq_swi, irq_swi2, irq_swi3, irq_nmi>>

(* The order in which cpu_execirq tests the requests. *)
Priority ==
  <<irq_rst, irq_nmi, irq_firq, irq_irq, irq_swi, irq_swi2, irq_swi3>>

(* The one request a call of cpu_execirq takes, when there is one to take. *)
IsFirst(k, flags) ==
  Priority[k] \in flags /\ \A j \in 1..(k - 1) : Priority[j] \notin flags

Serviced(irq, cc) ==
  Priority[CHOOSE k \in 1..7 : IsFirst(k, Deliverable(irq, cc))]

(* What stays pending: a reset drops every other request. *)
IrqAfterService(irq, cc) ==
  IF Deliverable(irq, cc) = {} THEN irq
  ELSE IF Serviced(irq, cc) = irq_rst THEN {}
  ELSE irq \ {Serviced(irq, cc)}
=============================================================================

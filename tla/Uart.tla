-------------------------------- MODULE Uart --------------------------------
(***************************************************************************)
(* The terminal: a simplified UART (vmtermio.c) between the memory bus of  *)
(* the CPU on one side and the keyboard and the screen on the other.  The  *)
(* module has the state and one operation per handler; VmLoop says when    *)
(* each of them runs.                                                      *)
(***************************************************************************)
EXTENDS Flags6809, Sequences

CONSTANTS
  Char,        \* the characters that travel through the terminal
  CR, LF, NUL, \* '\r', '\n' and the contents of a register never written
  toupper      \* C library: the function that raises a letter

ASSUME UartAssumption ==
  /\ {CR, LF, NUL} \subseteq Char
  /\ toupper \in [Char -> Char]

VARIABLES
  kbd,    \* typed characters that os_getchar_nowait has not returned yet
  shown,  \* what os_putchar_nowait has written to the screen
  rbr,    \* receiver buffer register
  thr,    \* transmitter holding register
  lsr,    \* line status: subset of UartFlag
  ier,    \* interrupt enable: subset of UartFlag
  iir,    \* interrupt identification: subset of UartFlag
  irq     \* cpu_regs._irq, the requests pending at the CPU

uartVars == <<kbd, shown, rbr, thr, lsr, ier, iir, irq>>

UartTypeOK ==
  /\ kbd \in Seq(Char)
  /\ shown \in Seq(Char)
  /\ rbr \in Char
  /\ thr \in Char
  /\ lsr \subseteq UartFlag
  /\ ier \subseteq UartFlag
  /\ iir \subseteq UartFlag
  /\ irq \subseteq IrqFlag

(* tio_init on registers that are zero; main has just requested a reset    *)
(* and had it serviced when the main loop starts.                          *)
UartInit ==
  /\ kbd = <<>>
  /\ shown = <<>>
  /\ rbr = NUL
  /\ thr = NUL
  /\ lsr = {xxr_thr_empty}
  /\ ier = {}
  /\ iir = {}
  /\ irq = {}

-----------------------------------------------------------------------------
(***************************************************************************)
(* tio_exec, one poll of the terminal: _recvc, then _sendc.                *)
(***************************************************************************)

(* Mutants: a full buffer register is overwritten; a poll that receives    *)
(* does not send.                                                          *)
ReceivesAlways == kbd # <<>>
SendsInstead   == xxr_thr_empty \notin lsr /\ (kbd = <<>> \/ xxr_rbr_full \in lsr)

(* A character is taken from the keyboard whether or not there is room for *)
(* it; it reaches the CPU only when the buffer register is not full.       *)
Receives == kbd # <<>> /\ xxr_rbr_full \notin lsr
Sends    == xxr_thr_empty \notin lsr

(* What the poll finds done, in the encoding LSR, IER and IIR share. *)
Events == (IF Receives THEN {xxr_rbr_full} ELSE {})
            \cup (IF Sends THEN {xxr_thr_empty} ELSE {})

(* An enabled event is remembered in IIR and requests an interrupt. *)
_generate_interrupt(events) ==
  /\ iir' = iir \cup (events \cap ier)
  /\ irq' = IF events \cap ier = {} THEN irq ELSE _irq(irq, irq_irq, TRUE)

(* os_putchar_nowait; a carriage return also feeds the line. *)
Echoed(cc) == IF cc = CR THEN <<CR, LF>> ELSE <<cc>>

tio_exec ==
  /\ kbd' = IF kbd = <<>> THEN kbd ELSE Tail(kbd)
  /\ rbr' = IF Receives THEN toupper[Head(kbd)] ELSE rbr
  /\ lsr' = lsr \cup Events
  /\ shown' = IF Sends THEN shown \o Echoed(thr) ELSE shown
  /\ _generate_interrupt(Events)
  /\ UNCHANGED <<thr, ier>>
=============================================================================

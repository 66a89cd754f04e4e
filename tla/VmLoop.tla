------------------------------- MODULE VmLoop -------------------------------
(***************************************************************************)
(* The virtual machine as a whole: the endless loop of main.c              *)
(*                                                                         *)
(*      poll the terminal - take an interrupt - monitor - one instruction  *)
(*                                                                         *)
(* with the user at the keyboard, who types and hits ctrl-c at any moment, *)
(* and at the monitor prompt, where the loop waits for commands.  What an  *)
(* instruction computes is left open: it moves the program counter to any  *)
(* address and touches the loop's state in one of the ways the instruction *)
(* set offers (the module Cpu6809 says what each one computes).            *)
(***************************************************************************)
EXTENDS Uart

CONSTANTS
  Addr,      \* program addresses told apart
  Key,       \* the characters on the keyboard
  CpuChar,   \* the characters the guest program prints
  PokeChar,  \* the character the user pokes into THR from the prompt, kept
             \* apart from the program's own
  Mask,      \* the values of the mask bits of cc: subsets of {cc_f, cc_i}
  IerValue,  \* the values written to IER
  Instr,     \* the kinds of instruction the guest program may execute
  Command,   \* the monitor commands the user may give
  MON_NUMBER_OF_BREAKPOINTS,
  IrqCmd,    \* the requests the user may raise and withdraw by `i!X`, `i.X`
  MaxKbd,    \* bound: typed characters waiting
  MaxOut     \* bound: THR is written while the screen has fewer characters

InstrKind == {"internal", "readRbr", "writeThr", "modifyUart", "writeIer",
              "swi", "fault", "badPost", "crash"}
CommandKind == {"g", "s", "sAddr", "t", "i", "b", "m", "mThr", "mIer", "rc",
                "bye"}

ASSUME LoopAssumption ==
  /\ Key \subseteq Char /\ CpuChar \subseteq Char /\ PokeChar \in Char \ CpuChar
  /\ Mask \subseteq SUBSET {cc_f, cc_i} /\ {} \in Mask
  /\ IerValue \subseteq SUBSET UartFlag
  /\ Instr \subseteq InstrKind
  /\ Command \subseteq CommandKind
  /\ IrqCmd \subseteq {irq_rst, irq_nmi, irq_firq, irq_irq}
  /\ MON_NUMBER_OF_BREAKPOINTS \in Nat \ {0}
  /\ MaxKbd \in Nat /\ MaxOut \in Nat

VARIABLES
  phase,        \* what the loop does next, or where it has stopped
  perform_tio,  \* main_perform_tio
  term,         \* terminal mode: "norm" (line editing) or "raw"
  trap,         \* cpu_regs._trap: subset of TrapFlag
  fault,        \* cpu_status.code # sc_ok
  sigint,       \* _sigint_received
  pc,           \* cpu_regs.pc
  mask,         \* cpu_regs.cc \cap {cc_f, cc_i}
  armed,        \* addresses with an enabled break point (module Breakpoints)
  resume,       \* history: the command that left the prompt last
  ran,          \* history: instructions since then, counted up to 2
  erred         \* history: one of them failed

loopVars == <<phase, perform_tio, term, trap, fault, sigint, pc, mask, armed,
              resume, ran, erred>>
vars == <<uartVars, loopVars>>

Phase == {"tio", "irq", "mon", "prompt", "op", "exit", "crash"}
Stopped == phase \in {"exit", "crash"}

TypeOK ==
  /\ UartTypeOK
  /\ phase \in Phase
  /\ perform_tio \in BOOLEAN
  /\ term \in {"norm", "raw"}
  /\ trap \subseteq TrapFlag
  /\ fault \in BOOLEAN
  /\ sigint \in BOOLEAN
  /\ pc \in Addr
  /\ mask \in Mask
  /\ armed \subseteq Addr
  /\ resume \in {"none", "g", "s"}
  /\ ran \in 0..2
  /\ erred \in BOOLEAN

Init ==
  /\ UartInit
  /\ phase = "tio"
  /\ perform_tio = FALSE
  /\ term = "norm"
  /\ trap = {tc_halt}
  /\ fault = FALSE
  /\ sigint = FALSE
  /\ pc \in Addr
  /\ mask = {}
  /\ armed = {}
  /\ resume = "none"
  /\ ran = 0
  /\ erred = FALSE

-----------------------------------------------------------------------------
(***************************************************************************)
(* The first three steps of a turn.                                        *)
(***************************************************************************)

(* Mutant: only what is typed makes the loop look at the terminal. *)
PollOnInput ==
  /\ phase = "tio"
  /\ phase' = "irq"
  /\ IF perform_tio /\ kbd # <<>> THEN tio_exec ELSE UNCHANGED uartVars
  /\ UNCHANGED <<perform_tio, term, trap, fault, sigint, pc, mask, armed,
                 resume, ran, erred>>

PollTerminal ==
  /\ phase = "tio"
  /\ phase' = "irq"
  /\ IF perform_tio THEN tio_exec ELSE UNCHANGED uartVars
  /\ UNCHANGED <<perform_tio, term, trap, fault, sigint, pc, mask, armed,
                 resume, ran, erred>>

(* cpu_execirq: a request that is taken sends pc through its vector.  The  *)
(* stack is taken to lie in RAM, away from the UART's addresses.           *)
AnyInterrupt ==
  /\ phase = "irq"
  /\ phase' = "mon"
  /\ irq' = IrqAfterService(irq, mask)
  /\ IF Deliverable(irq, mask) = {} THEN pc' = pc ELSE pc' \in Addr
  /\ UNCHANGED <<kbd, shown, rbr, thr, lsr, ier, iir, perform_tio, term, trap,
                 fault, sigint, mask, armed, resume, ran, erred>>

(* Mutant: no break points while tracing. *)
BreakpointUntraced == pc \in armed /\ tc_trace \notin trap

_breakpoint_hit == pc \in armed

(* Mutant: ctrl-c is forgotten. *)
HaltIgnoresSigint == fault \/ _breakpoint_hit

(* mon_execmon up to its prompt: what has happened since the last turn is  *)
(* turned into a halt, and a halted or stepping machine stops here.  The   *)
(* line editor takes over whatever was typed ahead.                        *)
MustHalt == fault \/ sigint \/ _breakpoint_hit

(* Mutant: the trap register is read before the halt is written to it. *)
ExecmonStaleTrap ==
  /\ phase = "mon"
  /\ trap' = IF MustHalt THEN trap \cup {tc_halt} ELSE trap
  /\ fault' = FALSE
  /\ sigint' = FALSE
  /\ \/ /\ trap \cap {tc_halt, tc_step} # {}
        /\ phase' = "prompt" /\ term' = "norm" /\ kbd' = <<>>
     \/ /\ trap \cap {tc_halt, tc_step} = {}
        /\ phase' = "op" /\ UNCHANGED <<term, kbd>>
  /\ UNCHANGED <<shown, rbr, thr, lsr, ier, iir, irq, perform_tio, pc, mask,
                 armed, resume, ran, erred>>

mon_execmon ==
  /\ phase = "mon"
  /\ trap' = IF MustHalt THEN trap \cup {tc_halt} ELSE trap
  /\ fault' = FALSE
  /\ sigint' = FALSE
  /\ \/ /\ trap' \cap {tc_halt, tc_step} # {}
        /\ phase' = "prompt" /\ term' = "norm" /\ kbd' = <<>>
     \/ /\ trap' \cap {tc_halt, tc_step} = {}
        /\ phase' = "op" /\ UNCHANGED <<term, kbd>>
  /\ UNCHANGED <<shown, rbr, thr, lsr, ier, iir, irq, perform_tio, pc, mask,
                 armed, resume, ran, erred>>

-----------------------------------------------------------------------------
(***************************************************************************)
(* cpu_execop, one action per kind of instruction.                         *)
(***************************************************************************)
Executes(kind) ==
  /\ phase = "op"
  /\ kind \in Instr
  /\ pc' \in Addr
  /\ ran' = IF ran < 2 THEN ran + 1 ELSE 2
  /\ erred' = (erred \/ kind \in {"fault", "badPost", "crash"})
  /\ UNCHANGED <<kbd, shown, rbr, perform_tio, term, sigint, armed, resume>>

(* Registers and memory only; cc can be loaded with any mask bits. *)
OpInternal ==
  /\ Executes("internal")
  /\ phase' = "tio"
  /\ mask' \in Mask
  /\ UNCHANGED <<thr, lsr, ier, iir, irq, trap, fault>>

OpReadRbr ==
  /\ Executes("readRbr")
  /\ phase' = "tio"
  /\ lsr' = tio_read_rbr(lsr)
  /\ UNCHANGED <<thr, ier, iir, irq, trap, fault, mask>>

Prints(cc) ==
  /\ Len(shown) < MaxOut
  /\ thr' = cc

OpWriteThr(cc) ==
  /\ Executes("writeThr")
  /\ phase' = "tio"
  /\ Prints(cc)
  /\ lsr' = tio_write_thr(lsr)
  /\ UNCHANGED <<ier, iir, irq, trap, fault, mask>>

(* INC, NEG, COM, shifts, ... on the data register read RBR and write THR. *)
OpModifyUart(cc) ==
  /\ Executes("modifyUart")
  /\ phase' = "tio"
  /\ Prints(cc)
  /\ lsr' = tio_write_thr(tio_read_rbr(lsr))
  /\ UNCHANGED <<ier, iir, irq, trap, fault, mask>>

OpWriteIer(value) ==
  /\ Executes("writeIer")
  /\ phase' = "tio"
  /\ ier' = value
  /\ UNCHANGED <<thr, lsr, iir, irq, trap, fault, mask>>

(* SWI, SWI2 and SWI3 only leave a request for the next cpu_execirq. *)
OpSwi(flag) ==
  /\ Executes("swi")
  /\ phase' = "tio"
  /\ irq' = irq \cup {flag}
  /\ UNCHANGED <<thr, lsr, ier, iir, trap, fault, mask>>

(* Mutant: the status code (sc_invalid_opcode) lands in the trap register. *)
OpFaultCodeInTrap ==
  /\ Executes("fault")
  /\ phase' = "tio"
  /\ fault' = TRUE
  /\ trap' = {1}
  /\ UNCHANGED <<thr, lsr, ier, iir, irq, mask>>

(* _errorexit: the whole trap register is overwritten. *)
OpFault ==
  /\ Executes("fault")
  /\ phase' = "tio"
  /\ fault' = TRUE
  /\ trap' = {tc_trap}
  /\ UNCHANGED <<thr, lsr, ier, iir, irq, mask>>

(* An indexed post-byte that does not exist sets the status only; the      *)
(* instruction goes on with a made-up effective address.                   *)
OpBadPost ==
  /\ Executes("badPost")
  /\ phase' = "tio"
  /\ fault' = TRUE
  /\ mask' \in Mask
  /\ UNCHANGED <<thr, lsr, ier, iir, irq, trap>>

(* EXG and TFR with a register number that does not exist report the error *)
(* and then use the null pointer they got.                                 *)
OpCrash ==
  /\ Executes("crash")
  /\ phase' = "crash"
  /\ fault' = TRUE
  /\ trap' = {tc_trap}
  /\ UNCHANGED <<thr, lsr, ier, iir, irq, mask>>

AnyInstruction ==
  \/ OpInternal \/ OpReadRbr \/ OpFault \/ OpBadPost \/ OpCrash
  \/ \E cc \in CpuChar : OpWriteThr(cc) \/ OpModifyUart(cc)
  \/ \E value \in IerValue : OpWriteIer(value)
  \/ \E flag \in {irq_swi, irq_swi2, irq_swi3} : OpSwi(flag)

-----------------------------------------------------------------------------
(***************************************************************************)
(* Commands at the prompt.  Those not listed here (help, the displays, r   *)
(* on another register, m on RAM, l) leave this module's state alone.      *)
(***************************************************************************)
AtPrompt(command) == phase = "prompt" /\ command \in Command

(* Mutants: the terminal is left in line mode; it is not polled. *)
LeaveInLineMode(command) ==
  /\ phase' = "op"
  /\ perform_tio' = TRUE
  /\ resume' = command
  /\ ran' = 0
  /\ erred' = FALSE
  /\ UNCHANGED <<uartVars, term, fault, sigint, mask, armed>>

LeaveUnpolled(command) ==
  /\ phase' = "op"
  /\ term' = "raw"
  /\ resume' = command
  /\ ran' = 0
  /\ erred' = FALSE
  /\ UNCHANGED <<uartVars, perform_tio, fault, sigint, mask, armed>>

(* Leaving the prompt: the instruction at pc follows without another test. *)
Leave(command) ==
  /\ phase' = "op"
  /\ perform_tio' = TRUE
  /\ term' = "raw"
  /\ resume' = command
  /\ ran' = 0
  /\ erred' = FALSE
  /\ UNCHANGED <<uartVars, fault, sigint, mask, armed>>

Stay == UNCHANGED <<phase, perform_tio, term, fault, sigint, resume, ran, erred>>

(* g, gXXXX *)
Go ==
  /\ AtPrompt("g")
  /\ trap' = trap \ {tc_halt, tc_step}
  /\ pc' \in Addr
  /\ Leave("g")

(* Mutant: the step bit is not set. *)
StepRuns ==
  /\ AtPrompt("s")
  /\ trap' = trap \ {tc_halt}
  /\ UNCHANGED pc
  /\ Leave("s")

(* s *)
Step ==
  /\ AtPrompt("s")
  /\ trap' = (trap \ {tc_halt}) \cup {tc_step}
  /\ UNCHANGED pc
  /\ Leave("s")

(* sXXXX prepares the step and asks for the next command. *)
StepFrom ==
  /\ AtPrompt("sAddr")
  /\ trap' = (trap \ {tc_halt}) \cup {tc_step}
  /\ pc' \in Addr
  /\ Stay /\ UNCHANGED <<uartVars, mask, armed>>

(* t!, t. *)
Trace(set) ==
  /\ AtPrompt("t")
  /\ trap' = IF set THEN trap \cup {tc_trace} ELSE trap \ {tc_trace}
  /\ Stay /\ UNCHANGED <<uartVars, pc, mask, armed>>

(* i!X, i.X *)
Interrupt(flag, set) ==
  /\ AtPrompt("i")
  /\ irq' = _irq(irq, flag, set)
  /\ Stay /\ UNCHANGED <<kbd, shown, rbr, thr, lsr, ier, iir, trap, pc, mask, armed>>

(* b!XXXX, b.XXXX, b*XXXX as the set of armed addresses sees them; the     *)
(* module Breakpoints has the table that implements it.                    *)
Table == INSTANCE ArmedSet WITH Room <- MON_NUMBER_OF_BREAKPOINTS

Arm(addr) ==
  /\ AtPrompt("b")
  /\ Table!Arm(addr) \/ Table!Disarm(addr)
  /\ Stay /\ UNCHANGED <<uartVars, trap, pc, mask>>

(* m, mXXXX, m?XXXX where XXXX covers the UART's data register. *)
Inspect ==
  /\ AtPrompt("m")
  /\ lsr' = tio_read_rbr(lsr)
  /\ Stay /\ UNCHANGED <<kbd, shown, rbr, thr, ier, iir, irq, trap, pc, mask, armed>>

(* The same with a new value after the '?'. *)
PokeThr ==
  /\ AtPrompt("mThr") /\ Len(shown) < MaxOut
  /\ lsr' = tio_write_thr(tio_read_rbr(lsr))
  /\ thr' = PokeChar
  /\ Stay /\ UNCHANGED <<kbd, shown, rbr, ier, iir, irq, trap, pc, mask, armed>>

PokeIer(value) ==
  /\ AtPrompt("mIer")
  /\ ier' = value
  /\ Stay /\ UNCHANGED <<kbd, shown, rbr, thr, lsr, iir, irq, trap, pc, mask, armed>>

(* rc *)
SetCc ==
  /\ AtPrompt("rc")
  /\ mask' \in Mask
  /\ Stay /\ UNCHANGED <<uartVars, trap, pc, armed>>

Bye ==
  /\ AtPrompt("bye")
  /\ phase' = "exit"
  /\ UNCHANGED <<uartVars, perform_tio, term, trap, fault, sigint, pc, mask, armed,
                 resume, ran, erred>>

_execcmd ==
  \/ Go \/ Step \/ StepFrom \/ Inspect \/ PokeThr \/ SetCc \/ Bye
  \/ \E set \in BOOLEAN : Trace(set)
  \/ \E flag \in IrqCmd, set \in BOOLEAN : Interrupt(flag, set)
  \/ \E addr \in Addr : Arm(addr)
  \/ \E value \in IerValue : PokeIer(value)

-----------------------------------------------------------------------------
(***************************************************************************)
(* The user and the operating system, between any two steps.               *)
(***************************************************************************)

(* _sig_handler *)
_sig_handler ==
  /\ ~Stopped
  /\ sigint' = TRUE
  /\ UNCHANGED <<uartVars, phase, perform_tio, term, trap, fault, pc, mask, armed,
                 resume, ran, erred>>

Type(cc) ==
  /\ ~Stopped
  /\ Len(kbd) < MaxKbd
  /\ kbd' = Append(kbd, cc)
  /\ UNCHANGED <<shown, rbr, thr, lsr, ier, iir, irq, loopVars>>

(* The process has ended. *)
Ended == Stopped /\ UNCHANGED vars

Next ==
  \/ PollTerminal \/ AnyInterrupt \/ mon_execmon \/ AnyInstruction
  \/ _execcmd
  \/ _sig_handler \/ \E cc \in Key : Type(cc)
  \/ Ended

(* The loop always takes its next step; nothing is expected of the user or *)
(* of the prompt, where the loop waits for a command.                      *)
Fairness ==
  /\ WF_vars(PollTerminal) /\ WF_vars(AnyInterrupt) /\ WF_vars(mon_execmon)
  /\ WF_vars(AnyInstruction)

Spec == Init /\ [][Next]_vars
FairSpec == Spec /\ Fairness
-----------------------------------------------------------------------------
(***************************************************************************)
(* Safety.                                                                 *)
(***************************************************************************)

(* No instruction runs on a halted machine or after one that failed: the   *)
(* poll, the interrupt and the monitor between them never lose the error,  *)
(* which overwrites the trap register or leaves it as it was.              *)
HaltGate == phase = "op" => tc_halt \notin trap /\ ~erred

(* After `s`, one instruction runs and the prompt is back before the next, *)
(* whatever that instruction and the interrupts around it do, the error    *)
(* path that overwrites the trap register included.                        *)
StepsOne == phase = "op" /\ resume = "s" => ran = 0

(* The instruction at an armed address runs only if it is the one the user *)
(* resumes from the prompt, be it reached by an instruction or a vector.   *)
BreakpointStops == phase = "op" /\ pc \in armed => ran = 0

(* The keyboard is polled, and instructions run, in raw mode only (a poll  *)
(* in line mode would block the loop); the prompt and the end of the       *)
(* program find the terminal as the shell left it.                         *)
TermMatchesUse ==
  /\ phase = "op" \/ (phase = "tio" /\ perform_tio) => term = "raw"
  /\ phase \in {"prompt", "exit"} => term = "norm"

(* A reset or an NMI never waits behind an instruction, except when it is  *)
(* requested at the prompt: then the instruction that leaves the prompt    *)
(* runs first, and only that one.                                          *)
NmiNeverWaits ==
  (phase = "mon" \/ (phase = "op" /\ ran # 0)) => irq \cap {irq_rst, irq_nmi} = {}

(* Nothing the program prints waits at the prompt or is still in THR when  *)
(* the next instruction runs: the poll between them has taken it.          *)
PrintedIsTaken ==
  phase \in {"irq", "mon", "prompt", "op"} /\ xxr_thr_empty \notin lsr => thr = PokeChar

(* The terminal the program sees is a SerialPort: what it prints reaches   *)
(* the screen once and in order, never overwritten in THR, and what was    *)
(* received stays in RBR until somebody reads it.                          *)
Port == INSTANCE SerialPort WITH
  Received <- Char, Printed <- CpuChar, Foreign <- {PokeChar}, Shows <- Echoed,
  inbox  <- IF xxr_rbr_full \in lsr THEN <<rbr>> ELSE <<>>,
  outbox <- IF xxr_thr_empty \notin lsr /\ thr # PokeChar THEN <<thr>> ELSE <<>>,
  screen <- shown
IsSerialPort == Port!Spec

(***************************************************************************)
(* Liveness, under the fairness of the loop alone.                         *)
(***************************************************************************)
AwaitsUser == phase \in {"prompt", "exit", "crash"}

(* "Hit ctrl-c to return to the monitor." (the help of g)                  *)
CtrlCReturns == sigint ~> AwaitsUser

(* A requested NMI is taken, or dropped by a reset, unless the user keeps  *)
(* the loop at the prompt.                                                 *)
NmiIsTaken == (irq_nmi \in irq) ~> (irq_nmi \notin irq \/ AwaitsUser)

(* What is written to THR leaves it again.                                 *)
OutputDrains == (xxr_thr_empty \notin lsr) ~> (xxr_thr_empty \in lsr \/ AwaitsUser)
=============================================================================

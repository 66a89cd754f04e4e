----------------------------- MODULE GuestLoop -----------------------------
(***************************************************************************)
(* The virtual machine with its guest: the loop of VmLoop, in which the    *)
(* CPU of Cpu6809 executes one of the programs of GuestPrograms.  What     *)
(* VmLoop leaves open (which instruction comes next, what it touches,      *)
(* where a vector leads) is settled here by the memory; the poll, the      *)
(* monitor and the user are those of VmLoop.                               *)
(***************************************************************************)
EXTENDS VmLoop, Cpu6809, GuestPrograms, SequencesExt

CONSTANTS
  Programs,  \* the programs of the run
  MaxTyped   \* bound: characters typed in all

ASSUME GuestLoopAssumption ==
  /\ Programs \subseteq ProgramName
  /\ Char = Byte /\ CR = 13 /\ LF = 10 /\ NUL = 0
  /\ Addr \subseteq Word
  /\ \A name \in Programs : Line[name] \subseteq Addr
  /\ MaxTyped \in Nat

(* The kinds of instruction and the bounds of VmLoop leave the programs    *)
(* room, and the stack of echoirq has room for a frame per character.      *)
ASSUME RoomAssumption ==
  /\ {"internal", "readRbr", "writeThr", "writeIer", "fault"} \subseteq Instr
  /\ {xxr_rbr_full} \in IerValue
  /\ {toupper[cc] : cc \in Key} \subseteq CpuChar /\ ToSet(Greeting) \subseteq CpuChar
  /\ MaxOut > 2 * MaxTyped /\ MaxOut > Len(Greeting)
  /\ FrameSize * MaxTyped <= \h2000

VARIABLES
  program,   \* the one that main loads
  cpu,       \* the registers and the memory that VmLoop does not have
  received,  \* history: what was put into RBR, as the screen shows it
  typed      \* the number of characters typed

guestVars == <<program, cpu, received, typed>>
allVars == <<vars, guestVars>>

-----------------------------------------------------------------------------
(* The machine of Cpu6809 and its return.                                  *)
Machine ==
  [a |-> cpu.a, b |-> cpu.b, dp |-> cpu.dp, x |-> cpu.x, y |-> cpu.y, u |-> cpu.u,
   s |-> cpu.s, cc |-> cpu.cc, lcr |-> cpu.lcr, mem |-> cpu.mem,
   pc |-> pc, irq |-> irq, trap |-> trap, ok |-> ~fault, crashed |-> FALSE,
   rbr |-> rbr, thr |-> thr, lsr |-> lsr, ier |-> ier, iir |-> iir]

Becomes(n) ==
  /\ cpu' = [a |-> n.a, b |-> n.b, dp |-> n.dp, x |-> n.x, y |-> n.y, u |-> n.u,
             s |-> n.s, cc |-> n.cc, lcr |-> n.lcr, mem |-> n.mem]
  /\ pc' = n.pc /\ irq' = n.irq /\ trap' = n.trap /\ fault' = ~n.ok
  /\ mask' = n.cc \cap {cc_f, cc_i}
  /\ rbr' = n.rbr /\ thr' = n.thr /\ lsr' = n.lsr /\ ier' = n.ier /\ iir' = n.iir
  /\ UNCHANGED <<kbd, shown, perform_tio, term, sigint, armed, resume>>

GuestTypeOK ==
  /\ TypeOK
  /\ program \in Programs
  /\ IsMachine(Machine)
  /\ mask = cpu.cc \cap {cc_f, cc_i}
  /\ received \in Seq(Char)
  /\ typed \in 0..MaxTyped

(* main: the registers are zero but pc, which the reset has loaded with    *)
(* the vector that mon_read has set.                                       *)
GuestInit ==
  /\ Init
  /\ program \in Programs
  /\ pc = VM6809_DEFAULT_START
  /\ cpu = [a |-> 0, b |-> 0, dp |-> 0, x |-> 0, y |-> 0, u |-> 0, s |-> 0, cc |-> {},
            lcr |-> 0,
            mem |-> Written(Written(Loaded[program], 65534, pc \div 256), 65535, pc % 256)]
  /\ received = <<>>
  /\ typed = 0

GuestPoll ==
  /\ PollTerminal
  /\ received' = IF perform_tio /\ Receives THEN received \o Echoed(rbr') ELSE received
  /\ UNCHANGED <<program, cpu, typed>>

GuestInterrupt ==
  /\ phase = "irq"
  /\ phase' = "mon"
  /\ \E n \in {cpu_execirq(Machine)} : Becomes(n)
  /\ UNCHANGED <<ran, erred, program, received, typed>>

GuestMonitor == mon_execmon /\ UNCHANGED guestVars

GuestInstruction ==
  /\ phase = "op"
  /\ \E n \in {cpu_execop(Machine)} :
       /\ Becomes(n)
       /\ phase' = IF n.crashed THEN "crash" ELSE "tio"
       /\ erred' = (erred \/ ~n.ok)
  /\ ran' = IF ran < 2 THEN ran + 1 ELSE 2
  /\ UNCHANGED <<program, received, typed>>

(* g and s; the user does not let a program go on that has failed.         *)
Resume ==
  /\ ~erred
  /\ Go \/ Step
  /\ pc' = pc
  /\ UNCHANGED guestVars

Leaves == Bye /\ UNCHANGED guestVars
CtrlC  == _sig_handler /\ UNCHANGED guestVars
Types(cc) ==
  /\ typed < MaxTyped
  /\ Type(cc)
  /\ typed' = typed + 1
  /\ UNCHANGED <<program, cpu, received>>
HasEnded == Stopped /\ UNCHANGED allVars

GuestNext ==
  \/ GuestPoll \/ GuestInterrupt \/ GuestMonitor \/ GuestInstruction
  \/ Resume \/ Leaves \/ CtrlC \/ \E cc \in Key : Types(cc)
  \/ HasEnded

GuestSpec == GuestInit /\ [][GuestNext]_allVars

(* The loop does not stay in front of one of its four calls: fairness of   *)
(* the call that is due, which is what takes phase elsewhere.              *)
Moves(from) == phase = from /\ phase' \in Phase \ {from}
FairGuestSpec ==
  GuestSpec /\ \A due \in {"tio", "irq", "mon", "op"} : WF_phase(Moves(due))

-----------------------------------------------------------------------------
(* Every step of the machine with its guest is one that VmLoop allows: the *)
(* kinds of instruction there leave out nothing that cpu_execop does to    *)
(* the loop's state.                                                       *)
IsVmLoop == Spec

Printed == shown \o (IF xxr_thr_empty \in lsr THEN <<>> ELSE Echoed(thr))
Due == IF program = "hellow" THEN Greeting ELSE received

(* echo prints what was received, hellow its greeting, in order, without a *)
(* gap and never twice, wherever ctrl-c stops the program in between.       *)
PrintsInOrder == program \in {"echo", "hellow"} => IsPrefix(Printed, Due)

(* echoirq: pc is in the handler, or about to be.                          *)
MainLoop == \h400f..\h4014
Handler  == \h4015..\h4029
Nested == (\h2000 - cpu.s) \div FrameSize

(* Interrupts of the program nest (nothing masks them); the stack is back  *)
(* where it was whenever the main loop runs.                               *)
StackBalanced ==
  program = "echoirq" =>
    /\ pc \in MainLoop => cpu.s = \h2000
    /\ pc \in Handler  => Nested >= 1 /\ cpu.s + FrameSize * Nested = \h2000

Occurrences(cc, seq) == Cardinality({i \in DOMAIN seq : seq[i] = cc})

(* echoirq prints nothing that was not received, and nothing twice; what   *)
(* is still missing is in RBR or in the hands of a handler on the stack.   *)
EchoedOnce ==
  program = "echoirq" =>
    LET characters(seq) == Len(seq) - Occurrences(LF, seq)
        full == IF xxr_rbr_full \in lsr THEN 1 ELSE 0
    IN  /\ \A cc \in ToSet(Printed) : Occurrences(cc, Printed) <= Occurrences(cc, received)
        /\ pc \in MainLoop \cup Handler =>
             characters(received) <= characters(Printed) + Nested + full

(* hellow ends in an invalid opcode; the prompt that reports it comes      *)
(* after the whole greeting.                                               *)
ErrorComesLast == phase = "prompt" /\ erred => shown = Due

(* What was received is shown, once the user types no more (typing is      *)
(* bounded here) and unless the user stops the program.                    *)
CatchesUp ==
  (phase = "op" /\ program \in {"echo", "hellow"}) ~> (shown = Due \/ AwaitsUser)

(* From the first interrupt of echoirq on, every character it receives     *)
(* gets to the screen, likewise: none is stuck in RBR or left in a handler *)
(* that does not return.                                                   *)
InterruptsAnswered ==
  (program = "echoirq" /\ irq_irq \in irq)
    ~> (ToBag(shown) = ToBag(received) \/ AwaitsUser)

(***************************************************************************)
(* What the repository says and the code does not do.                      *)
(***************************************************************************)

(* _09/echoirq.lst:3 "Read a character from the keyboard and echo it to    *)
(* the console": they come out in the order in which they came in.         *)
EchoIrqInOrder == program = "echoirq" => IsPrefix(Printed, received)

(* vmtermio.h:23 IER tells the UART to "generate an interrupt when RBR is  *)
(* full": a program that has enabled it gets to read the character.        *)
ReceivedIsRead ==
  (program = "echoirq" /\ xxr_rbr_full \in lsr) ~> (xxr_rbr_full \notin lsr \/ AwaitsUser)
=============================================================================

----------------------------- MODULE GuestCode -----------------------------
(***************************************************************************)
(* A guest program on the CPU, interrupted between any two instructions:   *)
(* the turns of the main loop that matter to the program, cpu_execirq and  *)
(* cpu_execop, and whoever raises requests (the UART, the monitor).  A     *)
(* history variable remembers what each frame on the hardware stack must   *)
(* bring back.                                                             *)
(***************************************************************************)
EXTENDS Cpu6809, SequencesExt

CONSTANTS
  Start,     \* the machines the program may start on
  Sources,   \* the interrupt requests raised from outside
  MaxFrames  \* bound: nothing is raised above this many frames

ASSUME GuestAssumption ==
  /\ Sources \subseteq {irq_nmi, irq_firq, irq_irq}
  /\ MaxFrames \in Nat
  /\ \A machine \in Start : IsMachine(machine)

VARIABLES
  m,      \* the machine
  step,   \* the call the loop makes next: "irq" or "op"
  frames  \* history: what was put on the stack and is still there

vars == <<m, step, frames>>

op_rts == 57
op_rti == 59
op_pshs_i == 52
op_puls_i == 53
Calls == {23, 189}  \* op_lbsr_r and op_jsr_x, three bytes each

Kind == {"interrupt", "call", "push"}

(* What a frame of each kind must bring back. *)
Saved == [interrupt |-> Register8 \cup Register16 \cup {"cc"},
          call |-> {"s", "pc"},
          push |-> Register8 \cup {"x", "y", "u", "s", "cc"}]
IsFrame(frame) ==
  /\ frame.kind \in Kind
  /\ DOMAIN frame.regs = Saved[frame.kind]
  /\ \A reg \in DOMAIN frame.regs :
       IF reg = "cc" THEN frame.regs[reg] \subseteq CcFlag ELSE frame.regs[reg] \in Word

TypeOK ==
  /\ IsMachine(m)
  /\ step \in {"irq", "op"}
  /\ \A i \in 1..Len(frames) : IsFrame(frames[i])

Init ==
  /\ m \in Start
  /\ step = "irq"
  /\ frames = <<>>

-----------------------------------------------------------------------------
(* A frame: the registers it must bring back, with their values. *)
Frame(kind, machine) ==
  [kind |-> kind, regs |-> [reg \in Saved[kind] |-> machine[reg]]]

Raise(flag) ==
  /\ step = "irq"
  /\ flag \notin m.irq
  /\ Len(frames) + Cardinality(m.irq) < MaxFrames
  /\ m' = [m EXCEPT !.irq = _irq(@, flag, TRUE)]
  /\ UNCHANGED <<step, frames>>

TakeInterrupt ==
  /\ step = "irq"
  /\ step' = "op"
  /\ m' = cpu_execirq(m)
  /\ frames' = IF Deliverable(m.irq, m.cc) = {} THEN frames
               ELSE Append(frames, Frame("interrupt", m))

Opcode == mem_rd8(m, m.pc)
IsPop  == Opcode \in {op_rts, op_rti, op_puls_i}

(* The frames after the instruction at pc.  PSHS and PULS of all registers *)
(* but pc are the ones the programs use.                                   *)
FramesAfter ==
  IF Opcode \in Calls
  THEN Append(frames, Frame("call", [m EXCEPT !.pc = Wrap(@ + 3)]))
  ELSE IF Opcode = op_pshs_i
  THEN Append(frames, Frame("push", m))
  ELSE IF IsPop /\ frames # <<>> THEN Front(frames)
  ELSE frames

Execute ==
  /\ step = "op"
  /\ step' = "irq"
  /\ m' = cpu_execop(m)
  /\ frames' = FramesAfter

Next == TakeInterrupt \/ Execute \/ \E flag \in Sources : Raise(flag)

Spec == Init /\ [][Next]_vars

-----------------------------------------------------------------------------
KindOf(opc) == IF opc = op_rti THEN "interrupt" ELSE IF opc = op_rts THEN "call" ELSE "push"

(* E is set on the way into an interrupt. *)
Same(reg, value, then) ==
  IF reg = "cc" THEN then.cc \ {cc_e} = value \ {cc_e} ELSE then[reg] = value

(* RTI, RTS and PULS bring back exactly what the interrupt, the call or    *)
(* the PSHS they belong to has stacked, wherever interrupts came between.  *)
Restores ==
  Execute /\ IsPop =>
    /\ frames # <<>> /\ Last(frames).kind = KindOf(Opcode)
    /\ \A reg \in DOMAIN Last(frames).regs :
         Same(reg, Last(frames).regs[reg], m')
PopsRestore == [][Restores]_vars

(* What the program and its surroundings have to keep to for that.  The    *)
(* stack and the code that works on it lie in RAM, with room for what is   *)
(* stacked; neither reset nor FIRQ is taken; PSHS and PULS name the same   *)
(* registers; each pop is of the kind of the frame that lies uppermost.    *)
(* The other instructions leave S and what is on the stack alone, and E    *)
(* set if it was.                                                          *)
HasRoom(bytes) == bytes <= m.s /\ m.s <= TIO_BASE_ADDRESS
IsPush == Opcode \in Calls \cup {op_pshs_i}

Orderly ==
  /\ Deliverable(m.irq, m.cc) # {} /\ TakeInterrupt =>
       HasRoom(FrameSize) /\ Serviced(m.irq, m.cc) \notin {irq_rst, irq_firq}
  /\ Execute =>
       /\ IsPush => HasRoom(IF Opcode \in Calls THEN 2 ELSE FrameSize)
       /\ IsPop  => frames # <<>> /\ Last(frames).kind = KindOf(Opcode)
       /\ IsPush \/ IsPop =>
            /\ m.pc + 2 < TIO_BASE_ADDRESS
            /\ Opcode \in {op_pshs_i, op_puls_i} => Cell(m, m.pc + 1) = \h7f
       /\ ~IsPush /\ ~IsPop =>
            /\ m'.s = m.s
            /\ cc_e \in m.cc => cc_e \in m'.cc
            /\ \A addr \in DOMAIN m.mem \cup DOMAIN m'.mem :
                 m.s <= addr /\ addr < TIO_BASE_ADDRESS => Cell(m', addr) = Cell(m, addr)
KeepsStack == [][Orderly]_vars

(* No instruction of the program fails: the machine never meets an opcode, *)
(* a post-byte or a register number that does not exist. Where its stack   *)
(* lies this does not say.                                                 *)
NoError == m.ok

(* A branch goes on behind itself or at its target: as many bytes behind   *)
(* itself as its offset says, which has 16 bits in the long branches.      *)
Offset8(addr)  == _sext816(Cell(m, addr))
IsLong == Opcode = op_page2 \/ Opcode = 22
Behind == m.pc + (IF Opcode = op_page2 THEN 4 ELSE IF Opcode = 22 THEN 3 ELSE 2)
Target == IF IsLong THEN Behind + mem_rd16(m, Behind - 2) ELSE Behind + Offset8(Behind - 1)
IsBranch == \/ Opcode \in 32..47 \/ Opcode = 22
            \/ Opcode = op_page2 /\ Cell(m, m.pc + 1) \in 33..47
BranchLands == [][Execute /\ IsBranch => m'.pc \in {Wrap(Behind), Wrap(Target)}]_vars
=============================================================================

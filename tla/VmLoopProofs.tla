---------------------------- MODULE VmLoopProofs ----------------------------
(***************************************************************************)
(* Proofs about VmLoop for every value of its constants: type correctness, *)
(* the safety invariants of the loop, and that the terminal it drives is a *)
(* SerialPort.                                                             *)
(***************************************************************************)
EXTENDS VmLoop, SequenceTheorems, TLAPS

-----------------------------------------------------------------------------
(* Taking an interrupt never invents a request. *)
LEMMA ServiceOnlyDrops ==
  ASSUME NEW requests, NEW cc
  PROVE  IrqAfterService(requests, cc) \subseteq requests
BY DEF IrqAfterService

(* After cpu_execirq neither a reset nor an NMI is pending: whichever of   *)
(* them was there is the first in rank, and a reset drops the NMI.         *)
LEMMA ServiceTakesNmi ==
  ASSUME NEW requests, NEW cc
  PROVE  IrqAfterService(requests, cc) \cap {irq_rst, irq_nmi} = {}
<1> DEFINE D == Deliverable(requests, cc)
<1>1. /\ Priority[1] = irq_rst
      /\ Priority[2] = irq_nmi
      /\ irq_rst # irq_nmi
  BY DEF Priority, irq_rst, irq_nmi
<1>2. CASE irq_rst \in requests
  <2>1. irq_rst \in D
    BY <1>2 DEF Deliverable, irq_rst, irq_firq, irq_irq
  <2>2. \A k \in 1..7 : IsFirst(k, D) <=> k = 1
    BY <2>1, <1>1 DEF IsFirst
  <2>3. (CHOOSE k \in 1..7 : IsFirst(k, D)) = 1
    BY <2>2
  <2>4. Serviced(requests, cc) = irq_rst
    BY <2>3, <1>1 DEF Serviced
  <2> QED BY <2>1, <2>4 DEF IrqAfterService
<1>3. CASE irq_rst \notin requests /\ irq_nmi \in requests
  <2>1. irq_nmi \in D /\ irq_rst \notin D
    BY <1>3 DEF Deliverable, irq_rst, irq_nmi, irq_firq, irq_irq
  <2>2. \A k \in 1..7 : IsFirst(k, D) <=> k = 2
    BY <2>1, <1>1 DEF IsFirst
  <2>3. (CHOOSE k \in 1..7 : IsFirst(k, D)) = 2
    BY <2>2
  <2>4. Serviced(requests, cc) = irq_nmi
    BY <2>3, <1>1 DEF Serviced
  <2> QED BY <1>3, <2>1, <2>4, <1>1 DEF IrqAfterService
<1>4. CASE irq_rst \notin requests /\ irq_nmi \notin requests
  BY <1>4, ServiceOnlyDrops
<1> QED BY <1>2, <1>3, <1>4

-----------------------------------------------------------------------------
(***************************************************************************)
(* Type correctness.                                                       *)
(***************************************************************************)

(* A poll keeps the terminal's registers and queues well-formed. *)
LEMMA PollKeepsTypes ==
  ASSUME UartTypeOK, tio_exec
  PROVE  UartTypeOK'
<1>1. kbd' \in Seq(Char)
  BY HeadTailProperties DEF UartTypeOK, tio_exec
<1>2. rbr' \in Char
  <2>1. CASE Receives
    BY <2>1, HeadTailProperties, UartAssumption DEF UartTypeOK, tio_exec, Receives
  <2>2. CASE ~Receives
    BY <2>2 DEF UartTypeOK, tio_exec
  <2> QED BY <2>1, <2>2
<1>3. shown' \in Seq(Char)
  <2>1. Echoed(thr) \in Seq(Char)
    BY UartAssumption DEF UartTypeOK, Echoed
  <2> QED BY <2>1, ConcatProperties DEF UartTypeOK, tio_exec
<1>4. Events \subseteq UartFlag
  BY DEF Events, UartFlag
<1>5. lsr' \subseteq UartFlag /\ iir' \subseteq UartFlag
  BY <1>4 DEF UartTypeOK, tio_exec, _generate_interrupt
<1>6. irq' \subseteq IrqFlag
  BY DEF UartTypeOK, tio_exec, _generate_interrupt, _irq, _setclrf, IrqFlag
<1>7. thr' \in Char /\ ier' \subseteq UartFlag
  BY DEF UartTypeOK, tio_exec
<1> QED BY <1>1, <1>2, <1>3, <1>5, <1>6, <1>7 DEF UartTypeOK

(* Every variable keeps its type in every step of the loop, of the user    *)
(* and of the prompt.                                                      *)
LEMMA TypeStep ==
  ASSUME TypeOK, [Next]_vars
  PROVE  TypeOK'
<1> USE DEF TypeOK, UartTypeOK, Phase
<1>1. CASE PollTerminal
  <2>1. UartTypeOK'
    BY <1>1, PollKeepsTypes DEF PollTerminal, uartVars
  <2> QED BY <1>1, <2>1 DEF PollTerminal
<1>2. CASE AnyInterrupt
  BY <1>2, ServiceOnlyDrops DEF AnyInterrupt
<1>3. CASE mon_execmon
  <2>1. trap' \subseteq TrapFlag
    BY <1>3 DEF mon_execmon, TrapFlag
  <2>2. /\ phase' \in {"prompt", "op"} /\ term' \in {"norm", "raw"}
        /\ kbd' \in Seq(Char)
    <3>1. <<>> \in Seq(Char)
      OBVIOUS
    <3>2. phase' \in {"prompt", "op"}
      BY <1>3 DEF mon_execmon
    <3>3. term' \in {"norm", "raw"}
      BY <1>3 DEF mon_execmon
    <3>4. kbd' \in {<<>>, kbd}
      BY <1>3 DEF mon_execmon
    <3> QED BY <3>1, <3>2, <3>3, <3>4
  <2>3. /\ fault' \in BOOLEAN /\ sigint' \in BOOLEAN
        /\ UNCHANGED <<shown, rbr, thr, lsr, ier, iir, irq, perform_tio, pc,
                       mask, armed, resume, ran, erred>>
    BY <1>3 DEF mon_execmon
  <2>4. UartTypeOK'
    BY <2>2, <2>3
  <2>5. /\ phase' \in Phase /\ perform_tio' \in BOOLEAN
        /\ pc' \in Addr /\ mask' \in Mask /\ armed' \subseteq Addr
        /\ resume' \in {"none", "g", "s"} /\ ran' \in 0..2 /\ erred' \in BOOLEAN
    BY <2>2, <2>3
  <2> QED BY <2>1, <2>2, <2>3, <2>4, <2>5
<1>4. ASSUME NEW kind, Executes(kind)
      PROVE  pc' \in Addr /\ ran' \in 0..2 /\ erred' \in BOOLEAN
  BY <1>4 DEF Executes
<1>5. CASE OpInternal
  BY <1>5, <1>4 DEF OpInternal, Executes
<1>6. CASE OpReadRbr
  BY <1>6, <1>4 DEF OpReadRbr, Executes, tio_read_rbr
<1>7. CASE \E cc \in CpuChar : OpWriteThr(cc) \/ OpModifyUart(cc)
  BY <1>7, <1>4, LoopAssumption
  DEF OpWriteThr, OpModifyUart, Prints, Executes, tio_read_rbr, tio_write_thr
<1>8. CASE \E value \in IerValue : OpWriteIer(value)
  BY <1>8, <1>4, LoopAssumption DEF OpWriteIer, Executes
<1>9. CASE \E flag \in {irq_swi, irq_swi2, irq_swi3} : OpSwi(flag)
  BY <1>9, <1>4 DEF OpSwi, Executes, IrqFlag
<1>10. CASE OpFault \/ OpCrash
  BY <1>10, <1>4 DEF OpFault, OpCrash, Executes, TrapFlag
<1>11. CASE OpBadPost
  BY <1>11, <1>4 DEF OpBadPost, Executes
<1>12. CASE Go \/ Step
  <2>1. trap' \subseteq TrapFlag /\ pc' \in Addr
    BY <1>12 DEF Go, Step, TrapFlag
  <2>2. resume' \in {"g", "s"} /\ Leave(resume')
    BY <1>12 DEF Go, Step, Leave
  <2>3. perform_tio' \in BOOLEAN /\ erred' \in BOOLEAN
    BY <2>2 DEF Leave
  <2> QED BY <2>1, <2>2, <2>3 DEF Leave, uartVars
<1>13. CASE StepFrom \/ \E set \in BOOLEAN : Trace(set)
  BY <1>13 DEF StepFrom, Trace, Stay, uartVars, TrapFlag
<1>14. CASE \E flag \in IrqCmd, set \in BOOLEAN : Interrupt(flag, set)
  <2>1. IrqCmd \subseteq IrqFlag
    BY LoopAssumption DEF IrqFlag
  <2> QED BY <1>14, <2>1 DEF Interrupt, Stay, _irq, _setclrf
<1>15. CASE \E addr \in Addr : Arm(addr)
  <2>1. PICK addr \in Addr : Arm(addr)
    BY <1>15
  <2>2. armed' \subseteq Addr
    BY <2>1 DEF Arm, Table!Arm, Table!Disarm, Table!AfterArming, TypeOK
  <2> QED BY <2>1, <2>2 DEF Arm, Stay, uartVars
<1>16. CASE Inspect \/ PokeThr
  BY <1>16, LoopAssumption
  DEF Inspect, PokeThr, Stay, tio_read_rbr, tio_write_thr
<1>17. CASE \E value \in IerValue : PokeIer(value)
  BY <1>17, LoopAssumption DEF PokeIer, Stay
<1>18. CASE SetCc
  BY <1>18 DEF SetCc, Stay, uartVars
<1>19. CASE Bye
  BY <1>19 DEF Bye, uartVars
<1>20. CASE _sig_handler
  BY <1>20 DEF _sig_handler, uartVars
<1>21. CASE \E cc \in Key : Type(cc)
  <2>1. PICK cc \in Key : Type(cc)
    BY <1>21
  <2>2. kbd' \in Seq(Char)
    BY <2>1, LoopAssumption, AppendProperties DEF Type
  <2> QED BY <2>1, <2>2 DEF Type, loopVars
<1>22. CASE Ended \/ UNCHANGED vars
  BY <1>22 DEF Ended, vars, uartVars, loopVars
<1> QED
  BY <1>1, <1>2, <1>3, <1>5, <1>6, <1>7, <1>8, <1>9, <1>10, <1>11, <1>12,
     <1>13, <1>14, <1>15, <1>16, <1>17, <1>18, <1>19, <1>20, <1>21, <1>22
  DEF Next, AnyInstruction, _execcmd

LEMMA TypeStart == Init => TypeOK
<1> SUFFICES ASSUME Init PROVE TypeOK
  OBVIOUS
<1>1. UartTypeOK
  BY UartAssumption DEF Init, UartInit, UartTypeOK, UartFlag
<1>2. mask \in Mask /\ trap \subseteq TrapFlag
  BY LoopAssumption DEF Init, TrapFlag
<1>3. /\ phase \in Phase /\ term \in {"norm", "raw"}
      /\ resume \in {"none", "g", "s"} /\ ran \in 0..2
  BY DEF Init, Phase
<1>4. /\ perform_tio \in BOOLEAN /\ fault \in BOOLEAN /\ sigint \in BOOLEAN
      /\ pc \in Addr /\ armed \subseteq Addr /\ erred \in BOOLEAN
  BY DEF Init
<1> QED BY <1>1, <1>2, <1>3, <1>4 DEF TypeOK

(* Type correctness. *)
THEOREM TypeCorrect == Spec => []TypeOK
<1>1. TypeOK /\ [Next]_vars => TypeOK'
  BY TypeStep
<1> QED BY <1>1, TypeStart, PTL DEF Spec

-----------------------------------------------------------------------------
(***************************************************************************)
(* The inductive invariant of the loop.  The properties of VmLoop speak of *)
(* the moment an instruction is about to run; what they need is how the    *)
(* rest of the turn prepares that moment.                                  *)
(***************************************************************************)

(* Before the first prompt the machine is halted and the terminal idle. *)
BeforeFirstPrompt ==
  phase \in {"tio", "irq", "mon"} /\ ~perform_tio =>
    tc_halt \in trap /\ (xxr_thr_empty \in lsr \/ thr = PokeChar)

(* From then on the loop runs in raw mode. *)
Running == phase = "op" \/ (phase \in {"tio", "irq", "mon"} /\ perform_tio)
RawWhileRunning == /\ Running => perform_tio /\ term = "raw"
                   /\ phase \in {"prompt", "exit"} => term = "norm"

(* After `s` the step bit survives until the monitor looks at it, or else  *)
(* the error that overwrote it is still recorded.                          *)
StepDue ==
  resume = "s" /\ phase \in {"tio", "irq", "mon", "op"} =>
    tc_step \in trap \/ (fault /\ phase # "op")

FaultSeen == phase \in {"prompt", "op"} => ~fault

(* An error is recorded until the monitor has been told. *)
ErrorDue == erred /\ phase \in {"tio", "irq", "mon"} => fault

LoopInv ==
  /\ HaltGate /\ StepsOne /\ BreakpointStops /\ TermMatchesUse
  /\ NmiNeverWaits /\ PrintedIsTaken
  /\ BeforeFirstPrompt /\ RawWhileRunning /\ StepDue /\ FaultSeen /\ ErrorDue

(* Every step that is not a prompt command, an instruction or one of the   *)
(* three steps before it leaves alone all LoopInv depends on.              *)
LoopInvVars == <<phase, perform_tio, term, trap, fault, pc, armed, resume, ran,
                 erred, irq, lsr, thr>>

LEMMA LoopInvStep ==
  ASSUME TypeOK, LoopInv, [Next]_vars
  PROVE  LoopInv'
<1> USE DEF LoopInv, HaltGate, StepsOne, BreakpointStops, TermMatchesUse,
            NmiNeverWaits, PrintedIsTaken, BeforeFirstPrompt, Running,
            RawWhileRunning, StepDue, FaultSeen, ErrorDue
<1>1. CASE PollTerminal
  <2>1. CASE perform_tio
    <3>1. xxr_thr_empty \in lsr'
      BY <1>1, <2>1 DEF PollTerminal, tio_exec, Events, Sends
    <3> QED BY <1>1, <2>1, <3>1 DEF PollTerminal
  <2>2. CASE ~perform_tio
    BY <1>1, <2>2 DEF PollTerminal, uartVars
  <2> QED BY <2>1, <2>2
<1>2. CASE AnyInterrupt
  BY <1>2, ServiceTakesNmi DEF AnyInterrupt
<1>3. CASE mon_execmon
  <2>1. CASE phase' = "prompt"
    BY <1>3, <2>1 DEF mon_execmon
  <2>2. CASE phase' = "op"
    <3>1. trap' = trap /\ ~MustHalt /\ tc_halt \notin trap /\ tc_step \notin trap
      BY <1>3, <2>2 DEF mon_execmon
    <3>2. ~fault /\ pc \notin armed /\ resume # "s" /\ perform_tio
      BY <1>3, <3>1 DEF MustHalt, _breakpoint_hit, mon_execmon
    <3> QED BY <1>3, <2>2, <3>1, <3>2 DEF mon_execmon
  <2> QED BY <1>3, <2>1, <2>2 DEF mon_execmon
<1>4. CASE AnyInstruction
  <2>1. /\ phase = "op" /\ phase' \in {"tio", "crash"}
        /\ perform_tio' = perform_tio /\ term' = term /\ resume' = resume
    BY <1>4
    DEF AnyInstruction, OpInternal, OpReadRbr, OpWriteThr, OpModifyUart, OpWriteIer,
        OpSwi, OpFault, OpBadPost, OpCrash, Executes
  <2>2. /\ trap' = trap \/ fault'
        /\ erred' => erred \/ fault'
        /\ fault => fault'
    BY <1>4
    DEF AnyInstruction, OpInternal, OpReadRbr, OpWriteThr, OpModifyUart, OpWriteIer,
        OpSwi, OpFault, OpBadPost, OpCrash, Executes
  <2> QED BY <2>1, <2>2
<1>5. CASE Go \/ Step
  <2>1. /\ phase = "prompt" /\ phase' = "op" /\ perform_tio' /\ term' = "raw"
        /\ ran' = 0 /\ fault' = fault /\ ~erred'
        /\ UNCHANGED <<lsr, thr>>
    BY <1>5 DEF Go, Step, Leave, AtPrompt, uartVars
  <2>2. tc_halt \notin trap' /\ (resume' = "s" => tc_step \in trap')
    BY <1>5 DEF Go, Step, Leave, tc_halt, tc_step
  <2> QED BY <2>1, <2>2
<1>6. CASE StepFrom \/ SetCc \/ \E set \in BOOLEAN : Trace(set)
  BY <1>6 DEF StepFrom, SetCc, Trace, AtPrompt, Stay, uartVars
<1>7. CASE \E flag \in IrqCmd, set \in BOOLEAN : Interrupt(flag, set)
  BY <1>7 DEF Interrupt, AtPrompt, Stay
<1>8. CASE \E addr \in Addr : Arm(addr)
  BY <1>8 DEF Arm, AtPrompt, Stay, uartVars
<1>9. CASE Inspect \/ PokeThr \/ \E value \in IerValue : PokeIer(value)
  BY <1>9 DEF Inspect, PokeThr, PokeIer, AtPrompt, Stay, tio_read_rbr,
              tio_write_thr, xxr_rbr_full, xxr_thr_empty
<1>10. CASE Bye
  BY <1>10 DEF Bye, AtPrompt, uartVars
<1>11. CASE _sig_handler \/ (\E cc \in Key : Type(cc)) \/ Ended \/ UNCHANGED vars
  <2>1. UNCHANGED LoopInvVars
    BY <1>11 DEF _sig_handler, Type, Ended, vars, uartVars, loopVars, LoopInvVars
  <2> QED BY <2>1 DEF LoopInvVars
<1> QED
  BY <1>1, <1>2, <1>3, <1>4, <1>5, <1>6, <1>7, <1>8, <1>9, <1>10, <1>11
  DEF Next, _execcmd

LEMMA LoopInvStart == Init => LoopInv
BY DEF Init, UartInit, LoopInv, HaltGate, StepsOne, BreakpointStops, TermMatchesUse,
       NmiNeverWaits, PrintedIsTaken, BeforeFirstPrompt, Running, RawWhileRunning, StepDue,
       FaultSeen, ErrorDue

(* The invariant holds in every reachable state of every instance. *)
THEOREM LoopInvariant == Spec => []LoopInv
<1>1. TypeOK /\ LoopInv /\ [Next]_vars => LoopInv'
  BY LoopInvStep
<1> QED BY <1>1, LoopInvStart, TypeCorrect, PTL DEF Spec

(* An instruction never runs on a halted machine or after one that failed. *)
THEOREM HaltGateHolds == Spec => []HaltGate
<1>1. LoopInv => HaltGate
  BY DEF LoopInv
<1> QED BY <1>1, LoopInvariant, PTL

(* After `s` exactly one instruction runs before the prompt is back.       *)
THEOREM StepsOneHolds == Spec => []StepsOne
<1>1. LoopInv => StepsOne
  BY DEF LoopInv
<1> QED BY <1>1, LoopInvariant, PTL

(* The instruction at an armed address waits for the user.                 *)
THEOREM BreakpointStopsHolds == Spec => []BreakpointStops
<1>1. LoopInv => BreakpointStops
  BY DEF LoopInv
<1> QED BY <1>1, LoopInvariant, PTL

(* The terminal is polled in raw mode and prompts in line mode.            *)
THEOREM TermMatchesUseHolds == Spec => []TermMatchesUse
<1>1. LoopInv => TermMatchesUse
  BY DEF LoopInv
<1> QED BY <1>1, LoopInvariant, PTL

(* A reset or an NMI is taken before the next instruction.                 *)
THEOREM NmiNeverWaitsHolds == Spec => []NmiNeverWaits
<1>1. LoopInv => NmiNeverWaits
  BY DEF LoopInv
<1> QED BY <1>1, LoopInvariant, PTL

(* What the program has printed has left THR when the next instruction     *)
(* runs.                                                                   *)
THEOREM PrintedIsTakenHolds == Spec => []PrintedIsTaken
<1>1. LoopInv => PrintedIsTaken
  BY DEF LoopInv
<1> QED BY <1>1, LoopInvariant, PTL

-----------------------------------------------------------------------------
(***************************************************************************)
(* The terminal is a SerialPort.                                           *)
(***************************************************************************)
Inbox  == IF xxr_rbr_full \in lsr THEN <<rbr>> ELSE <<>>
Outbox == IF xxr_thr_empty \notin lsr /\ thr # PokeChar THEN <<thr>> ELSE <<>>

(* A poll of the terminal is a poll of the port. *)
LEMMA PollIsPoll ==
  ASSUME TypeOK, tio_exec
  PROVE  Port!Poll
<1>1. Port!Receive \/ Inbox' = Inbox
  <2>1. CASE Receives
    <3>1. Inbox = <<>> /\ Inbox' = <<rbr'>>
      BY <2>1 DEF Receives, Inbox, tio_exec, Events
    <3>2. rbr' \in Char
      BY PollKeepsTypes DEF TypeOK, UartTypeOK
    <3> QED BY <3>1, <3>2 DEF Port!Receive, Inbox
  <2>2. CASE ~Receives
    BY <2>2 DEF tio_exec, Events, Inbox, xxr_rbr_full, xxr_thr_empty
  <2> QED BY <2>1, <2>2
<1>2. Port!Show \/ (Outbox = <<>> /\ Outbox' = Outbox /\ shown' = shown)
  <2>1. CASE Sends
    <3>1. Outbox' = <<>>
      BY <2>1 DEF tio_exec, Events, Outbox
    <3>2. shown' = shown \o Echoed(thr)
      BY <2>1 DEF tio_exec
    <3>3. CASE thr # PokeChar
      <4>1. Outbox # <<>> /\ Outbox[1] = thr
        BY <2>1, <3>3 DEF Sends, Outbox
      <4> QED BY <4>1, <3>1, <3>2 DEF Port!Show, Outbox
    <3>4. CASE thr = PokeChar
      <4>1. Outbox = <<>>
        BY <3>4 DEF Outbox
      <4> QED BY <4>1, <3>4, <3>1, <3>2 DEF Port!Show, Outbox
    <3> QED BY <3>3, <3>4
  <2>2. CASE ~Sends
    BY <2>2 DEF Sends, tio_exec, Events, Outbox
  <2> QED BY <2>1, <2>2
<1> QED BY <1>1, <1>2 DEF Port!Poll, Inbox, Outbox

(* Every step of the machine is a step of the port or leaves it alone. *)
LEMMA PortStep ==
  ASSUME TypeOK, LoopInv, [Next]_vars
  PROVE  [Port!Next]_<<Inbox, Outbox, shown>>
<1> DEFINE Still == Inbox' = Inbox /\ Outbox' = Outbox /\ shown' = shown
<1>1. xxr_rbr_full # xxr_thr_empty
  BY DEF xxr_rbr_full, xxr_thr_empty
<1>2. CASE PollTerminal
  <2>1. CASE perform_tio
    BY <1>2, <2>1, PollIsPoll DEF PollTerminal, Port!Next, Inbox, Outbox
  <2>2. CASE ~perform_tio
    BY <1>2, <2>2 DEF PollTerminal, uartVars, Inbox, Outbox
  <2> QED BY <2>1, <2>2
<1>3. CASE OpReadRbr \/ Inspect
  <2>1. lsr' = lsr \ {xxr_rbr_full} /\ UNCHANGED <<rbr, thr, shown>>
    BY <1>3 DEF OpReadRbr, Executes, Inspect, tio_read_rbr
  <2>2. Inbox' = <<>> /\ Outbox' = Outbox
    BY <2>1, <1>1 DEF Inbox, Outbox
  <2> QED BY <2>1, <2>2 DEF Port!Next, Port!Read, Port!Take, Inbox, Outbox
<1>4. CASE \E cc \in CpuChar : OpWriteThr(cc) \/ OpModifyUart(cc)
  <2>1. PICK cc \in CpuChar : OpWriteThr(cc) \/ OpModifyUart(cc)
    BY <1>4
  <2>2. Outbox = <<>>
    BY <2>1 DEF OpWriteThr, OpModifyUart, Executes, LoopInv, PrintedIsTaken, Outbox
  <2>3. Outbox' = <<cc>>
    BY <2>1, LoopAssumption
    DEF OpWriteThr, OpModifyUart, Prints, tio_write_thr, tio_read_rbr, Outbox
  <2>4. Inbox' = Inbox \/ Inbox' = <<>>
    BY <2>1, <1>1
    DEF OpWriteThr, OpModifyUart, Executes, tio_write_thr, tio_read_rbr, Inbox
  <2>5. shown' = shown
    BY <2>1 DEF OpWriteThr, OpModifyUart, Executes
  <2> QED BY <2>2, <2>3, <2>4, <2>5 DEF Port!Next, Port!Emit, Port!Take, Inbox, Outbox
<1>5. CASE PokeThr
  <2>1. Outbox = <<>> /\ Outbox' = <<>>
    BY <1>5 DEF PokeThr, AtPrompt, LoopInv, PrintedIsTaken, Outbox
  <2>2. Inbox' = <<>> /\ shown' = shown
    BY <1>5, <1>1 DEF PokeThr, tio_write_thr, tio_read_rbr, Inbox
  <2> QED BY <2>1, <2>2 DEF Port!Next, Port!Read, Port!Take, Inbox, Outbox
<1>6. CASE UNCHANGED <<lsr, rbr, thr, shown>>
  BY <1>6 DEF Inbox, Outbox
<1>7. CASE AnyInstruction
  <2>1. CASE \/ OpInternal \/ OpFault \/ OpBadPost \/ OpCrash
             \/ (\E value \in IerValue : OpWriteIer(value))
             \/ (\E flag \in {irq_swi, irq_swi2, irq_swi3} : OpSwi(flag))
    <3>1. UNCHANGED <<lsr, rbr, thr, shown>>
      BY <2>1 DEF OpInternal, OpFault, OpBadPost, OpCrash, OpWriteIer, OpSwi, Executes
    <3> QED BY <3>1, <1>6
  <2> QED BY <1>7, <1>3, <1>4, <2>1 DEF AnyInstruction
<1>8. CASE _execcmd
  <2>1. CASE \/ Go \/ Step \/ StepFrom \/ SetCc \/ Bye
             \/ (\E set \in BOOLEAN : Trace(set))
             \/ (\E flag \in IrqCmd, set \in BOOLEAN : Interrupt(flag, set))
             \/ (\E addr \in Addr : Arm(addr))
             \/ (\E value \in IerValue : PokeIer(value))
    <3>1. UNCHANGED <<lsr, rbr, thr, shown>>
      BY <2>1 DEF Go, Step, Leave, StepFrom, SetCc, Bye, Trace, Interrupt, Arm,
                  PokeIer, uartVars
    <3> QED BY <3>1, <1>6
  <2> QED BY <1>8, <1>3, <1>5, <2>1 DEF _execcmd
<1>9. CASE \/ AnyInterrupt \/ mon_execmon \/ _sig_handler \/ Ended \/ UNCHANGED vars
           \/ (\E cc \in Key : Type(cc))
  <2>1. UNCHANGED <<lsr, rbr, thr, shown>>
    BY <1>9 DEF AnyInterrupt, mon_execmon, _sig_handler, Ended, Type, vars, uartVars
  <2> QED BY <2>1, <1>6
<1> QED BY <1>2, <1>7, <1>8, <1>9 DEF Next

(* Whatever the guest program, the user and the interrupts do, the program *)
(* never loses or reorders what it prints and never loses a character it   *)
(* was told about.                                                         *)
THEOREM TerminalIsSerialPort == Spec => IsSerialPort
<1>1. Init => Port!Init
  BY DEF Init, UartInit, Port!Init, xxr_rbr_full, xxr_thr_empty
<1>2. TypeOK /\ LoopInv /\ [Next]_vars => [Port!Next]_<<Inbox, Outbox, shown>>
  BY PortStep
<1> QED BY <1>1, <1>2, TypeCorrect, LoopInvariant, PTL
        DEF Spec, IsSerialPort, Port!Spec, Inbox, Outbox
=============================================================================

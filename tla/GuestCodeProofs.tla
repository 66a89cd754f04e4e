--------------------------- MODULE GuestCodeProofs ---------------------------
(***************************************************************************)
(* Proofs about GuestCode for every program: its types, and that a program *)
(* that keeps its stack in order finds its registers again behind every    *)
(* interrupt, call and PSHS; which programs do; that only code that is     *)
(* none fails; and where the branches go.                                  *)
(***************************************************************************)
EXTENDS GuestCode, InstructionProofs, SequenceTheorems

-----------------------------------------------------------------------------
(***************************************************************************)
(* Types.                                                                  *)
(***************************************************************************)
FramesOf(kind) == [kind : {kind}, regs : [Saved[kind] -> Word \cup SUBSET CcFlag]]
Frames == {frame \in UNION {FramesOf(kind) : kind \in Kind} : IsFrame(frame)}

(* The frames are a sequence, which TypeOK leaves out. *)
TypeInv == TypeOK /\ frames \in Seq(Frames)

LEMMA ByteIsWord == Byte \subseteq Word
BY ByteRange, WordRange

LEMMA KindsSave ==
  ASSUME NEW kind \in Kind
  PROVE  Saved[kind] \subseteq Field
BY DEF Kind, Saved, Field, Register8, Register16

LEMMA FramesAreFrames ==
  ASSUME NEW machine, IsMachine(machine), NEW kind \in Kind
  PROVE  Frame(kind, machine) \in Frames
<1> DEFINE frame == Frame(kind, machine)
<1>1. \A reg \in Field : IF reg = "cc" THEN machine[reg] \subseteq CcFlag ELSE machine[reg] \in Word
  <2>1. \A reg \in Register8 \cup Register16 : machine[reg] \in Word /\ reg # "cc"
    BY NamedTypes, NamesDiffer, ByteIsWord
  <2> QED BY <2>1, FieldsOfMachine DEF Field
<1>2. /\ frame.kind = kind /\ DOMAIN frame.regs = Saved[kind]
      /\ \A reg \in Saved[kind] : frame.regs[reg] = machine[reg]
  BY DEF Frame
<1>3. IsFrame(frame)
  BY <1>1, <1>2, KindsSave DEF IsFrame
<1>4. frame.regs \in [Saved[kind] -> Word \cup SUBSET CcFlag]
  <2>1. frame.regs = [reg \in Saved[kind] |-> machine[reg]]
    BY DEF Frame
  <2> HIDE DEF frame
  <2> QED BY <1>1, <2>1, KindsSave
<1>5. frame \in FramesOf(kind)
  BY <1>4 DEF FramesOf, Frame
<1> HIDE DEF frame
<1>6. frame \in Frames
  BY <1>3, <1>5 DEF Frames
<1> QED BY <1>6 DEF frame

LEMMA FrontReads ==
  ASSUME NEW S, NEW seq \in Seq(S)
  PROVE  /\ Front(seq) \in Seq(S)
         /\ seq # <<>> => /\ Len(Front(seq)) = Len(seq) - 1
                          /\ \A i \in 1..(Len(seq) - 1) : Front(seq)[i] = seq[i]
<1> DEFINE last == Len(seq) - 1
<1>1. Len(seq) \in Nat /\ last \in Int
  BY LenProperties
<1>2. \A i \in 1..last : seq[i] \in S
  BY <1>1, ElementOfSeq
<1>3. seq # <<>> => last >= 0
  BY <1>1, EmptySeq
<1>4. Front(seq) = SubSeq(seq, 1, last)
  BY DEF Front
<1> HIDE DEF last
<1>5. /\ Front(seq) \in Seq(S)
      /\ Len(Front(seq)) = IF 1 <= last THEN last - 1 + 1 ELSE 0
      /\ \A i \in 1..(last - 1 + 1) : Front(seq)[i] = seq[1 + i - 1]
  BY <1>1, <1>2, <1>4, SubSeqProperties
<1>6. last - 1 + 1 = last /\ \A i \in 1..last : 1 + i - 1 = i
  BY <1>1
<1>7. seq # <<>> => Len(Front(seq)) = last
  BY <1>1, <1>3, <1>5
<1> QED BY <1>5, <1>6, <1>7 DEF last

LEMMA RequestsStayTypes ==
  ASSUME NEW machine, IsMachine(machine), NEW flag \in IrqFlag
  PROVE  IsMachine([machine EXCEPT !.irq = _irq(@, flag, TRUE)])
<1>1. _irq(machine.irq, flag, TRUE) \in SUBSET IrqFlag
  BY FieldsOfMachine DEF _irq, _setclrf
<1> QED BY <1>1, PutSets

LEMMA TypeStarts == Init => TypeInv
BY GuestAssumption DEF Init, TypeInv, TypeOK

LEMMA TypeStep ==
  ASSUME TypeInv, [Next]_vars
  PROVE  TypeInv'
<1> USE DEF TypeInv, TypeOK
<1>1. ASSUME frames' \in Seq(Frames)
      PROVE  \A i \in 1..Len(frames') : IsFrame(frames'[i])
  <2>1. \A i \in 1..Len(frames') : frames'[i] \in Frames
    BY <1>1, ElementOfSeq
  <2> QED BY <2>1 DEF Frames
<1>2. CASE TakeInterrupt
  <2>1. frames' \in Seq(Frames)
    BY <1>2, FramesAreFrames, AppendProperties DEF TakeInterrupt, Kind
  <2> QED BY <1>1, <1>2, <2>1, InterruptsKeepMachine DEF TakeInterrupt
<1>3. CASE Execute
  <2>1. frames' \in Seq(Frames)
    <3>1. IsMachine([m EXCEPT !.pc = Wrap(@ + 3)])
      <4>1. IsMachine([m EXCEPT !["pc"] = Wrap(@ + 3)])
        BY SkipTypes DEF Register16
      <4> QED BY <4>1
    <3>2. Front(frames) \in Seq(Frames)
      BY FrontReads
    <3>3. \A frame \in Frames : Append(frames, frame) \in Seq(Frames)
      BY AppendProperties
    <3> QED BY <1>3, <3>1, <3>2, <3>3, FramesAreFrames DEF Execute, FramesAfter, Kind
  <2> QED BY <1>1, <1>3, <2>1, InstructionsKeepMachine DEF Execute
<1>4. CASE \E flag \in Sources : Raise(flag)
  BY <1>4, GuestAssumption, RequestsStayTypes, IrqNames DEF Raise
<1>5. CASE UNCHANGED vars
  BY <1>5 DEF vars
<1> QED BY <1>2, <1>3, <1>4, <1>5 DEF Next

(* The machine stays one, whatever the program and whenever it is          *)
(* interrupted, and every frame has a value for each register it saves.    *)
THEOREM GuestTypes == Spec => []TypeOK
<1>1. TypeInv /\ [Next]_vars => TypeInv'
  BY TypeStep
<1>2. TypeInv => TypeOK
  BY DEF TypeInv
<1> QED BY <1>1, <1>2, TypeStarts, PTL DEF Spec
-----------------------------------------------------------------------------
(***************************************************************************)
(* The stack.  Behind every frame stands a machine: the one that was       *)
(* stacked, with pc behind the instruction that did it.  The machine of    *)
(* the next frame, or the present one above the last, has the stack that   *)
(* the push has left.                                                      *)
(***************************************************************************)
AllRegisters == Bits(\h7f)  \* the operand of PSHS and PULS: all but pc

After(kind, k) ==
  IF kind = "interrupt" THEN _pushstate(k)
  ELSE IF kind = "call" THEN Push(k, "s", "pc")
  ELSE _pushregs(k, AllRegisters, "s", "u")
Room(kind) == IF kind = "call" THEN 2 ELSE FrameSize

OnStack(n, k) ==
  /\ n.s = k.s
  /\ \A addr \in Int : k.s <= addr /\ addr < TIO_BASE_ADDRESS => Cell(n, addr) = Cell(k, addr)

Above(ms, i) == IF i < Len(frames) THEN ms[i + 1] ELSE m

Stacks(i, k) ==
  /\ IsMachine(k) /\ Room(frames[i].kind) <= k.s /\ k.s <= TIO_BASE_ADDRESS
  /\ frames[i] = Frame(frames[i].kind, k)
Linked(ms) ==
  \A i \in 1..Len(frames) :
    /\ Stacks(i, ms[i])
    /\ OnStack(Above(ms, i), After(frames[i].kind, ms[i]))
    /\ \A j \in 1..i : frames[j].kind = "interrupt" => cc_e \in Above(ms, i).cc

(* Every frame is where its pop will look for it, and E is set in every    *)
(* handler.                                                                *)
StackInv == TypeInv /\ \E ms : Linked(ms)

-----------------------------------------------------------------------------
(***************************************************************************)
(* The instructions that work on the stack.                                *)
(***************************************************************************)
LEMMA CallInstruction ==
  ASSUME NEW k, IsMachine(k), NEW opc \in Calls, InCode(k, 3), Cell(k, k.pc) = opc
  PROVE  \E ea : cpu_execop(k) = Call([k EXCEPT !.pc = k.pc + 3], ea)
<1> DEFINE n == [k EXCEPT !.pc = k.pc + 1]
           far == [k EXCEPT !.pc = k.pc + 3]
<1>1. opc # op_page2 /\ opc # op_page3 /\ opc \in {23, 189}
  BY DEF Calls, op_page2, op_page3
<1>2. cpu_execop(k) = ExecPage1(_eafromopc(n, opc).m, opc, _eafromopc(n, opc).val)
  <2>1. InCode(k, 1)
    BY DEF InCode, TIO_BASE_ADDRESS
  <2> QED BY <1>1, <2>1, Decoded
<1>3. _eafromopc(n, opc).m = far
  <2>1. CASE opc = 189
    <3>1. 189 \div 16 = 11
      OBVIOUS
    <3>2. _eafromopc(n, opc) = [val |-> Operand16(k), m |-> far]
      BY <2>1, <3>1, ExtendedAddress
    <3> HIDE DEF far
    <3> QED BY <3>2
  <2>2. CASE opc = 23
    <3>1. 23 \div 16 = 1 /\ 23 % 16 = 7
      OBVIOUS
    <3>2. _eafromopc(n, opc) = _earelative(n, 2)
      BY <2>2, <3>1 DEF _eafromopc
    <3>3. _earelative(n, 2).m = [n EXCEPT !.pc = Wrap(@ + 2)]
      BY DEF _earelative
    <3>4. Wrap((k.pc + 1) + 2) = k.pc + 3
      BY NextPc DEF InCode
    <3>5. [n EXCEPT !.pc = Wrap(@ + 2)] = far
      BY <3>4 DEF IsMachine
    <3> HIDE DEF far, n
    <3> QED BY <3>2, <3>3, <3>5
  <2> QED BY <1>1, <2>1, <2>2
<1>4. \A h, ea : ExecPage1(h, opc, ea) = Call(h, ea)
  <2>1. /\ opc \div 16 \notin {0, 2, 4, 5, 6, 7} /\ opc \notin {13, 14, 110, 126}
        /\ opc \notin {18, 25, 29, 58, 61} /\ opc # 22 /\ opc \in {23, 141, 157, 173, 189}
        /\ opc \notin {26, 28} /\ opc \notin {30, 31} /\ opc \notin 48..51
        /\ opc \notin 52..55 /\ opc \notin {57, 59, 63}
    BY <1>1
  <2>2. opc >= 128 => /\ Nibble(opc) \notin Operations8 /\ Nibble(opc) # 7
                      /\ Row(opc) # 131 /\ Row(opc) # 195
                      /\ ~IsLoad16(1, opc) /\ ~IsStore16(1, opc) /\ ~IsCmp16(1, opc)
    <3>1. opc >= 128 => Nibble(opc) = 13 /\ Row(opc) = 141
      BY <1>1 DEF Nibble, Row, Mode
    <3> QED BY <3>1 DEF Operations8, IsLoad16, IsStore16, IsCmp16, Load16, Store16, Cmp16
  <2>3. ~(opc >= 128) => ~IsLoad16(1, opc) /\ ~IsStore16(1, opc) /\ ~IsCmp16(1, opc)
    BY LowOpcode
  <2> QED BY <2>1, <2>2, <2>3 DEF ExecPage1
<1> HIDE DEF n, far
<1> QED BY <1>2, <1>3, <1>4 DEF far

LEMMA StackInstruction ==
  ASSUME NEW k, IsMachine(k), NEW opc \in {op_pshs_i, op_puls_i}, InCode(k, 2),
         Cell(k, k.pc) = opc, Cell(k, k.pc + 1) = \h7f
  PROVE  LET n == [k EXCEPT !.pc = k.pc + 2]
         IN  cpu_execop(k) = IF opc = op_pshs_i THEN _pushregs(n, AllRegisters, "s", "u")
                             ELSE _pullregs(n, AllRegisters, "s", "u")
<1> DEFINE n == [k EXCEPT !.pc = k.pc + 1]
           far == [k EXCEPT !.pc = k.pc + 2]
<1>1. opc # op_page2 /\ opc # op_page3 /\ opc \in {52, 53}
  BY DEF op_pshs_i, op_puls_i, op_page2, op_page3
<1>2. cpu_execop(k) = ExecPage1(_eafromopc(n, opc).m, opc, _eafromopc(n, opc).val)
  <2>1. InCode(k, 1)
    BY DEF InCode, TIO_BASE_ADDRESS
  <2> QED BY <1>1, <2>1, Decoded
<1>3. _eafromopc(n, opc) = [val |-> k.pc + 1, m |-> far]
  <2>1. opc \div 16 = 3 /\ opc % 16 \in {4, 5}
    BY <1>1
  <2>2. _eafromopc(n, opc) = _eaimmediate(n, 1)
    BY <2>1 DEF _eafromopc
  <2>3. Wrap((k.pc + 1) + 1) = k.pc + 2 /\ n.pc = k.pc + 1
    BY NextPc, PcAside DEF InCode
  <2>4. [n EXCEPT !.pc = k.pc + 2] = far
    BY DEF IsMachine
  <2> HIDE DEF n, far
  <2> QED BY <2>2, <2>3, <2>4 DEF _eaimmediate
<1>4. \A h, ea : ExecPage1(h, opc, ea) = ExecStack(h, opc, ea)
  <2>1. /\ opc \div 16 \notin {0, 2, 4, 5, 6, 7} /\ opc \notin {13, 14, 110, 126}
        /\ opc \notin {18, 25, 29, 58, 61} /\ opc # 22 /\ opc \notin {23, 141, 157, 173, 189}
        /\ opc \notin {26, 28} /\ opc \notin {30, 31} /\ opc \notin 48..51
        /\ opc \in 52..55 /\ opc \notin {57, 59, 63} /\ ~(opc >= 128)
    BY <1>1
  <2> QED BY <2>1, LowOpcode DEF ExecPage1
<1>5. mem_rd8(far, k.pc + 1) = \h7f /\ AfterRd8(far, k.pc + 1) = far
  <2>1. k.pc + 1 \in Int /\ k.pc + 1 < TIO_BASE_ADDRESS
    BY DEF InCode, TIO_BASE_ADDRESS
  <2>2. Cell(far, k.pc + 1) = Cell(k, k.pc + 1)
    BY DEF Cell, IsMachine
  <2> HIDE DEF far
  <2> QED BY <2>1, <2>2, InRam
<1> HIDE DEF n, far
<1>6. cpu_execop(k) = ExecStack(far, opc, k.pc + 1)
  BY <1>2, <1>3, <1>4
<1>7. ExecStack(far, opc, k.pc + 1)
        = IF opc = 52 THEN _pushregs(far, AllRegisters, "s", "u")
          ELSE _pullregs(far, AllRegisters, "s", "u")
  BY <1>1, <1>5 DEF ExecStack, AllRegisters
<1> QED BY <1>6, <1>7 DEF far, op_pshs_i

(* What a push leaves as it was.                                           *)
LEMMA PushRegsKeeps ==
  ASSUME NEW k, IsMachine(k), NEW mask, FrameSize <= k.s, k.s <= TIO_BASE_ADDRESS
  PROVE  LET n == _pushregs(k, mask, "s", "u")
         IN  IsMachine(n) /\ \A field \in Field \ {"s"} : n[field] = k[field]
<1> DEFINE push(h, reg) == PushOne(h, mask, "s", reg, "u")
           k1 == push(k, "pc")   k2 == push(k1, "us")  k3 == push(k2, "y")
           k4 == push(k3, "x")   k5 == push(k4, "dp")  k6 == push(k5, "b")
           k7 == push(k6, "a")   k8 == push(k7, "cc")
           Fits(h, room) == /\ IsMachine(h) /\ room <= h.s /\ h.s <= TIO_BASE_ADDRESS
                            /\ \A field \in Field \ {"s"} : h[field] = k[field]
<1>1. ASSUME NEW h, NEW reg \in Weighed, NEW room \in Int, Size(reg) <= room, Fits(h, room)
      PROVE  Fits(push(h, reg), room - Size(reg))
  <2>1. /\ IsMachine(push(h, reg)) /\ room - Size(reg) <= push(h, reg).s
        /\ push(h, reg).s <= TIO_BASE_ADDRESS
    <3>1. IsMachine(h) /\ room <= h["s"] /\ h["s"] <= TIO_BASE_ADDRESS
      BY <1>1
    <3>2. /\ IsMachine(push(h, reg)) /\ room - Size(reg) <= push(h, reg)["s"]
          /\ push(h, reg)["s"] <= TIO_BASE_ADDRESS
      BY <1>1, <3>1, PullOneUndoesPushOne
    <3> QED BY <3>2
  <2>2. \A field \in Field \ {"s"} : push(h, reg)[field] = h[field]
    <3>1. Named(reg, "u") \in Field /\ Named(reg, "u") # "s" /\ Size(Named(reg, "u")) = Size(reg)
      BY DEF Named, Field, Weighed, Register8, Register16, Size, IsWide
    <3>2. Size(reg) \in Int /\ h.s \in Int
      BY <1>1, FieldsOfMachine, WordRange DEF Size
    <3>3. Size(Named(reg, "u")) <= h["s"] /\ h["s"] <= TIO_BASE_ADDRESS
      BY <1>1, <3>1, <3>2
    <3>4. \A field \in Field \ {"s"} : Push(h, "s", Named(reg, "u"))[field] = h[field]
      BY <1>1, <3>1, <3>3, PushReads
    <3> HIDE DEF Field
    <3> QED BY <3>4 DEF PushOne
  <2> HIDE DEF push, Field
  <2> QED BY <1>1, <2>1, <2>2
<1>2. /\ {"cc", "a", "b", "dp", "x", "y", "us", "pc"} = Weighed
      /\ Size("cc") = 1 /\ Size("a") = 1 /\ Size("b") = 1 /\ Size("dp") = 1
      /\ Size("x") = 2 /\ Size("y") = 2 /\ Size("us") = 2 /\ Size("pc") = 2
  BY DEF Weighed, Size, IsWide
<1>3. k8 = _pushregs(k, mask, "s", "u")
  BY DEF _pushregs
<1>4. Fits(k, 12)
  BY DEF FrameSize
<1> HIDE DEF push, Fits
<1>5. Fits(k1, 10) /\ Fits(k2, 8) /\ Fits(k3, 6) /\ Fits(k4, 4)
  BY <1>1, <1>2, <1>4
<1>6. Fits(k5, 3) /\ Fits(k6, 2) /\ Fits(k7, 1) /\ Fits(k8, 0)
  <2> HIDE DEF k4
  <2> QED BY <1>1, <1>2, <1>5
<1> HIDE DEF k1, k2, k3, k4, k5, k6, k7, k8
<1> QED BY <1>3, <1>6 DEF Fits

-----------------------------------------------------------------------------
(***************************************************************************)
(* The stack as the frames come and go.                                    *)
(***************************************************************************)
LEMMA OnStackAgain ==
  ASSUME NEW n, NEW k, NEW h, OnStack(n, k), OnStack(k, h)
  PROVE  OnStack(n, h)
BY DEF OnStack

(* A frame has the same room on the stack whatever it is looked at with.   *)
LEMMA LinkedStays ==
  ASSUME NEW ms, Linked(ms), frames' = frames, OnStack(m', m),
         cc_e \in m.cc => cc_e \in m'.cc
  PROVE  Linked(ms)'
<1>1. ASSUME NEW i \in 1..Len(frames) 
      PROVE  /\ OnStack(Above(ms, i)', Above(ms, i))
             /\ cc_e \in Above(ms, i).cc => cc_e \in Above(ms, i)'.cc
  BY DEF Above, OnStack
<1>2. ASSUME NEW i \in 1..Len(frames) PROVE Stacks(i, ms[i])'
  BY DEF Linked, Stacks
<1>3. ASSUME NEW i \in 1..Len(frames)
      PROVE  OnStack(Above(ms, i)', After(frames[i].kind, ms[i]))
  BY <1>1, OnStackAgain DEF Linked
<1> QED BY <1>1, <1>2, <1>3 DEF Linked

LEMMA LinkedPushes ==
  ASSUME NEW ms, Linked(ms), frames \in Seq(Frames), NEW kind \in Kind,
         NEW k, IsMachine(k), Room(kind) <= k.s, k.s <= TIO_BASE_ADDRESS,
         OnStack(k, m), cc_e \in m.cc => cc_e \in k.cc,
         frames' = Append(frames, Frame(kind, k)), OnStack(m', After(kind, k)),
         kind = "interrupt" \/ cc_e \in k.cc => cc_e \in m'.cc
  PROVE  \E new : Linked(new)'
<1>1. PICK last : last = Len(frames) + 1
  OBVIOUS
<1>2. PICK new : new = [i \in 1..last |-> IF i = last THEN k ELSE ms[i]]
  OBVIOUS
<1>3. Len(frames) \in Nat /\ last \in Nat /\ Len(frames)' = last /\ last \in 1..last
  BY <1>1, AppendProperties, LenProperties
<1>4. frames'[last] = Frame(kind, k) /\ \A i \in 1..Len(frames) : frames'[i] = frames[i]
  BY <1>1, AppendProperties
<1>5. frames'[last].kind = kind
  <2>1. Frame(kind, k).kind = kind
    BY DEF Frame
  <2> QED BY <1>4, <2>1
<1>6. new[last] = k /\ \A i \in 1..Len(frames) : new[i] = ms[i]
  BY <1>1, <1>3, <1>2
<1>7. ASSUME NEW i \in 1..Len(frames)
      PROVE  /\ Above(new, i)' = IF i = Len(frames) THEN k ELSE ms[i + 1]
             /\ OnStack(Above(new, i)', Above(ms, i))
             /\ cc_e \in Above(ms, i).cc => cc_e \in Above(new, i)'.cc
  <2>1. i < last /\ i + 1 \in 1..last /\ (i # Len(frames) => i < Len(frames) /\ i + 1 \in 1..Len(frames))
    BY <1>1, <1>3
  <2>2. Above(new, i)' = new[i + 1]
    BY <1>3, <2>1 DEF Above
  <2>3. Above(new, i)' = IF i = Len(frames) THEN k ELSE ms[i + 1]
    BY <1>1, <1>6, <2>1, <2>2
  <2>4. Above(ms, i) = IF i = Len(frames) THEN m ELSE ms[i + 1]
    BY <2>1 DEF Above
  <2> QED BY <2>3, <2>4 DEF OnStack
<1>8. Above(new, last)' = m'
  BY <1>3 DEF Above
<1>9. ASSUME NEW i \in 1..last PROVE i = last \/ i \in 1..Len(frames)
  BY <1>1, <1>3
<1>10. ASSUME NEW i \in 1..last PROVE Stacks(i, new[i])'
  <2>1. CASE i = last
    BY <1>4, <1>5, <1>6, <2>1 DEF Stacks
  <2>2. CASE i \in 1..Len(frames)
    BY <1>4, <1>6, <2>2 DEF Stacks, Linked
  <2> QED BY <1>9, <2>1, <2>2
<1>11. ASSUME NEW i \in 1..last PROVE OnStack(Above(new, i)', After(frames'[i].kind, new[i]))
  <2>1. CASE i = last
    BY <1>5, <1>6, <1>8, <2>1
  <2>2. CASE i \in 1..Len(frames)
    BY <1>4, <1>6, <1>7, <2>2, OnStackAgain DEF Linked
  <2> QED BY <1>9, <2>1, <2>2
<1>12. ASSUME NEW i \in 1..last, NEW j \in 1..i, frames'[j].kind = "interrupt"
       PROVE  cc_e \in Above(new, i)'.cc
  <2>1. ASSUME i \in 1..Len(frames) PROVE cc_e \in Above(new, i)'.cc
    <3>1. frames'[j] = frames[j]
      <4>1. j \in 1..Len(frames)
        BY <1>3, <2>1
      <4> QED BY <1>4, <4>1
    <3> QED BY <1>7, <1>12, <2>1, <3>1 DEF Linked
  <2>2. CASE i = last
    <3>1. CASE j = last
      BY <1>5, <1>8, <1>12, <2>2, <3>1
    <3>2. CASE j # last
      <4>1. j \in 1..Len(frames) /\ Len(frames) \in 1..Len(frames) /\ j \in 1..Len(frames)
            /\ ~(Len(frames) < Len(frames))
        BY <1>1, <1>3, <2>2, <3>2
      <4>2. cc_e \in Above(ms, Len(frames)).cc
        BY <1>4, <1>12, <4>1 DEF Linked
      <4>3. Above(ms, Len(frames)) = m
        BY <4>1 DEF Above
      <4> QED BY <1>8, <2>2, <4>2, <4>3
    <3> QED BY <3>1, <3>2
  <2> QED BY <1>9, <2>1, <2>2
<1> QED BY <1>3, <1>10, <1>11, <1>12 DEF Linked

LEMMA LinkedPops ==
  ASSUME NEW ms, Linked(ms), frames \in Seq(Frames), frames # <<>>,
         frames' = Front(frames), OnStack(m', ms[Len(frames)]),
         \A j \in 1..(Len(frames) - 1) : frames[j].kind = "interrupt" => cc_e \in m'.cc
  PROVE  Linked(ms)'
<1> DEFINE last == Len(frames) - 1
<1>1. last \in Nat /\ last + 1 = Len(frames) /\ Len(frames)' = last
  <2>1. Len(frames) \in Nat /\ Len(frames) # 0
    BY LenProperties, EmptySeq
  <2> QED BY <2>1, FrontReads
<1>2. \A i \in 1..last : frames'[i] = frames[i]
  BY FrontReads
<1> HIDE DEF last
<1>3. ASSUME NEW i \in 1..last
      PROVE  /\ i \in 1..Len(frames)
             /\ OnStack(Above(ms, i)', Above(ms, i))
             /\ i # last => Above(ms, i)' = Above(ms, i)
             /\ i = last => Above(ms, i)' = m'
  <2>1. i \in 1..Len(frames) /\ i < Len(frames) /\ (i # last => i < last) /\ ~(last < last)
    BY <1>1
  <2>2. Above(ms, i) = ms[i + 1]
    BY <2>1 DEF Above
  <2>3. Above(ms, i)' = IF i = last THEN m' ELSE ms[i + 1]
    BY <1>1, <2>1 DEF Above
  <2> QED BY <1>1, <2>1, <2>2, <2>3 DEF OnStack
<1>4. ASSUME NEW i \in 1..last PROVE Stacks(i, ms[i])'
  BY <1>2, <1>3 DEF Linked, Stacks
<1>5. ASSUME NEW i \in 1..last PROVE OnStack(Above(ms, i)', After(frames'[i].kind, ms[i]))
  BY <1>2, <1>3, OnStackAgain DEF Linked
<1>6. ASSUME NEW i \in 1..last, NEW j \in 1..i, frames'[j].kind = "interrupt"
      PROVE  cc_e \in Above(ms, i)'.cc
  <2>1. j \in 1..last
    BY <1>1
  <2>2. frames[j].kind = "interrupt"
    BY <1>2, <1>6, <2>1
  <2> QED BY <1>3, <2>1, <2>2 DEF Linked, last
<1> QED BY <1>1, <1>4, <1>5, <1>6 DEF Linked

-----------------------------------------------------------------------------
(***************************************************************************)
(* Each pop gives back the machine of its frame.                           *)
(***************************************************************************)
LEMMA OnStackAlike ==
  ASSUME NEW n, NEW k
  PROVE  OnStack(n, k) <=> Alike(n, k, "s", Field \ {"s"})
BY DEF OnStack, Alike, Field, Register16

LEMMA SkipOnStack ==
  ASSUME NEW h, IsMachine(h), NEW k, NEW value \in Word, OnStack(h, k)
  PROVE  LET n == [h EXCEPT !.pc = value]
         IN  IsMachine(n) /\ OnStack(n, k) /\ n.cc = h.cc /\ n.pc = value
<1> DEFINE n == [h EXCEPT !.pc = value]
<1>1. IsMachine(n)
  BY Put16 DEF Register16
<1>2. n.mem = h.mem /\ n.s = h.s /\ n.cc = h.cc /\ n.pc = value
  BY DEF IsMachine
<1> HIDE DEF n
<1> QED BY <1>1, <1>2 DEF OnStack, Cell, n

(* RTI, with E set in the handler. *)
LEMMA InterruptPops ==
  ASSUME NEW k, IsMachine(k), FrameSize <= k.s, k.s <= TIO_BASE_ADDRESS,
         NEW h, IsMachine(h), h.pc < TIO_BASE_ADDRESS, Cell(h, h.pc) = op_rti,
         OnStack(h, _pushstate(k)), cc_e \in h.cc
  PROVE  LET n == cpu_execop(h)
         IN  OnStack(n, k) /\ cc_e \in n.cc /\ \A field \in Field : SameField(field, n, k)
<1> DEFINE back == [h EXCEPT !.pc = Wrap(@ + 1)]
           set == [k EXCEPT !.cc = @ \cup {cc_e}]
<1>1. h.pc \in Int /\ Wrap(h.pc + 1) \in Word
  BY FieldsOfMachine, WordRange DEF Wrap
<1>2. cpu_execop(h) = _pullstate(back)
  <2>1. Cell(h, h.pc) = 59 /\ 59 \in {57, 59} /\ 59 # 57
    BY DEF op_rti
  <2> QED BY <1>1, <2>1, ReturnInstruction
<1>3. IsMachine(back) /\ OnStack(back, _pushstate(k)) /\ back.cc = h.cc
  BY <1>1, SkipOnStack
<1>4. /\ IsMachine(set) /\ set.s = k.s /\ set.cc = k.cc \cup {cc_e} /\ set.mem = k.mem
      /\ \A field \in Field \ {"cc"} : set[field] = k[field]
  <2>1. k.cc \cup {cc_e} \in SUBSET CcFlag
    BY FieldsOfMachine, FlagNames
  <2>2. IsMachine(set)
    BY <2>1, PutSets
  <2>3. Field \subseteq DOMAIN k
    BY DEF IsMachine, Field, Register8, Register16
  <2>4. set.s = k.s /\ set.cc = k.cc \cup {cc_e} /\ set.mem = k.mem
    BY DEF IsMachine
  <2> HIDE DEF Field
  <2> QED BY <2>2, <2>3, <2>4
<1>5. _pushstate(k) = _pushregs(set, rn_entire, "s", "u")
  BY DEF _pushstate
<1>6. Field \ {"s"} = Popped(rn_entire, "u")
  BY DEF Field, Register8, Register16, Popped, Weighed, rn_entire, Named
<1> HIDE DEF back, set
<1>7. _pullstate(back) = _pullregs(back, rn_entire, "s", "u")
  BY <1>3 DEF _pullstate
<1>8. Alike(_pullregs(back, rn_entire, "s", "u"), set, "s", {})
  <2>1. Alike(back, _pushregs(set, rn_entire, "s", "u"), "s", Field \ {"s"})
    BY <1>3, <1>5, OnStackAlike
  <2>2. set["s"] = k.s
    BY <1>4
  <2>3. Alike(_pullregs(back, rn_entire, "s", "u"), set, "s",
              (Field \ {"s"}) \ Popped(rn_entire, "u"))
    BY <1>3, <1>4, <2>1, <2>2, PullsUndoPushes
  <2> QED BY <1>6, <2>3
<1> DEFINE n == cpu_execop(h)
<1>9. n.s = set.s /\ n.cc = set.cc /\ (\A field \in Field : n[field] = set[field])
      /\ \A addr \in Int : set.s <= addr /\ addr < TIO_BASE_ADDRESS => Cell(n, addr) = Cell(set, addr)
  <2>1. Alike(n, set, "s", {})
    BY <1>2, <1>7, <1>8
  <2>2. "s" \in Field /\ "cc" \in Field
    BY DEF Field, Register16
  <2> HIDE DEF n
  <2> QED BY <2>1, <2>2 DEF Alike
<1>10. \A addr : Cell(set, addr) = Cell(k, addr)
  BY <1>4 DEF Cell
<1> HIDE DEF n
<1>11. OnStack(n, k)
  BY <1>4, <1>9, <1>10 DEF OnStack
<1>12. \A field \in Field : SameField(field, n, k)
  BY <1>4, <1>9 DEF SameField
<1> QED BY <1>4, <1>9, <1>11, <1>12 DEF n

(* RTS.                                                                    *)
LEMMA CallPops ==
  ASSUME NEW k, IsMachine(k), 2 <= k.s, k.s <= TIO_BASE_ADDRESS,
         NEW h, IsMachine(h), h.pc < TIO_BASE_ADDRESS, Cell(h, h.pc) = op_rts,
         OnStack(h, Push(k, "s", "pc"))
  PROVE  LET n == cpu_execop(h)
         IN  OnStack(n, k) /\ n.pc = k.pc /\ n.cc = h.cc
<1> DEFINE back == [h EXCEPT !.pc = Wrap(@ + 1)]
           pushed == Push(k, "s", "pc")
           n == Pull(back, "s", "pc")
<1>1. h.pc \in Int /\ Wrap(h.pc + 1) \in Word
  BY FieldsOfMachine, WordRange DEF Wrap
<1>2. cpu_execop(h) = n
  <2>1. Cell(h, h.pc) = 57 /\ 57 \in {57, 59}
    BY DEF op_rts
  <2> QED BY <1>1, <2>1, ReturnInstruction
<1>3. IsMachine(back) /\ OnStack(back, pushed) /\ back.cc = h.cc
  BY <1>1, SkipOnStack
<1> HIDE DEF back
<1>4. "pc" \in Field /\ "s" \in Field /\ "pc" \in Wide /\ Size("pc") = 2 /\ "pc" # "s"
      /\ "cc" \in Field /\ k["s"] = k.s
  BY DEF Field, Wide, Register16, Size, IsWide
<1>5. Alike(back, pushed, "s", Field \ {"s"})
  BY <1>3, OnStackAlike
<1>6. Alike(n, k, "s", (Field \ {"s"}) \ {"pc"})
  BY <1>3, <1>4, <1>5, PullUndoesPush
<1> HIDE DEF pushed
<1>7. OnStack(n, k) /\ n.pc = k.pc
  <2> HIDE DEF n
  <2> QED BY <1>4, <1>6 DEF OnStack, Alike
<1>8. n.cc = back.cc
  <2>1. n = [Put(back, "pc", mem_rd16(back, back.s)) EXCEPT !.s = Wrap(@ + 2)]
    BY DEF Pull, IsWide
  <2>2. Put(back, "pc", mem_rd16(back, back.s)) = [back EXCEPT !.pc = mem_rd16(back, back.s)]
    BY DEF Put
  <2> HIDE DEF n
  <2> QED BY <1>3, <2>1, <2>2 DEF IsMachine
<1> HIDE DEF n
<1> QED BY <1>2, <1>3, <1>7, <1>8

(* PULS with the operand of the PSHS.                                      *)
LEMMA PushPops ==
  ASSUME NEW k, IsMachine(k), FrameSize <= k.s, k.s <= TIO_BASE_ADDRESS,
         NEW h, IsMachine(h), InCode(h, 2), Cell(h, h.pc) = op_puls_i,
         Cell(h, h.pc + 1) = \h7f, OnStack(h, _pushregs(k, AllRegisters, "s", "u"))
  PROVE  LET n == cpu_execop(h)
         IN  OnStack(n, k) /\ \A field \in Field \ {"pc"} : n[field] = k[field]
<1> DEFINE back == [h EXCEPT !.pc = h.pc + 2]
           n == _pullregs(back, AllRegisters, "s", "u")
<1>1. cpu_execop(h) = n
  <2>1. op_puls_i \in {op_pshs_i, op_puls_i} /\ op_puls_i # op_pshs_i
    BY DEF op_pshs_i, op_puls_i
  <2> QED BY <2>1, StackInstruction
<1>2. IsMachine(back) /\ OnStack(back, _pushregs(k, AllRegisters, "s", "u"))
  <2>1. h.pc + 2 \in Word
    BY WordRange DEF InCode, TIO_BASE_ADDRESS
  <2> QED BY <2>1, SkipOnStack
<1>3. Field \ {"s", "pc"} \subseteq Popped(AllRegisters, "u")
  <2>1. {1, 2, 4, 8, 16, 32, 64} \subseteq AllRegisters
    BY DEF AllRegisters, Bits, Weight
  <2> QED BY <2>1 DEF Field, Register8, Register16, Popped, Weighed, Named, rn
<1> HIDE DEF back
<1>4. Alike(n, k, "s", (Field \ {"s"}) \ Popped(AllRegisters, "u"))
  <2>1. Alike(back, _pushregs(k, AllRegisters, "s", "u"), "s", Field \ {"s"})
    BY <1>2, OnStackAlike
  <2> HIDE DEF Field
  <2> QED BY <1>2, <2>1, PullsUndoPushes
<1> HIDE DEF n
<1>5. \A field \in Field \ {"pc"} : n[field] = k[field]
  BY <1>3, <1>4 DEF Alike
<1>6. OnStack(n, k)
  <2>1. "s" \in Field \ {"pc"}
    BY DEF Field, Register16
  <2> QED BY <1>4, <1>5, <2>1 DEF Alike, OnStack
<1> QED BY <1>1, <1>5, <1>6

-----------------------------------------------------------------------------
(***************************************************************************)
(* The steps.                                                              *)
(***************************************************************************)
LEMMA InterruptStep ==
  ASSUME StackInv, TakeInterrupt, Orderly
  PROVE  \E ms : Linked(ms)'
<1>1. PICK ms : Linked(ms)
  BY DEF StackInv
<1>2. IsMachine(m) /\ frames \in Seq(Frames)
  BY DEF StackInv, TypeInv, TypeOK
<1>3. CASE Deliverable(m.irq, m.cc) = {}
  <2>1. m' = m /\ frames' = frames
    BY <1>3 DEF TakeInterrupt, cpu_execirq
  <2>2. OnStack(m', m)
    BY <2>1 DEF OnStack
  <2> QED BY <1>1, <2>1, <2>2, LinkedStays
<1>4. CASE Deliverable(m.irq, m.cc) # {}
  <2> DEFINE k == [m EXCEPT !.irq = IrqAfterService(m.irq, m.cc)]
             p == _pushstate(k)
             addr == mem_rd16(p, Vector(Serviced(m.irq, m.cc)))
  <2>1. FrameSize <= m.s /\ m.s <= TIO_BASE_ADDRESS
        /\ Serviced(m.irq, m.cc) \notin {irq_rst, irq_firq}
    BY <1>4 DEF Orderly, HasRoom
  <2>2. m' = [p EXCEPT !.pc = addr] /\ frames' = Append(frames, Frame("interrupt", m))
    BY <1>4, <2>1 DEF TakeInterrupt, cpu_execirq
  <2>3. /\ IsMachine(k) /\ k.s = m.s /\ k.cc = m.cc /\ k.mem = m.mem
        /\ \A field \in Field : k[field] = m[field]
    <3>1. IrqAfterService(m.irq, m.cc) \in SUBSET IrqFlag
      BY <1>2, FieldsOfMachine DEF IrqAfterService
    <3>2. IsMachine(k)
      BY <1>2, <3>1, PutSets
    <3>3. k.s = m.s /\ k.cc = m.cc /\ k.mem = m.mem
      BY <1>2 DEF IsMachine
    <3>4. Field \subseteq DOMAIN m /\ "irq" \notin Field
      BY <1>2 DEF IsMachine, Field, Register8, Register16
    <3> HIDE DEF Field
    <3> QED BY <3>2, <3>3, <3>4
  <2>4. Frame("interrupt", m) = Frame("interrupt", k)
    <3>1. Saved["interrupt"] = Field
      BY DEF Saved, Field
    <3> HIDE DEF k
    <3> QED BY <2>3, <3>1 DEF Frame
  <2> HIDE DEF k, addr
  <2>5. IsMachine(p) /\ p.cc = m.cc \cup {cc_e}
    BY <2>1, <2>3, StateStacked
  <2> HIDE DEF p
  <2>6. m'.s = p.s /\ m'.cc = p.cc /\ m'.mem = p.mem
    BY <2>2, <2>5 DEF IsMachine
  <2>7. OnStack(m', After("interrupt", k))
    BY <2>6 DEF OnStack, Cell, After, p
  <2>8. OnStack(k, m)
    BY <2>3 DEF OnStack, Cell
  <2>9. "interrupt" \in Kind /\ Room("interrupt") = FrameSize
    BY DEF Kind, Room
  <2>10. frames' = Append(frames, Frame("interrupt", k))
    BY <2>2, <2>4
  <2>11. cc_e \in m'.cc
    BY <2>5, <2>6
  <2> QED BY <1>1, <1>2, <2>1, <2>3, <2>7, <2>8, <2>9, <2>10, <2>11, LinkedPushes
<1> QED BY <1>3, <1>4

(* JSR, LBSR and PSHS. *)
LEMMA PushStep ==
  ASSUME StackInv, Execute, Orderly, IsPush
  PROVE  \E ms : Linked(ms)'
<1>1. PICK ms : Linked(ms)
  BY DEF StackInv
<1>2. /\ IsMachine(m) /\ frames \in Seq(Frames) /\ m' = cpu_execop(m)
      /\ m.pc \in Int /\ 0 <= m.pc
  <2>1. IsMachine(m) /\ frames \in Seq(Frames) /\ m' = cpu_execop(m)
    BY DEF StackInv, TypeInv, TypeOK, Execute
  <2> QED BY <2>1, FieldsOfMachine, WordRange
<1>3. m.pc + 2 < TIO_BASE_ADDRESS /\ InCode(m, 3) /\ InCode(m, 2)
  <2>1. m.pc + 2 < TIO_BASE_ADDRESS
    BY DEF Orderly
  <2> QED BY <1>2, <2>1 DEF InCode, TIO_BASE_ADDRESS
<1>4. Cell(m, m.pc) = Opcode
  <2>1. m.pc < TIO_BASE_ADDRESS
    BY <1>2, <1>3 DEF TIO_BASE_ADDRESS
  <2> QED BY <1>2, <2>1, InRam DEF Opcode
<1>5. m.pc + 2 \in Word /\ m.pc + 3 \in Word
  BY <1>2, <1>3, WordRange DEF TIO_BASE_ADDRESS
<1>6. OnStack(m, m)
  BY DEF OnStack
<1>7. CASE Opcode \in Calls
  <2> DEFINE k == [m EXCEPT !.pc = m.pc + 3]
             p == Push(k, "s", "pc")
  <2>1. IsMachine(k) /\ OnStack(k, m) /\ k.cc = m.cc /\ k.s = m.s
    BY <1>2, <1>5, <1>6, SkipOnStack DEF OnStack
  <2>2. PICK ea : m' = Call(k, ea)
    BY <1>2, <1>3, <1>4, <1>7, CallInstruction
  <2>3. frames' = Append(frames, Frame("call", k))
    <3>1. Wrap(m.pc + 3) = m.pc + 3
      BY <1>2, <1>3, NextPc DEF InCode
    <3> QED BY <1>7, <3>1 DEF Execute, FramesAfter
  <2>4. 2 <= k.s /\ k.s <= TIO_BASE_ADDRESS
    BY <1>7, <2>1 DEF Orderly, HasRoom
  <2> HIDE DEF k
  <2>5. IsMachine(p) /\ p.cc = k.cc
    <3>1. "pc" \in Field /\ "pc" # "s" /\ "cc" \in Field /\ Size("pc") = 2 /\ "pc" \in Wide \cup Narrow
      BY DEF Field, Register16, Size, IsWide, Wide
    <3>2. Size("pc") <= k["s"] /\ k["s"] <= TIO_BASE_ADDRESS
      BY <2>4, <3>1
    <3>3. \A field \in Field \ {"s"} : p[field] = k[field]
      BY <2>1, <3>1, <3>2, PushReads
    <3>4. IsMachine(p)
      BY <2>1, <3>1, PushTypes
    <3> HIDE DEF p
    <3> QED BY <3>1, <3>3, <3>4
  <2>6. m' = [p EXCEPT !.pc = ea]
    BY <2>2 DEF Call
  <2> HIDE DEF p
  <2>7. m'.s = p.s /\ m'.cc = p.cc /\ m'.mem = p.mem
    BY <2>5, <2>6 DEF IsMachine
  <2>8. OnStack(m', After("call", k))
    BY <2>7 DEF OnStack, Cell, After, p
  <2>9. "call" \in Kind /\ Room("call") = 2 /\ "call" # "interrupt"
    BY DEF Kind, Room
  <2>10. cc_e \in k.cc => cc_e \in m'.cc
    BY <2>5, <2>7
  <2> QED BY <1>1, <1>2, <2>1, <2>3, <2>4, <2>8, <2>9, <2>10, LinkedPushes
<1>8. CASE Opcode \notin Calls
  <2> DEFINE k == [m EXCEPT !.pc = m.pc + 2]
             p == _pushregs(k, AllRegisters, "s", "u")
  <2>1. Opcode = op_pshs_i
    BY <1>8 DEF IsPush
  <2>2. IsMachine(k) /\ OnStack(k, m) /\ k.cc = m.cc /\ k.s = m.s
        /\ \A field \in Field \ {"pc"} : k[field] = m[field]
    <3>1. IsMachine(k) /\ OnStack(k, m) /\ k.cc = m.cc /\ k.s = m.s
      BY <1>2, <1>5, <1>6, SkipOnStack DEF OnStack
    <3>2. Field \subseteq DOMAIN m
      BY <1>2 DEF IsMachine, Field, Register8, Register16
    <3> HIDE DEF Field
    <3>3. \A field \in Field \ {"pc"} : k[field] = m[field]
      BY <3>2
    <3> QED BY <3>1, <3>3
  <2>3. m' = p
    <3>1. Cell(m, m.pc + 1) = \h7f
      BY <2>1 DEF Orderly
    <3> QED BY <1>2, <1>3, <1>4, <2>1, <3>1, StackInstruction
  <2>4. frames' = Append(frames, Frame("push", k))
    <3>1. Saved["push"] \subseteq Field \ {"pc"}
      BY DEF Saved, Field, Register8, Register16
    <3>2. Frame("push", m) = Frame("push", k)
      <4> HIDE DEF k
      <4> QED BY <2>2, <3>1 DEF Frame
    <3>3. frames' = Append(frames, Frame("push", m))
      BY <1>8, <2>1 DEF Execute, FramesAfter
    <3> QED BY <3>2, <3>3
  <2>5. FrameSize <= k.s /\ k.s <= TIO_BASE_ADDRESS
    BY <1>8, <2>2 DEF Orderly, HasRoom
  <2> HIDE DEF k
  <2>6. p.cc = k.cc
    <3>1. "cc" \in Field \ {"s"}
      BY DEF Field
    <3> QED BY <2>2, <2>5, <3>1, PushRegsKeeps
  <2>7. OnStack(m', After("push", k))
    BY <2>3 DEF OnStack, After
  <2>8. "push" \in Kind /\ Room("push") = FrameSize /\ "push" # "interrupt"
    BY DEF Kind, Room
  <2>9. cc_e \in k.cc => cc_e \in m'.cc
    BY <2>3, <2>6
  <2> HIDE DEF p
  <2> QED BY <1>1, <1>2, <2>2, <2>4, <2>5, <2>7, <2>8, <2>9, LinkedPushes
<1> QED BY <1>7, <1>8

LEMMA PopStep ==
  ASSUME StackInv, Execute, Orderly, IsPop
  PROVE  (\E ms : Linked(ms)') /\ Restores
<1>1. PICK ms : Linked(ms)
  BY DEF StackInv
<1>2. /\ IsMachine(m) /\ frames \in Seq(Frames) /\ m' = cpu_execop(m)
      /\ m.pc \in Int /\ 0 <= m.pc
  <2>1. IsMachine(m) /\ frames \in Seq(Frames) /\ m' = cpu_execop(m)
    BY DEF StackInv, TypeInv, TypeOK, Execute
  <2> QED BY <2>1, FieldsOfMachine, WordRange
<1>3. m.pc + 2 < TIO_BASE_ADDRESS /\ m.pc < TIO_BASE_ADDRESS /\ InCode(m, 2)
  <2>1. m.pc + 2 < TIO_BASE_ADDRESS
    BY DEF Orderly
  <2> QED BY <1>2, <2>1 DEF InCode, TIO_BASE_ADDRESS
<1>4. Cell(m, m.pc) = Opcode
  BY <1>2, <1>3, InRam DEF Opcode
<1>5. frames # <<>> /\ Last(frames).kind = KindOf(Opcode)
  BY DEF Orderly
<1>6. PICK last : last = Len(frames)
  OBVIOUS
<1>7. last \in 1..Len(frames) /\ last = Len(frames) /\ last - 1 \in Int
  BY <1>2, <1>5, <1>6, LenProperties, EmptySeq
<1> DEFINE kind == frames[last].kind
           k == ms[last]
<1>8. Last(frames) = frames[last]
  BY <1>6 DEF Last
<1>9. /\ IsMachine(k) /\ Room(kind) <= k.s /\ k.s <= TIO_BASE_ADDRESS
      /\ frames[last] = Frame(kind, k) /\ OnStack(m, After(kind, k))
      /\ \A j \in 1..last : frames[j].kind = "interrupt" => cc_e \in m.cc
  <2>1. Above(ms, last) = m
    BY <1>7 DEF Above
  <2> QED BY <1>1, <1>7, <2>1 DEF Linked, Stacks
<1>10. kind = KindOf(Opcode)
  BY <1>5, <1>8
<1>11. /\ DOMAIN frames[last].regs = Saved[kind]
       /\ \A reg \in Saved[kind] : frames[last].regs[reg] = k[reg]
  <2> HIDE DEF k, kind
  <2>1. Frame(kind, k).regs = [reg \in Saved[kind] |-> k[reg]]
    BY DEF Frame
  <2> QED BY <1>9, <2>1
<1>12. frames' = Front(frames)
  <2>1. Opcode \notin Calls /\ Opcode # op_pshs_i
    BY DEF IsPop, Calls, op_rts, op_rti, op_puls_i, op_pshs_i
  <2> QED BY <1>5, <2>1 DEF Execute, FramesAfter
(* E in the frames below the last one. *)
<1>13. \A j \in 1..(last - 1) : frames[j].kind = "interrupt" => cc_e \in k.cc /\ cc_e \in m.cc
  <2> SUFFICES ASSUME NEW j \in 1..(last - 1), frames[j].kind = "interrupt"
               PROVE  cc_e \in k.cc /\ cc_e \in m.cc
    OBVIOUS
  <2>1. last - 1 \in 1..Len(frames) /\ last - 1 < Len(frames) /\ (last - 1) + 1 = last
        /\ j \in 1..last
    BY <1>7
  <2>2. Above(ms, last - 1) = k
    BY <2>1 DEF Above
  <2>3. cc_e \in Above(ms, last - 1).cc
    BY <1>1, <2>1 DEF Linked
  <2> QED BY <1>9, <2>1, <2>2, <2>3
<1> HIDE DEF k, kind
<1>14. ASSUME OnStack(m', k), \A reg \in Saved[kind] : Same(reg, k[reg], m'),
              cc_e \in k.cc /\ cc_e \in m.cc => cc_e \in m'.cc
       PROVE  (\E new : Linked(new)') /\ Restores
  <2>1. \A j \in 1..(Len(frames) - 1) : frames[j].kind = "interrupt" => cc_e \in m'.cc
    BY <1>7, <1>13, <1>14
  <2>2. Linked(ms)'
    BY <1>1, <1>2, <1>5, <1>7, <1>12, <1>14, <2>1, LinkedPops DEF k
  <2>3. Restores
    BY <1>5, <1>8, <1>11, <1>14 DEF Restores
  <2> QED BY <2>2, <2>3
<1>15. CASE Opcode = op_rti
  <2>1. kind = "interrupt"
    BY <1>10, <1>15 DEF KindOf
  <2>2. FrameSize <= k.s /\ OnStack(m, _pushstate(k)) /\ cc_e \in m.cc
    BY <1>7, <1>9, <2>1 DEF Room, After, kind
  <2>3. OnStack(m', k) /\ cc_e \in m'.cc /\ \A field \in Field : SameField(field, m', k)
    BY <1>2, <1>3, <1>4, <1>9, <1>15, <2>2, InterruptPops
  <2>4. \A reg \in Saved[kind] : Same(reg, k[reg], m')
    <3>1. Saved[kind] = Field
      BY <2>1 DEF Saved, Field
    <3> QED BY <2>3, <3>1 DEF Same, SameField
  <2> QED BY <1>14, <2>3, <2>4
<1>16. CASE Opcode = op_rts
  <2>1. kind = "call"
    BY <1>10, <1>16 DEF KindOf, op_rti, op_rts
  <2>2. 2 <= k.s /\ OnStack(m, Push(k, "s", "pc"))
    BY <1>9, <2>1 DEF Room, After
  <2>3. OnStack(m', k) /\ m'.pc = k.pc /\ m'.cc = m.cc
    BY <1>2, <1>3, <1>4, <1>9, <1>16, <2>2, CallPops
  <2>4. \A reg \in Saved[kind] : Same(reg, k[reg], m')
    <3>1. Saved[kind] = {"s", "pc"}
      BY <2>1 DEF Saved
    <3> QED BY <2>3, <3>1 DEF Same, OnStack
  <2> QED BY <1>14, <2>3, <2>4
<1>17. CASE Opcode = op_puls_i
  <2>1. kind = "push"
    BY <1>10, <1>17 DEF KindOf, op_rti, op_rts, op_puls_i
  <2>2. FrameSize <= k.s /\ OnStack(m, _pushregs(k, AllRegisters, "s", "u"))
    BY <1>9, <2>1 DEF Room, After
  <2>3. Cell(m, m.pc + 1) = \h7f
    BY <1>17 DEF Orderly
  <2>4. OnStack(m', k) /\ \A field \in Field \ {"pc"} : m'[field] = k[field]
    BY <1>2, <1>3, <1>4, <1>9, <1>17, <2>2, <2>3, PushPops
  <2>5. Saved[kind] \subseteq Field \ {"pc"} /\ "cc" \in Field \ {"pc"}
    BY <2>1 DEF Saved, Field, Register8, Register16
  <2>6. \A reg \in Saved[kind] : Same(reg, k[reg], m')
    BY <2>4, <2>5 DEF Same
  <2>7. m'.cc = k.cc
    BY <2>4, <2>5
  <2> QED BY <1>14, <2>4, <2>6, <2>7
<1> QED BY <1>15, <1>16, <1>17 DEF IsPop

(* All other instructions, and the requests. *)
LEMMA OtherStep ==
  ASSUME StackInv,
         \/ Execute /\ Orderly /\ ~IsPush /\ ~IsPop
         \/ \E flag \in Sources : Raise(flag)
         \/ UNCHANGED vars
  PROVE  \E ms : Linked(ms)'
<1>1. PICK ms : Linked(ms)
  BY DEF StackInv
<1>2. IsMachine(m)
  BY DEF StackInv, TypeInv, TypeOK
<1>3. CASE Execute /\ Orderly /\ ~IsPush /\ ~IsPop
  <2>1. /\ m'.s = m.s
        /\ cc_e \in m.cc => cc_e \in m'.cc
        /\ \A addr \in DOMAIN m.mem \cup DOMAIN m'.mem :
             m.s <= addr /\ addr < TIO_BASE_ADDRESS => Cell(m', addr) = Cell(m, addr)
    BY <1>3 DEF Orderly
  <2>2. \A addr : addr \notin DOMAIN m.mem \cup DOMAIN m'.mem => Cell(m', addr) = Cell(m, addr)
    BY DEF Cell
  <2>3. OnStack(m', m)
    BY <2>1, <2>2 DEF OnStack
  <2>4. frames' = frames
    BY <1>3 DEF Execute, FramesAfter, IsPush
  <2> QED BY <1>1, <2>1, <2>3, <2>4, LinkedStays
<1>4. CASE (\E flag \in Sources : Raise(flag)) \/ UNCHANGED vars
  <2>1. frames' = frames /\ m'.s = m.s /\ m'.cc = m.cc /\ m'.mem = m.mem
    BY <1>2, <1>4 DEF Raise, vars, IsMachine
  <2>2. OnStack(m', m)
    BY <2>1 DEF OnStack, Cell
  <2> QED BY <1>1, <2>1, <2>2, LinkedStays
<1> QED BY <1>3, <1>4

(* A program that keeps its stack finds its registers again behind every   *)
(* interrupt, call and PSHS, whatever its code is and however interrupts   *)
(* nest.                                                                   *)
THEOREM PopsRestoreHolds == Spec /\ KeepsStack => PopsRestore
<1>1. Init => StackInv
  <2> SUFFICES ASSUME Init PROVE StackInv
    OBVIOUS
  <2>1. TypeInv
    BY TypeStarts
  <2>2. Len(frames) = 0
    BY DEF Init
  <2>3. Linked(<<>>)
    BY <2>2 DEF Linked
  <2> QED BY <2>1, <2>3 DEF StackInv
<1>2. StackInv /\ [Next]_vars /\ [Orderly]_vars => StackInv' /\ [Restores]_vars
  <2> SUFFICES ASSUME StackInv, [Next]_vars, [Orderly]_vars
               PROVE  StackInv' /\ [Restores]_vars
    OBVIOUS
  <2>1. TypeInv'
    BY TypeStep DEF StackInv
  <2>2. CASE UNCHANGED vars
    BY <2>1, <2>2, OtherStep DEF StackInv
  <2>3. CASE Orderly /\ TakeInterrupt
    <3>1. ~Execute
      BY <2>3 DEF TakeInterrupt, Execute
    <3> QED BY <2>1, <2>3, <3>1, InterruptStep DEF StackInv, Restores
  <2>4. CASE Orderly /\ Execute
    <3>1. CASE IsPop
      BY <2>1, <2>4, <3>1, PopStep DEF StackInv
    <3>2. CASE IsPush /\ ~IsPop
      BY <2>1, <2>4, <3>2, PushStep DEF StackInv, Restores
    <3>3. CASE ~IsPush /\ ~IsPop
      BY <2>1, <2>4, <3>3, OtherStep DEF StackInv, Restores
    <3> QED BY <3>1, <3>2, <3>3
  <2>5. CASE Orderly /\ \E flag \in Sources : Raise(flag)
    <3>1. ~Execute
      BY <2>5 DEF Raise, Execute
    <3> QED BY <2>1, <2>5, <3>1, OtherStep DEF StackInv, Restores
  <2> QED BY <2>2, <2>3, <2>4, <2>5 DEF Next
<1> QED BY <1>1, <1>2, PTL DEF Spec, KeepsStack, PopsRestore

-----------------------------------------------------------------------------
(***************************************************************************)
(* The program that is one.  At every instruction there is one, and it and *)
(* the frames of both stacks lie off the UART.                             *)
(***************************************************************************)
IsCode == OffUart(m) /\ (step = "op" => IsInstruction(m))

LEMMA OkStep ==
  ASSUME TypeInv, NoError, IsCode, [Next]_vars
  PROVE  NoError'
<1>1. IsMachine(m) /\ OffUart(m) /\ m.ok
  BY DEF TypeInv, TypeOK, NoError, IsCode
<1>2. CASE TakeInterrupt
  <2>1. Apart(m.s)
    BY <1>1 DEF OffUart, Apart
  <2>2. cpu_execirq(m).ok = m.ok
    BY <1>1, <2>1, InterruptsTakeRequests DEF Still, Shared
  <2> QED BY <1>1, <1>2, <2>2 DEF TakeInterrupt, NoError
<1>3. CASE Execute
  <2>1. IsInstruction(m)
    BY <1>3 DEF IsCode, Execute
  <2>2. cpu_execop(m).ok
    BY <1>1, <2>1, OnlyInstructionsSucceed
  <2> QED BY <1>3, <2>2 DEF Execute, NoError
<1>4. CASE \E flag \in Sources : Raise(flag)
  BY <1>1, <1>4 DEF Raise, NoError, IsMachine
<1>5. CASE UNCHANGED vars
  BY <1>5 DEF vars, NoError
<1> QED BY <1>2, <1>3, <1>4, <1>5 DEF Next

(* A program that finds an instruction wherever it goes never fails: no    *)
(* instruction fails on account of its operands or of what is in the       *)
(* registers, and no interrupt does.                                       *)
THEOREM NoErrorHolds ==
  ASSUME \A machine \in Start : machine.ok
  PROVE  Spec /\ []IsCode => []NoError
<1>1. Init => NoError
  BY DEF Init, NoError
<1>2. TypeInv /\ [Next]_vars => TypeInv'
  BY TypeStep
<1>3. TypeInv /\ NoError /\ IsCode /\ [Next]_vars => NoError'
  BY OkStep
<1> QED BY <1>1, <1>2, <1>3, TypeStarts, PTL DEF Spec

-----------------------------------------------------------------------------
(***************************************************************************)
(* The branches, exactly.                                                  *)
(***************************************************************************)
Condition == IF Opcode = op_page2 THEN Cell(m, m.pc + 1) ELSE Opcode
IsTaken   == Opcode = 22 \/ Taken(m.cc, Nibble(Condition))
Due       == Wrap(IF IsTaken THEN Target ELSE Behind)
Strays    == Opcode = op_page2 /\ ~(IsTaken /\ mem_rd16(m, m.pc + 2) = 65534)

(* The step changes pc alone, and takes it where it is due or astray. *)
Lands ==
  Execute /\ IsBranch =>
    /\ m' = [m EXCEPT !.pc = m'.pc]
    /\ m'.pc = Due <=> ~Strays

LEMMA BranchStep ==
  ASSUME IsMachine(m), IsBranch => InCode(m, 4), Execute, IsBranch
  PROVE  /\ m' = [m EXCEPT !.pc = m'.pc]
         /\ m'.pc = Due <=> ~Strays
<1>1. InCode(m, 2) /\ InCode(m, 3) /\ m.pc \in Int /\ m.pc < TIO_BASE_ADDRESS /\ 0 <= m.pc
      /\ m.pc + 4 < 65536
  BY DEF InCode, TIO_BASE_ADDRESS
<1>2. Opcode = Cell(m, m.pc)
  BY <1>1, InRam DEF Opcode
<1>3. m' = cpu_execop(m)
  BY DEF Execute
<1>4. "pc" \in DOMAIN m
  BY DEF IsMachine
<1>5. CASE Opcode \in 32..47
  <2> DEFINE to == IF Taken(m.cc, Nibble(Opcode)) THEN Wrap(m.pc + 2 + _sext816(Operand8(m)))
                   ELSE m.pc + 2
  <2>1. m' = [m EXCEPT !.pc = to]
    BY <1>1, <1>2, <1>3, <1>5, ShortBranch DEF With
  <2>2. Opcode # op_page2 /\ Opcode # 22
    BY <1>5 DEF op_page2
  <2>3. to = Due
    <3>1. IsTaken <=> Taken(m.cc, Nibble(Opcode))
      BY <2>2 DEF IsTaken, Condition
    <3>2. Behind = m.pc + 2 /\ Behind - 1 = m.pc + 1 /\ Wrap(Behind) = m.pc + 2
      BY <1>1, <2>2 DEF Behind, Wrap
    <3>3. Target = m.pc + 2 + _sext816(Operand8(m))
      BY <2>2, <3>2 DEF Target, IsLong, Offset8, Operand8
    <3> QED BY <3>1, <3>2, <3>3 DEF Due
  <2> HIDE DEF to
  <2> QED BY <1>4, <2>1, <2>2, <2>3 DEF Strays
<1>6. CASE Opcode = 22
  <2> DEFINE to == Wrap(m.pc + 3 + Operand16(m))
  <2>1. m' = [m EXCEPT !.pc = to]
    <3>1. Cell(m, m.pc) = 22
      BY <1>2, <1>6
    <3>2. cpu_execop(m) = With(m, "pc", to)
      BY <1>1, <3>1, BranchAlways
    <3> HIDE DEF to
    <3> QED BY <1>3, <3>2 DEF With
  <2>2. Opcode # op_page2
    BY <1>6 DEF op_page2
  <2>3. to = Due
    <3>1. Behind = m.pc + 3 /\ Behind - 2 = m.pc + 1
      BY <1>1, <1>6, <2>2 DEF Behind
    <3>2. Target = m.pc + 3 + Operand16(m)
      BY <1>6, <3>1 DEF Target, IsLong, Operand16
    <3> QED BY <1>6, <3>2 DEF Due, IsTaken
  <2> HIDE DEF to
  <2> QED BY <1>4, <2>1, <2>2, <2>3 DEF Strays
<1>7. CASE Opcode = op_page2 /\ Cell(m, m.pc + 1) \in 33..47
  <2> DEFINE high == Cell(m, m.pc + 2)
             low  == Cell(m, m.pc + 3)
             to == IF Taken(m.cc, Nibble(Cell(m, m.pc + 1))) THEN Wrap(m.pc + 3 + _sext816(high))
                   ELSE m.pc + 3
  <2>1. m' = [m EXCEPT !.pc = to]
    <3>1. Cell(m, m.pc) = op_page2
      BY <1>2, <1>7
    <3>2. cpu_execop(m) = With(m, "pc", to)
      BY <1>1, <1>7, <3>1, LongBranch
    <3> HIDE DEF to
    <3> QED BY <1>3, <3>2 DEF With
  <2>2. Opcode # 22
    BY <1>7 DEF op_page2
  <2>3. IsTaken <=> Taken(m.cc, Nibble(Cell(m, m.pc + 1)))
    BY <1>7, <2>2 DEF IsTaken, Condition
  <2>4. /\ high \in 0..255 /\ low \in 0..255
        /\ mem_rd16(m, m.pc + 2) = 256 * high + low
    <3>1. m.pc + 2 + 1 = m.pc + 3
      BY <1>1
    <3>2. high \in Byte /\ low \in Byte
      BY CellTypes
    <3> QED BY <3>1, <3>2, ByteRange DEF mem_rd16
  <2>5. /\ Behind = m.pc + 4 /\ Wrap(Behind) = m.pc + 4
        /\ Target = m.pc + 4 + (256 * high + low)
    <3>1. Behind = m.pc + 4 /\ Behind - 2 = m.pc + 2 /\ Wrap(Behind) = m.pc + 4
      BY <1>1, <1>7 DEF Behind, Wrap
    <3> QED BY <1>7, <2>4, <3>1 DEF Target, IsLong
  <2>6. to = Due <=> IsTaken /\ 256 * high + low = 65534
    <3> HIDE DEF high, low
    <3>1. CASE ~IsTaken
      BY <1>1, <2>3, <2>5, <3>1 DEF Due
    <3>2. CASE IsTaken
      <4>1. to = Wrap(m.pc + 3 + _sext816(high)) /\ Due = Wrap(m.pc + 4 + (256 * high + low))
        BY <2>3, <2>5, <3>2 DEF Due
      <4>2. Wrap(m.pc + 3 + _sext816(high)) = Wrap(m.pc + 4 + (256 * high + low))
              <=> 256 * high + low = 65534
        <5> DEFINE x == m.pc + 3 + _sext816(high)
                   y == m.pc + 4 + (256 * high + low)
        <5>1. /\ x \in Nat /\ y \in Nat /\ x - y < 65536 /\ y - x < 65536
              /\ x = y <=> 256 * high + low = 65534
          BY <1>1, <2>4 DEF _sext816
        <5> HIDE DEF x, y
        <5>2. Wrap(x) = Wrap(y) <=> x = y
          BY <5>1 DEF Wrap
        <5> QED BY <5>1, <5>2 DEF x, y
      <4> QED BY <3>2, <4>1, <4>2
    <3> QED BY <3>1, <3>2
  <2> HIDE DEF to, high, low
  <2>7. m'.pc = to
    BY <1>4, <2>1
  <2> QED BY <1>7, <2>1, <2>4, <2>6, <2>7 DEF Strays
<1> QED BY <1>5, <1>6, <1>7 DEF IsBranch

(* A short branch and LBRA go on behind themselves or at their target, as  *)
(* their condition says, and change nothing else.  A conditional long      *)
(* branch never does: not taken, it goes on inside itself, and taken, it   *)
(* finds its target only with the offset -2.                               *)
THEOREM BranchesLand ==
  Spec /\ [](IsBranch => InCode(m, 4)) => [][Lands]_vars
<1>1. TypeInv /\ [Next]_vars => TypeInv'
  BY TypeStep
<1>2. TypeInv /\ (IsBranch => InCode(m, 4)) => Lands
  <2>1. TypeInv => IsMachine(m)
    BY DEF TypeInv, TypeOK
  <2> QED BY <2>1, BranchStep DEF Lands
<1> QED BY <1>1, <1>2, TypeStarts, PTL DEF Spec

-----------------------------------------------------------------------------
(***************************************************************************)
(* The program that keeps its stack, told from the state alone: what lies  *)
(* at pc is code that works on the stack in order, or an instruction that  *)
(* spares the stack, and an interrupt finds room.                          *)
(***************************************************************************)
StackCode ==
  /\ step = "irq" /\ Deliverable(m.irq, m.cc) # {} =>
       HasRoom(FrameSize) /\ Serviced(m.irq, m.cc) \notin {irq_rst, irq_firq}
  /\ step = "op" =>
       /\ IsPush => HasRoom(IF Opcode \in Calls THEN 2 ELSE FrameSize)
       /\ IsPop  => frames # <<>> /\ Last(frames).kind = KindOf(Opcode)
       /\ IsPush \/ IsPop =>
            /\ m.pc + 2 < TIO_BASE_ADDRESS
            /\ Opcode \in {op_pshs_i, op_puls_i} => Cell(m, m.pc + 1) = \h7f
       /\ ~IsPush /\ ~IsPop => SparesStack(m)

LEMMA StackCodeIsOrderly ==
  ASSUME TypeInv, StackCode
  PROVE  Orderly
<1>1. Deliverable(m.irq, m.cc) # {} /\ TakeInterrupt =>
        HasRoom(FrameSize) /\ Serviced(m.irq, m.cc) \notin {irq_rst, irq_firq}
  BY DEF StackCode, TakeInterrupt
<1>2. ASSUME Execute
      PROVE  /\ IsPush => HasRoom(IF Opcode \in Calls THEN 2 ELSE FrameSize)
             /\ IsPop  => frames # <<>> /\ Last(frames).kind = KindOf(Opcode)
             /\ IsPush \/ IsPop =>
                  /\ m.pc + 2 < TIO_BASE_ADDRESS
                  /\ Opcode \in {op_pshs_i, op_puls_i} => Cell(m, m.pc + 1) = \h7f
             /\ ~IsPush /\ ~IsPop => SparesStack(m)
  BY <1>2 DEF StackCode, Execute
<1>3. ASSUME Execute, ~IsPush, ~IsPop
      PROVE  /\ m'.s = m.s
             /\ cc_e \in m.cc => cc_e \in m'.cc
             /\ \A addr \in DOMAIN m.mem \cup DOMAIN m'.mem :
                  m.s <= addr /\ addr < TIO_BASE_ADDRESS => Cell(m', addr) = Cell(m, addr)
  <2>1. IsMachine(m) /\ SparesStack(m)
    BY <1>2, <1>3 DEF TypeInv, TypeOK
  <2>2. LeavesStack(m, m')
    BY <1>3, <2>1, SparingInstructionsLeaveStack DEF Execute
  <2>3. DOMAIN m.mem \cup DOMAIN m'.mem \subseteq Int
    <3>1. IsMachine(m')
      BY <1>3, <2>1, InstructionsKeepMachine DEF Execute
    <3> QED BY <2>1, <3>1 DEF IsMachine, IsMemory
  <2> QED BY <2>2, <2>3 DEF LeavesStack
<1> QED BY <1>1, <1>2, <1>3 DEF Orderly

(* Such a program keeps its stack.                                         *)
THEOREM KeepsStackHolds == Spec /\ []StackCode => KeepsStack
<1>1. TypeInv /\ [Next]_vars => TypeInv'
  BY TypeStep
<1>2. TypeInv /\ StackCode => Orderly
  BY StackCodeIsOrderly
<1> QED BY <1>1, <1>2, TypeStarts, PTL DEF Spec, KeepsStack

(* So it finds its registers again behind every interrupt, call and PSHS.  *)
THEOREM StackCodeRestores == Spec /\ []StackCode => PopsRestore
BY KeepsStackHolds, PopsRestoreHolds, PTL
=============================================================================

-------------------------- MODULE InstructionProofs --------------------------
(***************************************************************************)
(* What single instructions of the CPU do, from their bytes in memory to   *)
(* the registers they leave: those that the programs of GuestPrograms are  *)
(* made of.  Then what holds of any instruction: its effect on the UART,   *)
(* the requests and the status, when it fails, and what it leaves on the   *)
(* stack.                                                                  *)
(***************************************************************************)
EXTENDS Cpu6809Proofs

(* The bytes of an instruction lie in RAM, below the UART. *)
InCode(m, length) ==
  m.pc \in Int /\ 0 <= m.pc /\ m.pc + length <= TIO_BASE_ADDRESS
Operand8(m)  == Cell(m, m.pc + 1)
Operand16(m) == mem_rd16(m, m.pc + 1)

(* The machine after an instruction, one field after the other. *)
With(m, field, value) == [m EXCEPT ![field] = value]
Done(m, pc, codes, field, value) ==
  With(With(With(m, "pc", pc), "cc", codes), field, value)
Failed(m, pc) == With(With(With(m, "pc", pc), "ok", FALSE), "trap", {tc_trap})

(* The registers of a frame, in the CPU and in the memory from at on. *)
Registers(m) == [cc |-> m.cc, a |-> m.a, b |-> m.b, dp |-> m.dp, x |-> m.x, y |-> m.y,
                 u |-> m.u, pc |-> m.pc]
Interrupted(m) == [Registers(m) EXCEPT !.cc = @ \cup {cc_e}]
Stacked(m, at) ==
  [cc |-> Bits(Cell(m, at)), a |-> Cell(m, at + 1), b |-> Cell(m, at + 2),
   dp |-> Cell(m, at + 3), x |-> mem_rd16(m, at + 4), y |-> mem_rd16(m, at + 6),
   u |-> mem_rd16(m, at + 8), pc |-> mem_rd16(m, at + 10)]

LEMMA NextPc ==
  ASSUME NEW m, NEW length \in 1..4, InCode(m, length)
  PROVE  Wrap(m.pc + length) = m.pc + length /\ m.pc < TIO_BASE_ADDRESS
         /\ m.pc + (length - 1) < TIO_BASE_ADDRESS
BY DEF InCode, Wrap, TIO_BASE_ADDRESS

(* Moving pc changes nothing of what is read. *)
LEMMA PcAside ==
  ASSUME NEW m, IsMachine(m), NEW value
  PROVE  LET n == [m EXCEPT !.pc = value]
         IN  /\ \A addr : Cell(n, addr) = Cell(m, addr) /\ mem_rd8(n, addr) = mem_rd8(m, addr)
             /\ \A addr : mem_rd16(n, addr) = mem_rd16(m, addr)
             /\ \A addr : AfterRd8(n, addr) = [AfterRd8(m, addr) EXCEPT !.pc = value]
             /\ n.pc = value
             /\ \A field \in DOMAIN m \ {"pc"} : n[field] = m[field]
<1> DEFINE n == [m EXCEPT !.pc = value]
<1>1. /\ n.mem = m.mem /\ n.rbr = m.rbr /\ n.lsr = m.lsr /\ n.ier = m.ier /\ n.iir = m.iir
      /\ n.lcr = m.lcr /\ n.pc = value
  BY DEF IsMachine
<1>2. \A addr : Cell(n, addr) = Cell(m, addr)
  BY <1>1 DEF Cell
<1>3. \A addr : AfterRd8(n, addr) = [AfterRd8(m, addr) EXCEPT !.pc = value]
  BY DEF AfterRd8, IsMachine
<1>4. \A field \in DOMAIN m \ {"pc"} : n[field] = m[field]
  OBVIOUS
<1> HIDE DEF n
<1> QED BY <1>1, <1>2, <1>3, <1>4 DEF mem_rd8, mem_rd16, n

-----------------------------------------------------------------------------
(***************************************************************************)
(* Decoding.                                                               *)
(***************************************************************************)
LEMMA Decoded ==
  ASSUME NEW m, IsMachine(m), NEW opc, opc # op_page2, opc # op_page3,
         InCode(m, 1), Cell(m, m.pc) = opc
  PROVE  LET n == [m EXCEPT !.pc = m.pc + 1]
         IN  /\ cpu_execop(m) = ExecPage1(_eafromopc(n, opc).m, opc, _eafromopc(n, opc).val)
             /\ IsMachine(n)
<1>1. Wrap(m.pc + 1) = m.pc + 1 /\ m.pc < TIO_BASE_ADDRESS /\ m.pc \in Int
  BY NextPc DEF InCode
<1>2. m.pc + 1 \in Word
  BY <1>1, WordRange DEF InCode, TIO_BASE_ADDRESS
<1> QED BY <1>1, <1>2, Fetched, Put16

LEMMA ExtendedAddress ==
  ASSUME NEW m, IsMachine(m), InCode(m, 3), NEW opc, opc \div 16 \in {7, 11, 15}
  PROVE  _eafromopc([m EXCEPT !.pc = m.pc + 1], opc)
           = [val |-> Operand16(m), m |-> [m EXCEPT !.pc = m.pc + 3]]
<1> DEFINE n == [m EXCEPT !.pc = m.pc + 1]
<1>1. _eafromopc(n, opc) = Fetch16(n)
  BY DEF _eafromopc, _eaextended
<1>2. n.pc = m.pc + 1 /\ mem_rd16(n, m.pc + 1) = Operand16(m)
  <2>1. n.pc = m.pc + 1
    BY PcAside
  <2>2. \A addr : mem_rd16(n, addr) = mem_rd16(m, addr)
    BY PcAside
  <2> QED BY <2>1, <2>2 DEF Operand16
<1>3. Wrap((m.pc + 1) + 2) = m.pc + 3
  BY NextPc DEF InCode
<1>4. [n EXCEPT !.pc = m.pc + 3] = [m EXCEPT !.pc = m.pc + 3]
  BY DEF IsMachine
<1> HIDE DEF n
<1> QED BY <1>1, <1>2, <1>3, <1>4 DEF Fetch16, n

LEMMA ImmediateAddress ==
  ASSUME NEW m, IsMachine(m), InCode(m, 2), NEW opc, opc \div 16 \in {8, 12},
         opc % 16 \notin {3, 12, 14}
  PROVE  _eafromopc([m EXCEPT !.pc = m.pc + 1], opc)
           = [val |-> m.pc + 1, m |-> [m EXCEPT !.pc = m.pc + 2]]
<1> DEFINE n == [m EXCEPT !.pc = m.pc + 1]
<1>1. _eafromopc(n, opc) = _eaimmediate(n, 1)
  BY DEF _eafromopc
<1>2. n.pc = m.pc + 1
  BY PcAside
<1>3. Wrap((m.pc + 1) + 1) = m.pc + 2
  BY NextPc DEF InCode
<1>4. [n EXCEPT !.pc = m.pc + 2] = [m EXCEPT !.pc = m.pc + 2]
  BY DEF IsMachine
<1> HIDE DEF n
<1> QED BY <1>1, <1>2, <1>3, <1>4 DEF _eaimmediate, n

LEMMA DecodedExtended ==
  ASSUME NEW m, IsMachine(m), InCode(m, 3), NEW opc, opc \div 16 \in {7, 11, 15},
         opc # op_page2, opc # op_page3, Cell(m, m.pc) = opc
  PROVE  cpu_execop(m) = ExecPage1([m EXCEPT !.pc = m.pc + 3], opc, Operand16(m))
<1> DEFINE n == [m EXCEPT !.pc = m.pc + 1]
<1>1. InCode(m, 1)
  BY DEF InCode, TIO_BASE_ADDRESS
<1>2. cpu_execop(m) = ExecPage1(_eafromopc(n, opc).m, opc, _eafromopc(n, opc).val)
  BY <1>1, Decoded
<1>3. _eafromopc(n, opc) = [val |-> Operand16(m), m |-> [m EXCEPT !.pc = m.pc + 3]]
  BY ExtendedAddress
<1> HIDE DEF n
<1> QED BY <1>2, <1>3

LEMMA DecodedImmediate ==
  ASSUME NEW m, IsMachine(m), InCode(m, 2), NEW opc, opc \div 16 \in {8, 12},
         opc % 16 \notin {3, 12, 14}, opc # op_page2, opc # op_page3, Cell(m, m.pc) = opc
  PROVE  cpu_execop(m) = ExecPage1([m EXCEPT !.pc = m.pc + 2], opc, m.pc + 1)
<1> DEFINE n == [m EXCEPT !.pc = m.pc + 1]
<1>1. InCode(m, 1)
  BY DEF InCode, TIO_BASE_ADDRESS
<1>2. cpu_execop(m) = ExecPage1(_eafromopc(n, opc).m, opc, _eafromopc(n, opc).val)
  BY <1>1, Decoded
<1>3. _eafromopc(n, opc) = [val |-> m.pc + 1, m |-> [m EXCEPT !.pc = m.pc + 2]]
  BY ImmediateAddress
<1> HIDE DEF n
<1> QED BY <1>2, <1>3

-----------------------------------------------------------------------------
(***************************************************************************)
(* Loads, stores and AND of the accumulators.                              *)
(***************************************************************************)

LEMMA NotWide ==
  ASSUME NEW opc \in Nat, Nibble(opc) \notin {3, 12, 13, 14, 15}, NEW page
  PROVE  ~IsLoad16(page, opc) /\ ~IsStore16(page, opc) /\ ~IsCmp16(page, opc)
         /\ Row(opc) \notin {131, 195}
<1>1. Row(opc) % 16 = Nibble(opc)
  BY DEF Row, Nibble, Mode
<1>2. Row(opc) \notin {131, 140, 142, 143, 195, 204, 205, 206, 207}
  BY <1>1
<1> QED BY <1>2 DEF IsLoad16, IsStore16, IsCmp16, Load16, Store16, Cmp16

LEMMA AccumulatorGroup ==
  ASSUME NEW opc \in 128..255, Nibble(opc) \in Operations8 \cup {7}, NEW m, NEW ea
  PROVE  /\ Nibble(opc) \in Operations8 => ExecPage1(m, opc, ea) = ExecOperation8(m, opc, ea)
         /\ Nibble(opc) = 7 /\ ~IsImmediate(opc) =>
              ExecPage1(m, opc, ea) = ExecStore8(m, opc, ea)
<1>1. /\ opc \div 16 \notin {0, 2, 4, 5, 6, 7} /\ opc \notin {13, 14, 110, 126}
      /\ opc \notin {18, 25, 29, 58, 61} /\ opc # 22 /\ opc \notin {23, 141, 157, 173, 189}
      /\ opc \notin {26, 28} /\ opc \notin {30, 31} /\ opc \notin 48..51
      /\ opc \notin 52..55 /\ opc \notin {57, 59, 63} /\ opc >= 128
  BY DEF Nibble, Operations8
<1>2. Nibble(opc) \notin {3, 12, 13, 14, 15} /\ 7 \notin Operations8 /\ opc \in Nat
  BY DEF Operations8
<1>3. Row(opc) \notin {131, 195} /\ ~IsLoad16(1, opc) /\ ~IsStore16(1, opc) /\ ~IsCmp16(1, opc)
  BY <1>2, NotWide
<1> QED BY <1>1, <1>2, <1>3 DEF ExecPage1

(* LDA and LDB of an absolute address (b6, f6). *)
LEMMA LoadExtended ==
  ASSUME NEW m, IsMachine(m), InCode(m, 3), NEW opc \in {182, 246}, Cell(m, m.pc) = opc
  PROVE  LET reg == Accumulator(opc)
             ea  == Operand16(m)
             v   == mem_rd8(m, ea)
         IN  cpu_execop(m) = Done(AfterRd8(m, ea), m.pc + 3, _flags_nz_v8(m.cc, v), reg, v)
<1> DEFINE ea  == Operand16(m)
           n   == [m EXCEPT !.pc = m.pc + 3]
           reg == Accumulator(opc)
<1>1. opc \div 16 \in {11, 15} /\ opc # op_page2 /\ opc # op_page3 /\ opc % 16 = 6
  BY DEF op_page2, op_page3
<1>2. \A codes, a, b : Operate8(6, codes, a, b) = Logic(codes, b)
  BY DEF Operate8
<1>3. cpu_execop(m) = ExecPage1(n, opc, ea)
  BY <1>1, DecodedExtended
<1>4. ExecPage1(n, opc, ea) = ExecOperation8(n, opc, ea)
  BY <1>1, AccumulatorGroup DEF Nibble, Operations8
<1>5. reg \in Register8 /\ n.cc = m.cc /\ Nibble(opc) = 6
  BY <1>1, AccumulatorIsRegister DEF Nibble, IsMachine
<1>6. mem_rd8(n, ea) = mem_rd8(m, ea) /\ AfterRd8(n, ea) = [AfterRd8(m, ea) EXCEPT !.pc = m.pc + 3]
  BY PcAside
<1> DEFINE v == mem_rd8(m, ea)
           k == AfterRd8(m, ea)
<1>7. ExecOperation8(n, opc, ea)
        = Put([[k EXCEPT !.pc = m.pc + 3] EXCEPT !.cc = _flags_nz_v8(m.cc, v)], reg, v)
  <2>1. ExecOperation8(n, opc, ea) = PutOut(AfterRd8(n, ea), reg, Logic(m.cc, v))
    <3> HIDE DEF n, v, ea
    <3> QED BY <1>2, <1>5, <1>6 DEF ExecOperation8, v
  <2>2. AfterRd8(n, ea) = [k EXCEPT !.pc = m.pc + 3]
    BY <1>6
  <2> HIDE DEF n, v, ea, k, reg
  <2> QED BY <2>1, <2>2 DEF Logic, PutOut
<1>8. reg # "d" /\ reg # "cc" /\ reg # "pc"
  BY <1>5 DEF Register8
<1> HIDE DEF n, v, k, ea, reg
<1>9. cpu_execop(m) = Done(k, m.pc + 3, _flags_nz_v8(m.cc, v), reg, v)
  BY <1>3, <1>4, <1>7, <1>8 DEF Put, Done, With
<1> QED BY <1>9 DEF reg, ea, v, k

(* ANDA of a constant (84). *)
LEMMA AndImmediate ==
  ASSUME NEW m, IsMachine(m), InCode(m, 2), Cell(m, m.pc) = 132
  PROVE  LET v == ByteOf(Bits(m.a) \cap Bits(Operand8(m)))
         IN  cpu_execop(m) = Done(m, m.pc + 2, _flags_nz_v8(m.cc, v), "a", v)
<1> DEFINE n == [m EXCEPT !.pc = m.pc + 2]
           v == ByteOf(Bits(m.a) \cap Bits(Operand8(m)))
           out == Logic(m.cc, v)
<1>1. 132 \div 16 = 8 /\ 132 % 16 = 4 /\ 132 # op_page2 /\ 132 # op_page3
  BY DEF op_page2, op_page3
<1>2. cpu_execop(m) = ExecPage1(n, 132, m.pc + 1)
  BY <1>1, DecodedImmediate
<1>3. ExecPage1(n, 132, m.pc + 1) = ExecOperation8(n, 132, m.pc + 1)
  BY <1>1, AccumulatorGroup DEF Nibble, Operations8
<1>4. m.pc + 1 \in Int /\ m.pc + 1 < TIO_BASE_ADDRESS
  BY DEF InCode, TIO_BASE_ADDRESS
<1>5. mem_rd8(n, m.pc + 1) = Operand8(m) /\ AfterRd8(n, m.pc + 1) = n
  <2>1. \A addr : Cell(n, addr) = Cell(m, addr)
    BY PcAside
  <2> QED BY <1>4, <2>1, InRam DEF Operand8
<1>6. Accumulator(132) = "a" /\ Nibble(132) = 4 /\ n.a = m.a /\ n.cc = m.cc
  BY <1>1 DEF Accumulator, Nibble, IsMachine
<1>7. \A codes, a, b : Operate8(4, codes, a, b) = Logic(codes, ByteOf(Bits(a) \cap Bits(b)))
  BY DEF Operate8, lo_and
<1>8. ExecOperation8(n, 132, m.pc + 1) = PutOut(n, "a", out)
  <2> HIDE DEF n
  <2> QED BY <1>5, <1>6, <1>7 DEF ExecOperation8
<1>9. PutOut(n, "a", out) = Done(m, m.pc + 2, _flags_nz_v8(m.cc, v), "a", v)
  <2> HIDE DEF v
  <2> QED BY DEF PutOut, Put, Logic, Done, With
<1> HIDE DEF n, v, out
<1> QED BY <1>2, <1>3, <1>8, <1>9 DEF v

(* STA and STB to the data register of the UART (b7, f7). *)
LEMMA StoreThr ==
  ASSUME NEW m, IsMachine(m), InCode(m, 3), NEW opc \in {183, 247}, Cell(m, m.pc) = opc,
         Operand16(m) = TIO_ADDR_RBR_THR
  PROVE  LET v == m[Accumulator(opc)]
         IN  cpu_execop(m) = Done(With(m, "lsr", tio_write_thr(m.lsr)), m.pc + 3,
                                  _flags_nz_v8(m.cc, v), "thr", v)
<1> DEFINE n == [m EXCEPT !.pc = m.pc + 3]
           v == m[Accumulator(opc)]
<1>1. opc \div 16 \in {11, 15} /\ opc # op_page2 /\ opc # op_page3 /\ opc % 16 = 7
      /\ Mode(opc) = 3
  BY DEF op_page2, op_page3, Mode
<1>2. cpu_execop(m) = ExecPage1(n, opc, TIO_ADDR_RBR_THR)
  BY <1>1, DecodedExtended
<1>3. ExecPage1(n, opc, TIO_ADDR_RBR_THR) = ExecStore8(n, opc, TIO_ADDR_RBR_THR)
  BY <1>1, AccumulatorGroup DEF Nibble, IsImmediate
<1>4. n[Accumulator(opc)] = v /\ n.cc = m.cc
  <2>1. Accumulator(opc) \in {"a", "b"}
    BY DEF Accumulator
  <2> QED BY <2>1 DEF IsMachine
<1>5. mem_wr8(n, TIO_ADDR_RBR_THR, v) = [n EXCEPT !.thr = v, !.lsr = tio_write_thr(@)]
  <2> HIDE DEF n, v
  <2> QED BY DEF mem_wr8, TIO_ADDR_RBR_THR, TIO_ADDR_LSR, TIO_ADDR_IER, TIO_ADDR_IIR,
                 TIO_ADDR_LCR, TIO_BASE_ADDRESS
<1>6. ExecStore8(n, opc, TIO_ADDR_RBR_THR)
        = [[n EXCEPT !.thr = v, !.lsr = tio_write_thr(@)] EXCEPT !.cc = _flags_nz_v8(m.cc, v)]
  <2> HIDE DEF n, v
  <2> QED BY <1>4, <1>5 DEF ExecStore8, WithCc
<1>7. [[n EXCEPT !.thr = v, !.lsr = tio_write_thr(@)] EXCEPT !.cc = _flags_nz_v8(m.cc, v)]
        = Done(With(m, "lsr", tio_write_thr(m.lsr)), m.pc + 3, _flags_nz_v8(m.cc, v), "thr", v)
  <2> HIDE DEF v
  <2> QED BY DEF Done, With, IsMachine
<1> HIDE DEF n, v
<1> QED BY <1>2, <1>3, <1>6, <1>7 DEF v

-----------------------------------------------------------------------------
(***************************************************************************)
(* Jumps, and what does nothing or cannot be done.                         *)
(***************************************************************************)

(* The short branches (20-2f). *)
LEMMA ShortBranch ==
  ASSUME NEW m, IsMachine(m), InCode(m, 2), NEW opc \in 32..47, Cell(m, m.pc) = opc
  PROVE  cpu_execop(m) = With(m, "pc",
           IF Taken(m.cc, Nibble(opc)) THEN Wrap(m.pc + 2 + _sext816(Operand8(m)))
           ELSE m.pc + 2)
<1> DEFINE n  == [m EXCEPT !.pc = m.pc + 1]
           k  == [m EXCEPT !.pc = m.pc + 2]
           ea == Wrap(m.pc + 2 + _sext816(Operand8(m)))
<1>1. InCode(m, 1) /\ opc # op_page2 /\ opc # op_page3
  BY DEF InCode, TIO_BASE_ADDRESS, op_page2, op_page3
<1>2. cpu_execop(m) = ExecPage1(_eafromopc(n, opc).m, opc, _eafromopc(n, opc).val)
  BY <1>1, Decoded
<1>3. m.pc + 1 \in Int /\ m.pc + 1 < TIO_BASE_ADDRESS /\ Wrap(m.pc + 1 + 1) = m.pc + 2
      /\ m.pc + 1 + 1 = m.pc + 2
  BY NextPc DEF InCode
<1>4. n.pc = m.pc + 1 /\ mem_rd8(n, m.pc + 1) = Operand8(m) /\ AfterRd8(n, m.pc + 1) = n
  <2>1. \A addr : Cell(n, addr) = Cell(m, addr)
    BY PcAside
  <2>2. n.pc = m.pc + 1
    BY PcAside
  <2> QED BY <1>3, <2>1, <2>2, InRam DEF Operand8
<1>5. [n EXCEPT !.pc = m.pc + 2] = k
  BY DEF IsMachine
<1>6. _eafromopc(n, opc) = [val |-> ea, m |-> k]
  <2>1. _eafromopc(n, opc) = _earelative(n, 1)
    <3>1. opc \div 16 = 2
      OBVIOUS
    <3> QED BY <3>1 DEF _eafromopc
  <2> HIDE DEF n, k
  <2> QED BY <1>3, <1>4, <1>5, <2>1 DEF _earelative
<1>7. k.cc = m.cc
  BY DEF IsMachine
<1>8. ExecPage1(k, opc, ea) = Branch(k, opc, ea)
  <2>1. opc \div 16 = 2 /\ ~(opc >= 128)
    OBVIOUS
  <2> HIDE DEF k, ea
  <2> QED BY <2>1, LowOpcode DEF ExecPage1
<1>9. [k EXCEPT !.pc = ea] = [m EXCEPT !.pc = ea]
  BY DEF IsMachine
<1> HIDE DEF n, ea
<1>10. cpu_execop(m) = IF Taken(m.cc, Nibble(opc)) THEN [m EXCEPT !.pc = ea] ELSE k
  <2> HIDE DEF k
  <2> QED BY <1>2, <1>6, <1>7, <1>8, <1>9 DEF Branch, _jump
<1> QED BY <1>10 DEF ea, With

(* BEQ (27). *)
LEMMA BranchIfEqual ==
  ASSUME NEW m, IsMachine(m), InCode(m, 2), Cell(m, m.pc) = 39
  PROVE  cpu_execop(m) = With(m, "pc",
           IF cc_z \in m.cc THEN Wrap(m.pc + 2 + _sext816(Operand8(m))) ELSE m.pc + 2)
<1>1. Taken(m.cc, Nibble(39)) <=> cc_z \in m.cc
  BY DEF Taken, Nibble
<1> QED BY <1>1, ShortBranch

(* LBRA (16). *)
LEMMA BranchAlways ==
  ASSUME NEW m, IsMachine(m), InCode(m, 3), Cell(m, m.pc) = 22
  PROVE  cpu_execop(m) = With(m, "pc", Wrap(m.pc + 3 + Operand16(m)))
<1> DEFINE n  == [m EXCEPT !.pc = m.pc + 1]
           k  == [m EXCEPT !.pc = m.pc + 3]
           ea == Wrap(m.pc + 3 + Operand16(m))
<1>1. InCode(m, 1) /\ 22 # op_page2 /\ 22 # op_page3
  BY DEF InCode, TIO_BASE_ADDRESS, op_page2, op_page3
<1>2. cpu_execop(m) = ExecPage1(_eafromopc(n, 22).m, 22, _eafromopc(n, 22).val)
  BY <1>1, Decoded
<1>3. m.pc + 1 \in Int /\ Wrap(m.pc + 1 + 2) = m.pc + 3 /\ m.pc + 1 + 2 = m.pc + 3
  BY NextPc DEF InCode
<1>4. n.pc = m.pc + 1 /\ mem_rd16(n, m.pc + 1) = Operand16(m)
  <2>1. n.pc = m.pc + 1
    BY PcAside
  <2>2. \A addr : mem_rd16(n, addr) = mem_rd16(m, addr)
    BY PcAside
  <2> QED BY <2>1, <2>2 DEF Operand16
<1>5. [n EXCEPT !.pc = m.pc + 3] = k
  BY DEF IsMachine
<1>6. _eafromopc(n, 22) = [val |-> ea, m |-> k]
  <2>1. _eafromopc(n, 22) = _earelative(n, 2)
    <3>1. 22 \div 16 = 1 /\ 22 % 16 = 6
      OBVIOUS
    <3> QED BY <3>1 DEF _eafromopc
  <2> HIDE DEF n, k
  <2> QED BY <1>3, <1>4, <1>5, <2>1 DEF _earelative
<1>7. ExecPage1(k, 22, ea) = _jump(k, ea)
  <2>1. 22 \div 16 = 1 /\ ~(22 >= 128)
    OBVIOUS
  <2> HIDE DEF k, ea
  <2> QED BY <2>1, LowOpcode DEF ExecPage1
<1>8. [k EXCEPT !.pc = ea] = [m EXCEPT !.pc = ea]
  BY DEF IsMachine
<1> HIDE DEF n, k
<1> QED BY <1>2, <1>6, <1>7, <1>8 DEF _jump, With

(* The long ones (10 21-2f): the byte behind the two of the opcode is the  *)
(* offset, and the next one is left for the next instruction.              *)
LEMMA LongBranch ==
  ASSUME NEW m, IsMachine(m), InCode(m, 3), Cell(m, m.pc) = op_page2,
         NEW opc \in 33..47, Cell(m, m.pc + 1) = opc
  PROVE  cpu_execop(m) = With(m, "pc",
           IF Taken(m.cc, Nibble(opc)) THEN Wrap(m.pc + 3 + _sext816(Cell(m, m.pc + 2)))
           ELSE m.pc + 3)
<1> DEFINE n  == [m EXCEPT !.pc = m.pc + 1]
           h  == [m EXCEPT !.pc = m.pc + 2]
           k  == [m EXCEPT !.pc = m.pc + 3]
           ea == Wrap(m.pc + 3 + _sext816(Cell(m, m.pc + 2)))
<1>1. /\ m.pc \in Int /\ m.pc < TIO_BASE_ADDRESS /\ m.pc + 1 < TIO_BASE_ADDRESS
      /\ m.pc + 2 < TIO_BASE_ADDRESS
      /\ Wrap(m.pc + 1) = m.pc + 1 /\ Wrap((m.pc + 1) + 1) = m.pc + 2
      /\ Wrap((m.pc + 2) + 1) = m.pc + 3
  BY DEF InCode, Wrap, TIO_BASE_ADDRESS
<1>2. Fetch(m) = [val |-> op_page2, m |-> n]
  <2>1. mem_rd8(m, m.pc) = op_page2 /\ AfterRd8(m, m.pc) = m
    BY <1>1, InRam
  <2>2. [m EXCEPT !.pc = Wrap(@ + 1)] = n
    BY <1>1
  <2> HIDE DEF n
  <2> QED BY <2>1, <2>2 DEF Fetch
<1>3. n.pc = m.pc + 1 /\ \A addr : Cell(n, addr) = Cell(m, addr)
  BY PcAside
<1>4. [n EXCEPT !.pc = m.pc + 2] = h
  BY DEF IsMachine
<1>5. Fetch(n) = [val |-> opc, m |-> h]
  <2>1. n.pc < TIO_BASE_ADDRESS /\ n.pc \in Int /\ Wrap(n.pc + 1) = m.pc + 2 /\ Cell(n, n.pc) = opc
    BY <1>1, <1>3
  <2>2. mem_rd8(n, n.pc) = opc /\ AfterRd8(n, n.pc) = n
    BY <2>1, InRam
  <2> HIDE DEF n, h
  <2> QED BY <1>3, <1>4, <2>1, <2>2 DEF Fetch
<1>6. h.pc = m.pc + 2 /\ \A addr : Cell(h, addr) = Cell(m, addr)
  BY PcAside
<1>7. mem_rd8(h, m.pc + 2) = Cell(m, m.pc + 2) /\ AfterRd8(h, m.pc + 2) = h
  BY <1>1, <1>6, InRam
<1>8. [h EXCEPT !.pc = m.pc + 3] = k
  BY DEF IsMachine
<1>9. _eafromopc(h, opc) = [val |-> ea, m |-> k]
  <2>1. _eafromopc(h, opc) = _earelative(h, 1)
    <3>1. opc \div 16 = 2
      OBVIOUS
    <3> QED BY <3>1 DEF _eafromopc
  <2>2. m.pc + 2 + 1 = m.pc + 3
    BY <1>1
  <2> HIDE DEF h, k
  <2> QED BY <1>1, <1>6, <1>7, <1>8, <2>1, <2>2 DEF _earelative
<1>10. k.cc = m.cc /\ [k EXCEPT !.pc = ea] = [m EXCEPT !.pc = ea]
  BY DEF IsMachine
<1>11. _execop_page2(k, opc, ea) = Branch(k, opc, ea)
  <2>1. ~(opc >= 128)
    OBVIOUS
  <2> HIDE DEF k, ea
  <2> QED BY <2>1, LowOpcode DEF _execop_page2, IsLoad16, IsStore16, IsCmp16
<1> HIDE DEF n, h, ea
<1>12. cpu_execop(m) = IF Taken(m.cc, Nibble(opc)) THEN [m EXCEPT !.pc = ea] ELSE k
  <2> HIDE DEF k
  <2>1. cpu_execop(m) = _execop_page2(_eafromopc(h, opc).m, opc, _eafromopc(h, opc).val)
    <3>1. /\ Fetch(m).val = op_page2 /\ Fetch(m).m = n
          /\ Fetch(n).val = opc /\ Fetch(n).m = h
      BY <1>2, <1>5
    <3> QED BY <3>1 DEF cpu_execop, op_page2, op_page3
  <2> QED BY <1>9, <1>10, <1>11, <2>1 DEF Branch, _jump
<1> QED BY <1>12 DEF ea, With

(* JMP to an absolute address (7e). *)
LEMMA JumpExtended ==
  ASSUME NEW m, IsMachine(m), InCode(m, 3), Cell(m, m.pc) = 126
  PROVE  cpu_execop(m) = With(m, "pc", Operand16(m))
<1> DEFINE n == [m EXCEPT !.pc = m.pc + 3]
<1>1. 126 \div 16 = 7 /\ 126 # op_page2 /\ 126 # op_page3 /\ Nibble(126) = 14
      /\ ~(126 >= 128)
  BY DEF op_page2, op_page3, Nibble
<1>2. cpu_execop(m) = ExecPage1(n, 126, Operand16(m))
  BY <1>1, DecodedExtended
<1>3. ExecPage1(n, 126, Operand16(m)) = _jump(n, Operand16(m))
  <2> HIDE DEF n
  <2> QED BY <1>1, LowOpcode DEF ExecPage1, Modifications
<1>4. [n EXCEPT !.pc = Operand16(m)] = [m EXCEPT !.pc = Operand16(m)]
  BY DEF IsMachine
<1> QED BY <1>2, <1>3, <1>4 DEF _jump, With

(* NOP (12). *)
LEMMA Nop ==
  ASSUME NEW m, IsMachine(m), InCode(m, 1), Cell(m, m.pc) = 18
  PROVE  cpu_execop(m) = With(m, "pc", m.pc + 1)
<1> DEFINE n == [m EXCEPT !.pc = m.pc + 1]
<1>1. 18 \div 16 = 1 /\ 18 % 16 = 2 /\ 18 # op_page2 /\ 18 # op_page3 /\ ~(18 >= 128)
  BY DEF op_page2, op_page3
<1>2. cpu_execop(m) = ExecPage1(_eafromopc(n, 18).m, 18, _eafromopc(n, 18).val)
  BY <1>1, Decoded
<1> HIDE DEF n
<1>3. _eafromopc(n, 18) = Inherent(n)
  BY <1>1 DEF _eafromopc
<1>4. \A ea : ExecPage1(n, 18, ea) = n
  BY <1>1, LowOpcode DEF ExecPage1, ExecRegister
<1> QED BY <1>2, <1>3, <1>4 DEF Inherent, n, With

(* The byte 01 is no instruction; its operand, a direct one, is skipped.   *)
LEMMA NoInstruction ==
  ASSUME NEW m, IsMachine(m), InCode(m, 2), Cell(m, m.pc) = 1
  PROVE  cpu_execop(m) = Failed(m, m.pc + 2)
<1> DEFINE n == [m EXCEPT !.pc = m.pc + 1]
           k == [m EXCEPT !.pc = m.pc + 2]
<1>1. 1 \div 16 = 0 /\ Nibble(1) = 1 /\ 1 # op_page2 /\ 1 # op_page3 /\ ~(1 >= 128)
      /\ InCode(m, 1)
  BY DEF op_page2, op_page3, Nibble, InCode, TIO_BASE_ADDRESS
<1>2. cpu_execop(m) = ExecPage1(_eafromopc(n, 1).m, 1, _eafromopc(n, 1).val)
  BY <1>1, Decoded
<1>3. m.pc + 1 \in Int /\ m.pc + 1 < TIO_BASE_ADDRESS /\ Wrap(m.pc + 1 + 1) = m.pc + 2
  BY NextPc DEF InCode
<1>4. n.pc = m.pc + 1 /\ AfterRd8(n, m.pc + 1) = n
  BY <1>3, PcAside, InRam
<1>5. [n EXCEPT !.pc = m.pc + 2] = k
  BY DEF IsMachine
<1>6. _eafromopc(n, 1).m = k
  <2>1. _eafromopc(n, 1) = _eadirect(n)
    BY <1>1 DEF _eafromopc
  <2> HIDE DEF n, k
  <2> QED BY <1>3, <1>4, <1>5, <2>1 DEF _eadirect, Fetch
<1>7. \A ea : ExecPage1(k, 1, ea) = _errorexit(k)
  <2> HIDE DEF k
  <2> QED BY <1>1, LowOpcode DEF ExecPage1, Modifications
<1> HIDE DEF n
<1> QED BY <1>2, <1>6, <1>7 DEF _errorexit, With, Failed

-----------------------------------------------------------------------------
(***************************************************************************)
(* Loads of 16 bits, and indexed addresses.                                *)
(***************************************************************************)

(* LDS of a constant (10 ce). *)
LEMMA LoadStackPointer ==
  ASSUME NEW m, IsMachine(m), InCode(m, 4), Cell(m, m.pc) = 16, Cell(m, m.pc + 1) = 206
  PROVE  LET v == mem_rd16(m, m.pc + 2)
         IN  cpu_execop(m) = Done(m, m.pc + 4, _flags_nz_v16(m.cc, v), "s", v)
<1> DEFINE n == [m EXCEPT !.pc = m.pc + 1]
           k == [m EXCEPT !.pc = m.pc + 2]
           l == [m EXCEPT !.pc = m.pc + 4]
           v == mem_rd16(m, m.pc + 2)
<1>1. /\ m.pc \in Int /\ m.pc < TIO_BASE_ADDRESS /\ m.pc + 1 < TIO_BASE_ADDRESS
      /\ Wrap(m.pc + 1) = m.pc + 1 /\ Wrap((m.pc + 1) + 1) = m.pc + 2
      /\ Wrap((m.pc + 2) + 2) = m.pc + 4 /\ m.pc + 1 \in Int
  BY DEF InCode, Wrap, TIO_BASE_ADDRESS
<1>2. n.pc = m.pc + 1 /\ [n EXCEPT !.pc = m.pc + 2] = k
      /\ k.pc = m.pc + 2 /\ [k EXCEPT !.pc = m.pc + 4] = l /\ l.cc = m.cc
  BY DEF IsMachine
<1>3. Cell(n, m.pc + 1) = 206
  BY PcAside
<1>4. mem_rd16(l, m.pc + 2) = v
  BY PcAside
<1> HIDE DEF n, k, l, v
<1>5. Fetch(m) = [val |-> 16, m |-> n]
  BY <1>1, InRam DEF Fetch, n
<1>6. Fetch(n) = [val |-> 206, m |-> k]
  BY <1>1, <1>2, <1>3, InRam DEF Fetch
<1>7. _eafromopc(k, 206) = [val |-> m.pc + 2, m |-> l]
  <2>1. 206 \div 16 = 12 /\ 206 % 16 = 14
    OBVIOUS
  <2>2. _eafromopc(k, 206) = _eaimmediate(k, 2)
    BY <2>1 DEF _eafromopc
  <2> QED BY <1>1, <1>2, <2>2 DEF _eaimmediate
<1>8. cpu_execop(m) = _execop_page2(l, 206, m.pc + 2)
  BY <1>5, <1>6, <1>7 DEF cpu_execop, op_page2, op_page3
<1>9. /\ IsLoad16(2, 206) /\ Load16(2, Row(206)) = "s"
      /\ ~IsStore16(2, 206) /\ ~IsCmp16(2, 206) /\ 206 \notin 33..47 /\ 206 # 63
  <2>1. Row(206) = 206
    BY DEF Row, Mode
  <2> QED BY <2>1 DEF IsLoad16, IsStore16, IsCmp16, Load16, Store16, Cmp16
<1>10. _execop_page2(l, 206, m.pc + 2) = ExecLoad16(l, "s", m.pc + 2)
  BY <1>9 DEF _execop_page2
<1>11. cpu_execop(m) = [[l EXCEPT !.s = v] EXCEPT !.cc = _flags_nz_v16(m.cc, v)]
  BY <1>2, <1>4, <1>8, <1>10 DEF ExecLoad16, WithCc, Put
<1>12. [[l EXCEPT !.s = v] EXCEPT !.cc = _flags_nz_v16(m.cc, v)]
         = Done(m, m.pc + 4, _flags_nz_v16(m.cc, v), "s", v)
  BY DEF l, Done, With, IsMachine
<1> QED BY <1>11, <1>12 DEF v

(* LEAY of an offset from pc (31 8c). *)
LEMMA LoadAddressY ==
  ASSUME NEW m, IsMachine(m), InCode(m, 3), Cell(m, m.pc) = 49, Operand8(m) = 140
  PROVE  LET ea == Wrap(m.pc + 3 + _sext816(Cell(m, m.pc + 2)))
         IN  cpu_execop(m) = Done(m, m.pc + 3, _flags_z16(m.cc, ea), "y", ea)
<1> DEFINE n == [m EXCEPT !.pc = m.pc + 1]
           k == [m EXCEPT !.pc = m.pc + 2]
           l == [m EXCEPT !.pc = m.pc + 3]
           ofs == Cell(m, m.pc + 2)
           ea == Wrap(m.pc + 3 + _sext816(ofs))
<1>1. /\ m.pc \in Int /\ m.pc + 1 < TIO_BASE_ADDRESS /\ m.pc + 2 < TIO_BASE_ADDRESS
      /\ Wrap((m.pc + 1) + 1) = m.pc + 2 /\ Wrap((m.pc + 2) + 1) = m.pc + 3
      /\ m.pc + 1 \in Int /\ m.pc + 2 \in Int /\ InCode(m, 1)
  BY DEF InCode, Wrap, TIO_BASE_ADDRESS
<1>2. /\ n.pc = m.pc + 1 /\ [n EXCEPT !.pc = m.pc + 2] = k
      /\ k.pc = m.pc + 2 /\ [k EXCEPT !.pc = m.pc + 3] = l /\ l.pc = m.pc + 3
      /\ l.cc = m.cc /\ l.ok = m.ok
  BY DEF IsMachine
<1>3. Cell(n, m.pc + 1) = 140
  BY PcAside DEF Operand8
<1>4. Cell(k, m.pc + 2) = ofs
  BY PcAside
<1>5. 49 # op_page2 /\ 49 # op_page3
  BY DEF op_page2, op_page3
<1>6. cpu_execop(m) = ExecPage1(_eafromopc(n, 49).m, 49, _eafromopc(n, 49).val)
  BY <1>1, <1>5, Decoded
<1> HIDE DEF n, k, l, ofs, ea
<1>7. Fetch(n) = [val |-> 140, m |-> k]
  BY <1>1, <1>2, <1>3, InRam DEF Fetch
<1>8. Fetch(k) = [val |-> ofs, m |-> l]
  BY <1>1, <1>2, <1>4, InRam DEF Fetch
<1>9. IndexedBase(k, 140) = [val |-> ea, m |-> l]
  <2>1. 140 % 16 = 12 /\ ~(140 < 128)
    OBVIOUS
  <2>2. IndexedBase(k, 140) =
          [val |-> Wrap(Fetch(k).m.pc + _sext816(Fetch(k).val)), m |-> Fetch(k).m]
    BY <2>1 DEF IndexedBase
  <2> QED BY <1>2, <1>8, <2>2 DEF ea
<1>10. _eafromopc(n, 49) = [val |-> ea, m |-> l]
  <2>1. _eafromopc(n, 49) = _eaindexed(n)
    BY DEF _eafromopc
  <2>2. ~((140 \div 16) % 2 = 1)
    OBVIOUS
  <2>3. _eaindexed(n) = IndexedBase(k, 140)
    BY <1>7, <2>2 DEF _eaindexed
  <2> QED BY <1>9, <2>1, <2>3
<1>11. ExecPage1(l, 49, ea) = ExecLea(l, 49, ea)
  BY LowOpcode DEF ExecPage1
<1>12. Nibble(49) = 1
  BY DEF Nibble
<1>13. ExecLea(l, 49, ea) = WithCc([l EXCEPT !.y = ea], _flags_z16(l.cc, ea))
  BY <1>12 DEF ExecLea
<1>14. WithCc([l EXCEPT !.y = ea], _flags_z16(m.cc, ea))
         = Done(m, m.pc + 3, _flags_z16(m.cc, ea), "y", ea)
  BY DEF WithCc, l, Done, With, IsMachine
<1>15. cpu_execop(m) = Done(m, m.pc + 3, _flags_z16(m.cc, ea), "y", ea)
  BY <1>2, <1>6, <1>10, <1>11, <1>13, <1>14
<1> QED BY <1>15 DEF ea, ofs

(* LDA through Y, which moves on (a6 a0). *)
LEMMA LoadNext ==
  ASSUME NEW m, IsMachine(m), InCode(m, 2), Cell(m, m.pc) = 166, Operand8(m) = 160,
         m.y < TIO_BASE_ADDRESS
  PROVE  LET v == Cell(m, m.y)
         IN  cpu_execop(m) = Done(With(m, "y", Wrap(m.y + 1)), m.pc + 2,
                                  _flags_nz_v8(m.cc, v), "a", v)
<1> DEFINE n == [m EXCEPT !.pc = m.pc + 1]
           k == [m EXCEPT !.pc = m.pc + 2]
           l == [m EXCEPT !.pc = m.pc + 2, !.y = Wrap(m.y + 1)]
           v == Cell(m, m.y)
<1>1. /\ m.pc \in Int /\ m.pc + 1 < TIO_BASE_ADDRESS
      /\ Wrap((m.pc + 1) + 1) = m.pc + 2
      /\ m.pc + 1 \in Int /\ InCode(m, 1)
  BY DEF InCode, Wrap, TIO_BASE_ADDRESS
<1>2. /\ n.pc = m.pc + 1 /\ [n EXCEPT !.pc = m.pc + 2] = k
      /\ k.y = m.y /\ [k EXCEPT !.y = Wrap(m.y + 1)] = l
      /\ l.cc = m.cc /\ l.a = m.a /\ l.mem = m.mem
  BY DEF IsMachine
<1>3. Cell(n, m.pc + 1) = 160
  BY PcAside DEF Operand8
<1>4. Cell(l, m.y) = v
  BY <1>2 DEF Cell
<1>5. 166 # op_page2 /\ 166 # op_page3
  BY DEF op_page2, op_page3
<1>6. cpu_execop(m) = ExecPage1(_eafromopc(n, 166).m, 166, _eafromopc(n, 166).val)
  BY <1>1, <1>5, Decoded
<1>7. m.y \in Int /\ m.y < TIO_BASE_ADDRESS
  BY FieldsOfMachine, WordRange
<1> HIDE DEF n, k, l, v
<1>8. Fetch(n) = [val |-> 160, m |-> k]
  BY <1>1, <1>2, <1>3, InRam DEF Fetch
<1>9. IndexedBase(k, 160) = [val |-> m.y, m |-> l]
  <2>1. 160 % 16 = 0 /\ ~(160 < 128) /\ ((160 \div 32) % 4) + 1 = 2
    OBVIOUS
  <2>2. IndexedBase(k, 160) = [val |-> k["y"], m |-> [k EXCEPT !["y"] = Wrap(@ + 1)]]
    BY <2>1 DEF IndexedBase
  <2> QED BY <1>2, <2>2
<1>10. _eafromopc(n, 166) = [val |-> m.y, m |-> l]
  <2>1. _eafromopc(n, 166) = _eaindexed(n)
    BY DEF _eafromopc
  <2>2. ~((160 \div 16) % 2 = 1)
    OBVIOUS
  <2>3. _eaindexed(n) = IndexedBase(k, 160)
    BY <1>8, <2>2 DEF _eaindexed
  <2> QED BY <1>9, <2>1, <2>3
<1>11. Nibble(166) = 6 /\ Accumulator(166) = "a" /\ 6 \in Operations8
  BY DEF Nibble, Accumulator, Operations8
<1>12. ExecPage1(l, 166, m.y) = ExecOperation8(l, 166, m.y)
  BY <1>11, AccumulatorGroup
<1>13. mem_rd8(l, m.y) = v /\ AfterRd8(l, m.y) = l
  <2>1. ASSUME NEW addr \in Int, addr < TIO_BASE_ADDRESS
        PROVE  mem_rd8(l, addr) = Cell(l, addr) /\ AfterRd8(l, addr) = l
    BY <2>1, InRam
  <2> QED BY <1>4, <1>7, <2>1
<1>14. \A codes, a, b : Operate8(6, codes, a, b) = Logic(codes, b)
  BY DEF Operate8
<1>15. ExecOperation8(l, 166, m.y) = PutOut(l, "a", Logic(m.cc, v))
  BY <1>2, <1>11, <1>13, <1>14 DEF ExecOperation8
<1>16. PutOut(l, "a", Logic(m.cc, v)) = [l EXCEPT !.cc = _flags_nz_v8(m.cc, v), !.a = v]
  BY DEF PutOut, Put, Logic
<1>17. [l EXCEPT !.cc = _flags_nz_v8(m.cc, v), !.a = v]
         = Done(With(m, "y", Wrap(m.y + 1)), m.pc + 2, _flags_nz_v8(m.cc, v), "a", v)
  BY DEF l, Done, With, IsMachine
<1> QED BY <1>6, <1>10, <1>12, <1>15, <1>16, <1>17 DEF v

-----------------------------------------------------------------------------
(***************************************************************************)
(* The frame of an interrupt.                                              *)
(***************************************************************************)

(* What the stack operations leave alone. *)
Aside == {"irq", "trap", "ok", "crashed", "rbr", "thr", "lcr", "lsr", "ier", "iir"}

LEMMA PutAside ==
  ASSUME NEW m, IsMachine(m), NEW reg \in Field, NEW value
  PROVE  \A field \in Aside : Put(m, reg, value)[field] = m[field]
<1>1. reg # "d" /\ reg \notin Aside
  BY DEF Field, Register8, Register16, Aside
<1>2. Put(m, reg, value) = [m EXCEPT ![reg] = IF reg = "cc" THEN Bits(value) ELSE value]
  BY <1>1 DEF Put
<1>3. Aside \subseteq DOMAIN m
  BY DEF IsMachine, Aside
<1> HIDE DEF Field, Aside
<1> QED BY <1>1, <1>2, <1>3

LEMMA PushAside ==
  ASSUME NEW m, IsMachine(m), NEW reg \in Field, reg # "s",
         Size(reg) <= m.s, m.s <= TIO_BASE_ADDRESS
  PROVE  \A field \in Aside : Push(m, "s", reg)[field] = m[field]
<1> DEFINE sp == m.s - Size(reg)
           k  == [m EXCEPT !.s = sp]
<1>1. m.s \in Int /\ 0 <= m.s /\ m.s <= 65535
  BY FieldsOfMachine, WordRange
<1>2. sp \in Int /\ 0 <= sp /\ sp < TIO_BASE_ADDRESS /\ Wrap(sp) = sp
  BY <1>1 DEF Size, Wrap, TIO_BASE_ADDRESS
<1>3. Aside \cup {"mem"} \subseteq DOMAIN m /\ "s" \notin Aside /\ "mem" \notin Aside
  BY DEF IsMachine, Aside
<1>4. \A field \in Aside : k[field] = m[field]
  BY <1>3
<1>5. ASSUME NEW l, DOMAIN l = DOMAIN m, NEW addr, NEW data
      PROVE  /\ \A field \in Aside : Store(l, addr, data)[field] = l[field]
             /\ DOMAIN Store(l, addr, data) = DOMAIN m
  BY <1>3, <1>5 DEF Store
<1>6. DOMAIN k = DOMAIN m
  OBVIOUS
<1> HIDE DEF k, sp
<1>7. CASE IsWide(reg)
  <2>1. Push(m, "s", reg) = mem_wr16(k, sp, Get(m, reg))
    BY <1>2, <1>7 DEF Push, k, sp, Size
  <2> QED BY <1>4, <1>5, <1>6, <2>1 DEF mem_wr16
<1>8. CASE ~IsWide(reg)
  <2>1. Push(m, "s", reg) = Store(k, sp, Get(m, reg))
    <3>1. mem_wr8(k, sp, Get(m, reg)) = Store(k, sp, Get(m, reg))
      BY <1>2, InRam
    <3> QED BY <1>2, <1>8, <3>1 DEF Push, k, sp, Size
  <2> QED BY <1>4, <1>5, <1>6, <2>1
<1> QED BY <1>7, <1>8

LEMMA PullAside ==
  ASSUME NEW m, IsMachine(m), NEW reg \in Field, reg # "s",
         m.s + Size(reg) <= TIO_BASE_ADDRESS
  PROVE  \A field \in Aside : Pull(m, "s", reg)[field] = m[field]
<1>1. m.s \in Int /\ m.s < TIO_BASE_ADDRESS
  <2>1. m.s \in Int /\ Size(reg) \in {1, 2}
    BY FieldsOfMachine, WordRange DEF Size
  <2> QED BY <2>1 DEF TIO_BASE_ADDRESS
<1>2. AfterRd8(m, m.s) = m
  BY <1>1, InRam
<1>3. Aside \subseteq DOMAIN m /\ "s" \notin Aside
  BY DEF IsMachine, Aside
<1>4. PICK value : Pull(m, "s", reg) = [Put(m, reg, value) EXCEPT !.s = Wrap(@ + Size(reg))]
  BY <1>2 DEF Pull, Size
<1>5. \A field \in Aside : Put(m, reg, value)[field] = m[field]
  BY PutAside
<1>6. DOMAIN Put(m, reg, value) = DOMAIN m
  BY DEF Put
<1> HIDE DEF Aside
<1> QED BY <1>3, <1>4, <1>5, <1>6

(* The stack after an interrupt that saves everything: the frame, and      *)
(* nothing else.                                                           *)
LEMMA StateStacked ==
  ASSUME NEW m, IsMachine(m), FrameSize <= m.s, m.s <= TIO_BASE_ADDRESS
  PROVE  LET n == _pushstate(m)
         IN  /\ IsMachine(n) /\ n.s = m.s - FrameSize
             /\ Stacked(n, n.s) = [Registers(m) EXCEPT !.cc = @ \cup {cc_e}]
             /\ \A field \in Field \ {"s", "cc"} : n[field] = m[field]
             /\ n.cc = m.cc \cup {cc_e}
             /\ \A field \in Aside : n[field] = m[field]
             /\ \A addr \in Int : addr < n.s \/ m.s <= addr => Cell(n, addr) = Cell(m, addr)
<1> DEFINE m0 == [m EXCEPT !.cc = @ \cup {cc_e}]
           m1 == Push(m0, "s", "pc")  m2 == Push(m1, "s", "u")  m3 == Push(m2, "s", "y")
           m4 == Push(m3, "s", "x")   m5 == Push(m4, "s", "dp") m6 == Push(m5, "s", "b")
           m7 == Push(m6, "s", "a")   m8 == Push(m7, "s", "cc")
           s  == m.s
           Fits(k, at) == IsMachine(k) /\ k.s = at
           Unchanged(k) == /\ \A field \in Field \ {"s"} : k[field] = m0[field]
                      /\ \A field \in Aside : k[field] = m[field]
           Same(n, k, low, high) ==
             \A addr \in Int : addr < low \/ high <= addr => Cell(n, addr) = Cell(k, addr)
<1>1. _pushstate(m) = m8
  <2>1. \A reg \in Weighed : rn(reg) \in rn_entire
    BY DEF rn_entire
  <2>2. \A k, reg : reg \in Weighed => PushOne(k, rn_entire, "s", reg, "u") = Push(k, "s", Named(reg, "u"))
    BY <2>1 DEF PushOne
  <2>3. {"cc", "a", "b", "dp", "x", "y", "us", "pc"} = Weighed
        /\ Named("us", "u") = "u" /\ \A reg : reg # "us" => Named(reg, "u") = reg
    BY DEF Weighed, Named
  <2> QED BY <2>2, <2>3 DEF _pushstate, _pushregs
<1>2. s \in Int /\ 12 <= s /\ s <= TIO_BASE_ADDRESS /\ TIO_BASE_ADDRESS \in Int
  BY FieldsOfMachine, WordRange DEF FrameSize, TIO_BASE_ADDRESS
<1>3. Fits(m0, s) /\ Unchanged(m0) /\ (\A addr : Cell(m0, addr) = Cell(m, addr))
      /\ m0.cc = m.cc \cup {cc_e} /\ \A field \in Field \ {"s", "cc"} : m0[field] = m[field]
  <2>1. m.cc \cup {cc_e} \in SUBSET CcFlag
    BY FieldsOfMachine, FlagNames
  <2>2. IsMachine(m0)
    BY <2>1, PutSets
  <2>3. m0.mem = m.mem /\ m0.s = m.s /\ m0.cc = m.cc \cup {cc_e}
    BY DEF IsMachine
  <2>4. Aside \subseteq DOMAIN m /\ "cc" \notin Aside /\ Field \subseteq DOMAIN m
    BY DEF IsMachine, Aside, Field, Register8, Register16
  <2>5. \A field \in DOMAIN m \ {"cc"} : m0[field] = m[field]
    OBVIOUS
  <2>6. \A addr : Cell(m0, addr) = Cell(m, addr)
    BY <2>3 DEF Cell
  <2> HIDE DEF m0, Aside, Field
  <2> QED BY <2>2, <2>3, <2>4, <2>5, <2>6
<1>4. Field \ {"s"} = {"cc", "a", "b", "dp", "x", "y", "u", "pc"}
      /\ Size("cc") = 1 /\ Size("a") = 1 /\ Size("b") = 1 /\ Size("dp") = 1
      /\ Size("x") = 2 /\ Size("y") = 2 /\ Size("u") = 2 /\ Size("pc") = 2
      /\ Field \subseteq Wide \cup Narrow
  BY DEF Field, Register8, Register16, Size, IsWide, Wide, Narrow
<1>5. ASSUME NEW k, NEW at \in Int, Fits(k, at), Unchanged(k), NEW reg \in Field \ {"s"},
             Size(reg) <= at, at <= TIO_BASE_ADDRESS
      PROVE  LET n == Push(k, "s", reg)
             IN  /\ Fits(n, at - Size(reg)) /\ Unchanged(n)
                 /\ Same(n, k, at - Size(reg), at)
                 /\ Holds(n, at - Size(reg), reg, Get(m0, reg))
  <2> DEFINE n == Push(k, "s", reg)
  <2>1. IsMachine(n)
    BY <1>4, <1>5, PushTypes
  <2>2. /\ n.s = k.s - Size(reg)
        /\ \A field \in Field \ {"s"} : n[field] = k[field]
        /\ \A addr \in Int : addr < k.s - Size(reg) \/ k.s <= addr => Cell(n, addr) = Cell(k, addr)
        /\ Holds(n, k.s - Size(reg), reg, Get(k, reg))
    BY <1>5, PushReads
  <2>3. \A field \in Aside : n[field] = k[field]
    BY <1>5, PushAside
  <2>4. Get(k, reg) = Get(m0, reg)
    <3>1. k[reg] = m0[reg] /\ reg # "d" /\ (reg = "cc" => k.cc = m0.cc)
      BY <1>4, <1>5
    <3> HIDE DEF m0
    <3> QED BY <3>1 DEF Get
  <2> HIDE DEF n, m0
  <2> QED BY <1>5, <2>1, <2>2, <2>3, <2>4 DEF n
<1> HIDE DEF m0, Fits, Unchanged, Same, s
<1>6. Fits(m1, s - 2) /\ Unchanged(m1) /\ Same(m1, m0, s - 2, s) /\ Holds(m1, s - 2, "pc", Get(m0, "pc"))
  BY <1>2, <1>3, <1>4, <1>5
<1> HIDE DEF m1
<1>7. Fits(m2, s - 4) /\ Unchanged(m2) /\ Same(m2, m1, s - 4, s - 2) /\ Holds(m2, s - 4, "u", Get(m0, "u"))
  <2>1. s - 2 - Size("u") = s - 4 /\ s - 2 \in Int /\ Size("u") <= s - 2 /\ s - 2 <= TIO_BASE_ADDRESS
    BY <1>2, <1>4
  <2> QED BY <1>4, <1>5, <1>6, <2>1
<1> HIDE DEF m2
<1>8. Fits(m3, s - 6) /\ Unchanged(m3) /\ Same(m3, m2, s - 6, s - 4) /\ Holds(m3, s - 6, "y", Get(m0, "y"))
  <2>1. s - 4 - Size("y") = s - 6 /\ s - 4 \in Int /\ Size("y") <= s - 4 /\ s - 4 <= TIO_BASE_ADDRESS
    BY <1>2, <1>4
  <2> QED BY <1>4, <1>5, <1>7, <2>1
<1> HIDE DEF m3
<1>9. Fits(m4, s - 8) /\ Unchanged(m4) /\ Same(m4, m3, s - 8, s - 6) /\ Holds(m4, s - 8, "x", Get(m0, "x"))
  <2>1. s - 6 - Size("x") = s - 8 /\ s - 6 \in Int /\ Size("x") <= s - 6 /\ s - 6 <= TIO_BASE_ADDRESS
    BY <1>2, <1>4
  <2> QED BY <1>4, <1>5, <1>8, <2>1
<1> HIDE DEF m4
<1>10. Fits(m5, s - 9) /\ Unchanged(m5) /\ Same(m5, m4, s - 9, s - 8) /\ Holds(m5, s - 9, "dp", Get(m0, "dp"))
  <2>1. s - 8 - Size("dp") = s - 9 /\ s - 8 \in Int /\ Size("dp") <= s - 8 /\ s - 8 <= TIO_BASE_ADDRESS
    BY <1>2, <1>4
  <2> QED BY <1>4, <1>5, <1>9, <2>1
<1> HIDE DEF m5
<1>11. Fits(m6, s - 10) /\ Unchanged(m6) /\ Same(m6, m5, s - 10, s - 9) /\ Holds(m6, s - 10, "b", Get(m0, "b"))
  <2>1. s - 9 - Size("b") = s - 10 /\ s - 9 \in Int /\ Size("b") <= s - 9 /\ s - 9 <= TIO_BASE_ADDRESS
    BY <1>2, <1>4
  <2> QED BY <1>4, <1>5, <1>10, <2>1
<1> HIDE DEF m6
<1>12. Fits(m7, s - 11) /\ Unchanged(m7) /\ Same(m7, m6, s - 11, s - 10) /\ Holds(m7, s - 11, "a", Get(m0, "a"))
  <2>1. s - 10 - Size("a") = s - 11 /\ s - 10 \in Int /\ Size("a") <= s - 10 /\ s - 10 <= TIO_BASE_ADDRESS
    BY <1>2, <1>4
  <2> QED BY <1>4, <1>5, <1>11, <2>1
<1> HIDE DEF m7
<1>13. Fits(m8, s - 12) /\ Unchanged(m8) /\ Same(m8, m7, s - 12, s - 11) /\ Holds(m8, s - 12, "cc", Get(m0, "cc"))
  <2>1. s - 11 - Size("cc") = s - 12 /\ s - 11 \in Int /\ Size("cc") <= s - 11 /\ s - 11 <= TIO_BASE_ADDRESS
    BY <1>2, <1>4
  <2> QED BY <1>4, <1>5, <1>12, <2>1
<1> HIDE DEF m8
(* What has been pushed stays in the frame. *)
<1>14. /\ \A addr \in Int : s - 11 <= addr => Cell(m8, addr) = Cell(m7, addr)
       /\ \A addr \in Int : s - 10 <= addr => Cell(m8, addr) = Cell(m6, addr)
       /\ \A addr \in Int : s - 9 <= addr => Cell(m8, addr) = Cell(m5, addr)
       /\ \A addr \in Int : s - 8 <= addr => Cell(m8, addr) = Cell(m4, addr)
       /\ \A addr \in Int : s - 6 <= addr => Cell(m8, addr) = Cell(m3, addr)
       /\ \A addr \in Int : s - 4 <= addr => Cell(m8, addr) = Cell(m2, addr)
       /\ \A addr \in Int : s - 2 <= addr => Cell(m8, addr) = Cell(m1, addr)
  BY <1>2, <1>7, <1>8, <1>9, <1>10, <1>11, <1>12, <1>13 DEF Same
<1>15. \A addr \in Int : addr < s - 12 \/ s <= addr => Cell(m8, addr) = Cell(m0, addr)
  BY <1>2, <1>6, <1>7, <1>8, <1>9, <1>10, <1>11, <1>12, <1>13 DEF Same
<1>16. /\ mem_rd16(m8, s - 2) = Get(m0, "pc") /\ mem_rd16(m8, s - 4) = Get(m0, "u")
       /\ mem_rd16(m8, s - 6) = Get(m0, "y") /\ mem_rd16(m8, s - 8) = Get(m0, "x")
       /\ Cell(m8, s - 9) = Get(m0, "dp") /\ Cell(m8, s - 10) = Get(m0, "b")
       /\ Cell(m8, s - 11) = Get(m0, "a") /\ Cell(m8, s - 12) = Get(m0, "cc")
  <2>1. /\ mem_rd16(m1, s - 2) = Get(m0, "pc") /\ mem_rd16(m2, s - 4) = Get(m0, "u")
        /\ mem_rd16(m3, s - 6) = Get(m0, "y") /\ mem_rd16(m4, s - 8) = Get(m0, "x")
        /\ Cell(m5, s - 9) = Get(m0, "dp") /\ Cell(m6, s - 10) = Get(m0, "b")
        /\ Cell(m7, s - 11) = Get(m0, "a") /\ Cell(m8, s - 12) = Get(m0, "cc")
    BY <1>6, <1>7, <1>8, <1>9, <1>10, <1>11, <1>12, <1>13 DEF Holds, IsWide
  <2>2. /\ s - 2 \in Int /\ (s - 2) + 1 \in Int /\ s - 2 <= (s - 2) + 1
        /\ s - 4 \in Int /\ (s - 4) + 1 \in Int /\ s - 4 <= (s - 4) + 1
        /\ s - 6 \in Int /\ (s - 6) + 1 \in Int /\ s - 6 <= (s - 6) + 1
        /\ s - 8 \in Int /\ (s - 8) + 1 \in Int /\ s - 8 <= (s - 8) + 1
        /\ s - 9 \in Int /\ s - 10 \in Int /\ s - 11 \in Int
    BY <1>2
  <2>3. /\ mem_rd16(m8, s - 2) = mem_rd16(m1, s - 2) /\ mem_rd16(m8, s - 4) = mem_rd16(m2, s - 4)
        /\ mem_rd16(m8, s - 6) = mem_rd16(m3, s - 6) /\ mem_rd16(m8, s - 8) = mem_rd16(m4, s - 8)
    BY <1>14, <2>2 DEF mem_rd16
  <2>4. /\ Cell(m8, s - 9) = Cell(m5, s - 9) /\ Cell(m8, s - 10) = Cell(m6, s - 10)
        /\ Cell(m8, s - 11) = Cell(m7, s - 11)
    BY <1>14, <2>2
  <2> QED BY <2>1, <2>3, <2>4
<1>17. /\ Get(m0, "pc") = m.pc /\ Get(m0, "u") = m.u /\ Get(m0, "y") = m.y /\ Get(m0, "x") = m.x
       /\ Get(m0, "dp") = m.dp /\ Get(m0, "b") = m.b /\ Get(m0, "a") = m.a
       /\ Bits(Get(m0, "cc")) = m.cc \cup {cc_e}
  <2>1. m0.cc \in SUBSET Weight
    BY <1>3, FieldsOfMachine, FlagsAreWeights DEF Fits
  <2>2. Bits(ByteOf(m0.cc)) = m0.cc
    BY <2>1, ByteOfBits
  <2>3. {"a", "b", "dp", "x", "y", "u", "pc"} = Field \ {"s", "cc"}
    BY DEF Field, Register8, Register16
  <2>4. m0.pc = m.pc /\ m0.u = m.u /\ m0.y = m.y /\ m0.x = m.x /\ m0.dp = m.dp /\ m0.b = m.b
        /\ m0.a = m.a
    BY <1>3, <2>3
  <2> QED BY <1>3, <2>2, <2>4 DEF Get
<1>18. Stacked(m8, s - 12) = [cc |-> m.cc \cup {cc_e}, a |-> m.a, b |-> m.b, dp |-> m.dp,
                              x |-> m.x, y |-> m.y, u |-> m.u, pc |-> m.pc]
  <2>1. /\ s - 12 + 1 = s - 11 /\ s - 12 + 2 = s - 10 /\ s - 12 + 3 = s - 9
        /\ s - 12 + 4 = s - 8 /\ s - 12 + 6 = s - 6 /\ s - 12 + 8 = s - 4
        /\ s - 12 + 10 = s - 2
    BY <1>2
  <2> QED BY <1>16, <1>17, <2>1 DEF Stacked
<1>19. Stacked(m8, s - 12) = [Registers(m) EXCEPT !.cc = @ \cup {cc_e}]
  BY <1>18 DEF Registers
<1>20. m8.cc = m.cc \cup {cc_e} /\ \A field \in Field \ {"s", "cc"} : m8[field] = m[field]
  <2>1. "cc" \in Field \ {"s"}
    BY <1>4
  <2>2. m8["cc"] = m0["cc"]
    BY <1>13, <2>1 DEF Unchanged
  <2> QED BY <1>3, <1>13, <2>2 DEF Unchanged
<1>21. IsMachine(m8) /\ m8.s = s - 12 /\ \A field \in Aside : m8[field] = m[field]
  BY <1>13 DEF Fits, Unchanged
<1> QED BY <1>1, <1>3, <1>15, <1>19, <1>20, <1>21 DEF s, FrameSize

(* The return from it: the registers of the frame at the stack pointer.    *)
LEMMA StateUnstacked ==
  ASSUME NEW h, IsMachine(h), cc_e \in h.cc, h.s + FrameSize <= TIO_BASE_ADDRESS
  PROVE  LET n == _pullstate(h)
         IN  /\ IsMachine(n) /\ n.s = h.s + FrameSize /\ n.mem = h.mem
             /\ Registers(n) = Stacked(h, h.s)
             /\ \A field \in Aside : n[field] = h[field]
<1> DEFINE h1 == Pull(h, "s", "cc")  h2 == Pull(h1, "s", "a")  h3 == Pull(h2, "s", "b")
           h4 == Pull(h3, "s", "dp") h5 == Pull(h4, "s", "x")  h6 == Pull(h5, "s", "y")
           h7 == Pull(h6, "s", "u")  h8 == Pull(h7, "s", "pc")
           s  == h.s
           k  == [a |-> Cell(h, s + 1), b |-> Cell(h, s + 2), dp |-> Cell(h, s + 3),
                  x |-> mem_rd16(h, s + 4), y |-> mem_rd16(h, s + 6), u |-> mem_rd16(h, s + 8),
                  pc |-> mem_rd16(h, s + 10), cc |-> Bits(Cell(h, s)), s |-> h.s,
                  irq |-> h.irq, trap |-> h.trap, ok |-> h.ok, crashed |-> h.crashed,
                  mem |-> h.mem, rbr |-> h.rbr, thr |-> h.thr, lcr |-> h.lcr, lsr |-> h.lsr,
                  ier |-> h.ier, iir |-> h.iir]
           Fits(n, at) == /\ IsMachine(n) /\ n.s = at /\ n.mem = h.mem
                          /\ \A field \in Aside : n[field] = h[field]
           Has(n, regs) == \A reg \in regs : n[reg] = k[reg]
<1>1. _pullstate(h) = h8
  <2>1. \A reg \in Weighed : rn(reg) \in rn_entire
    BY DEF rn_entire
  <2>2. \A n, reg : reg \in Weighed => PullOne(n, rn_entire, "s", reg, "u") = Pull(n, "s", Named(reg, "u"))
    BY <2>1 DEF PullOne
  <2>3. {"cc", "a", "b", "dp", "x", "y", "us", "pc"} = Weighed
        /\ Named("us", "u") = "u" /\ \A reg : reg # "us" => Named(reg, "u") = reg
    BY DEF Weighed, Named
  <2> QED BY <2>2, <2>3 DEF _pullstate, _pullregs
<1>2. s \in Int /\ 0 <= s /\ s + 12 <= TIO_BASE_ADDRESS /\ TIO_BASE_ADDRESS \in Int
  BY FieldsOfMachine, WordRange DEF FrameSize, TIO_BASE_ADDRESS
<1>3. /\ IsMachine(k)
      /\ k.cc = Bits(Cell(h, s)) /\ k.a = Cell(h, s + 1) /\ k.b = Cell(h, s + 2)
      /\ k.dp = Cell(h, s + 3) /\ k.x = mem_rd16(h, s + 4)
      /\ k.y = mem_rd16(h, s + 6) /\ k.u = mem_rd16(h, s + 8) /\ k.pc = mem_rd16(h, s + 10)
  <2>1. /\ Cell(h, s + 1) \in Byte /\ Cell(h, s + 2) \in Byte /\ Cell(h, s + 3) \in Byte
        /\ mem_rd16(h, s + 4) \in Word /\ mem_rd16(h, s + 6) \in Word
        /\ mem_rd16(h, s + 8) \in Word /\ mem_rd16(h, s + 10) \in Word
        /\ Bits(Cell(h, s)) \in SUBSET CcFlag
    BY CellTypes, WideReadTypes, BitsAreWeights, FlagsAreWeights
  <2> HIDE DEF s
  <2>2. /\ k.a = Cell(h, s + 1) /\ k.b = Cell(h, s + 2) /\ k.dp = Cell(h, s + 3)
        /\ k.x = mem_rd16(h, s + 4) /\ k.y = mem_rd16(h, s + 6) /\ k.u = mem_rd16(h, s + 8)
        /\ k.pc = mem_rd16(h, s + 10) /\ k.cc = Bits(Cell(h, s))
    OBVIOUS
  <2>3. IsMachine(k)
    BY <2>1, FieldsOfMachine DEF IsMachine
  <2> QED BY <2>2, <2>3
<1>4. Field \ {"s"} = {"cc", "a", "b", "dp", "x", "y", "u", "pc"}
      /\ Size("cc") = 1 /\ Size("a") = 1 /\ Size("b") = 1 /\ Size("dp") = 1
      /\ Size("x") = 2 /\ Size("y") = 2 /\ Size("u") = 2 /\ Size("pc") = 2
      /\ Field \subseteq Wide \cup Narrow
  BY DEF Field, Register8, Register16, Size, IsWide, Wide, Narrow
<1>5. /\ Holds(h, s, "cc", Get(k, "cc")) /\ Holds(h, s + 1, "a", Get(k, "a"))
      /\ Holds(h, s + 2, "b", Get(k, "b")) /\ Holds(h, s + 3, "dp", Get(k, "dp"))
      /\ Holds(h, s + 4, "x", Get(k, "x")) /\ Holds(h, s + 6, "y", Get(k, "y"))
      /\ Holds(h, s + 8, "u", Get(k, "u")) /\ Holds(h, s + 10, "pc", Get(k, "pc"))
  <2>1. ByteOf(Bits(Cell(h, s))) = Cell(h, s)
    BY CellTypes, BitsOfByte
  <2> HIDE DEF k
  <2> QED BY <1>3, <2>1 DEF Holds, Get, IsWide
<1>6. Fits(h, s)
  OBVIOUS
<1> HIDE DEF k, s
<1>7. ASSUME NEW n, NEW at \in Int, Fits(n, at), NEW reg \in Field \ {"s"}, NEW regs,
             regs \subseteq Field \ {"s"}, Has(n, regs),
             Holds(h, at, reg, Get(k, reg)), at + Size(reg) <= TIO_BASE_ADDRESS
      PROVE  LET p == Pull(n, "s", reg)
             IN  Fits(p, at + Size(reg)) /\ Has(p, regs \cup {reg})
  <2> DEFINE p == Pull(n, "s", reg)
  <2>1. IsMachine(p)
    BY <1>4, <1>7, PullTypes
  <2>2. \A addr : Cell(n, addr) = Cell(h, addr)
    BY <1>7 DEF Cell
  <2>3. Holds(n, n.s, reg, Get(k, reg))
    BY <1>7, <2>2 DEF Holds, mem_rd16
  <2>4. /\ p.s = n.s + Size(reg) /\ p[reg] = k[reg] /\ p.mem = n.mem
        /\ \A field \in Field \ {"s", reg} : p[field] = n[field]
    BY <1>3, <1>7, <2>3, PullReads
  <2>5. \A field \in Aside : p[field] = n[field]
    BY <1>7, PullAside
  <2> HIDE DEF p
  <2> QED BY <1>7, <2>1, <2>4, <2>5 DEF p
<1>8. Has(h, {})
  OBVIOUS
<1> HIDE DEF Fits, Has
<1> DEFINE r1 == {} \cup {"cc"}   r2 == r1 \cup {"a"}   r3 == r2 \cup {"b"}
           r4 == r3 \cup {"dp"}   r5 == r4 \cup {"x"}   r6 == r5 \cup {"y"}
           r7 == r6 \cup {"u"}    r8 == r7 \cup {"pc"}
<1>9. /\ r1 \subseteq Field \ {"s"} /\ r2 \subseteq Field \ {"s"} /\ r3 \subseteq Field \ {"s"}
      /\ r4 \subseteq Field \ {"s"} /\ r5 \subseteq Field \ {"s"} /\ r6 \subseteq Field \ {"s"}
      /\ r7 \subseteq Field \ {"s"} /\ r8 = Field \ {"s"}
  BY <1>4
<1> HIDE DEF r1, r2, r3, r4, r5, r6, r7, r8
<1>10. Fits(h1, s + 1) /\ Has(h1, r1)
  BY <1>2, <1>4, <1>5, <1>6, <1>7, <1>8 DEF r1
<1> HIDE DEF h1
<1>11. Fits(h2, s + 2) /\ Has(h2, r2)
  <2>1. s + 1 + Size("a") = s + 2 /\ s + 1 \in Int /\ s + 1 + Size("a") <= TIO_BASE_ADDRESS
    BY <1>2, <1>4
  <2> QED BY <1>4, <1>5, <1>7, <1>9, <1>10, <2>1 DEF r2
<1> HIDE DEF h2
<1>12. Fits(h3, s + 3) /\ Has(h3, r3)
  <2>1. s + 2 + Size("b") = s + 3 /\ s + 2 \in Int /\ s + 2 + Size("b") <= TIO_BASE_ADDRESS
    BY <1>2, <1>4
  <2> QED BY <1>4, <1>5, <1>7, <1>9, <1>11, <2>1 DEF r3
<1> HIDE DEF h3
<1>13. Fits(h4, s + 4) /\ Has(h4, r4)
  <2>1. s + 3 + Size("dp") = s + 4 /\ s + 3 \in Int /\ s + 3 + Size("dp") <= TIO_BASE_ADDRESS
    BY <1>2, <1>4
  <2> QED BY <1>4, <1>5, <1>7, <1>9, <1>12, <2>1 DEF r4
<1> HIDE DEF h4
<1>14. Fits(h5, s + 6) /\ Has(h5, r5)
  <2>1. s + 4 + Size("x") = s + 6 /\ s + 4 \in Int /\ s + 4 + Size("x") <= TIO_BASE_ADDRESS
    BY <1>2, <1>4
  <2> QED BY <1>4, <1>5, <1>7, <1>9, <1>13, <2>1 DEF r5
<1> HIDE DEF h5
<1>15. Fits(h6, s + 8) /\ Has(h6, r6)
  <2>1. s + 6 + Size("y") = s + 8 /\ s + 6 \in Int /\ s + 6 + Size("y") <= TIO_BASE_ADDRESS
    BY <1>2, <1>4
  <2> QED BY <1>4, <1>5, <1>7, <1>9, <1>14, <2>1 DEF r6
<1> HIDE DEF h6
<1>16. Fits(h7, s + 10) /\ Has(h7, r7)
  <2>1. s + 8 + Size("u") = s + 10 /\ s + 8 \in Int /\ s + 8 + Size("u") <= TIO_BASE_ADDRESS
    BY <1>2, <1>4
  <2> QED BY <1>4, <1>5, <1>7, <1>9, <1>15, <2>1 DEF r7
<1> HIDE DEF h7
<1>17. Fits(h8, s + 12) /\ Has(h8, r8)
  <2>1. s + 10 + Size("pc") = s + 12 /\ s + 10 \in Int /\ s + 10 + Size("pc") <= TIO_BASE_ADDRESS
    BY <1>2, <1>4
  <2> QED BY <1>4, <1>5, <1>7, <1>9, <1>16, <2>1 DEF r8
<1> HIDE DEF h8
<1>18. Registers(h8) = Stacked(h, s)
  <2>1. /\ h8.cc = k.cc /\ h8.a = k.a /\ h8.b = k.b /\ h8.dp = k.dp /\ h8.x = k.x /\ h8.y = k.y
        /\ h8.u = k.u /\ h8.pc = k.pc
    BY <1>4, <1>9, <1>17 DEF Has
  <2> QED BY <1>3, <2>1 DEF Registers, Stacked
<1> QED BY <1>1, <1>17, <1>18 DEF Fits, s, FrameSize

(* RTI (3b) out of a handler that an IRQ has called. *)
LEMMA ReturnFromInterrupt ==
  ASSUME NEW h, IsMachine(h), InCode(h, 1), Cell(h, h.pc) = 59, cc_e \in h.cc,
         h.s + FrameSize <= TIO_BASE_ADDRESS
  PROVE  LET n == cpu_execop(h)
         IN  /\ IsMachine(n) /\ n.s = h.s + FrameSize /\ n.mem = h.mem
             /\ Registers(n) = Stacked(h, h.s)
             /\ \A field \in Aside : n[field] = h[field]
<1> DEFINE k == [h EXCEPT !.pc = h.pc + 1]
<1>1. h.pc \in Int /\ h.pc < TIO_BASE_ADDRESS /\ Wrap(h.pc + 1) = h.pc + 1
  BY NextPc DEF InCode
<1>2. cpu_execop(h) = _pullstate(k)
  BY <1>1, ReturnInstruction
<1>3. IsMachine(k)
  <2>1. h.pc + 1 \in Word
    BY <1>1, WordRange DEF InCode, TIO_BASE_ADDRESS
  <2> QED BY <2>1, Put16
<1>4. k.cc = h.cc /\ k.s = h.s /\ k.mem = h.mem /\ \A field \in Aside : k[field] = h[field]
  <2>1. Aside \subseteq DOMAIN h /\ "pc" \notin Aside
    BY DEF IsMachine, Aside
  <2>2. k.cc = h.cc /\ k.s = h.s /\ k.mem = h.mem
    BY DEF IsMachine
  <2> HIDE DEF Aside
  <2> QED BY <2>1, <2>2
<1>5. Stacked(k, h.s) = Stacked(h, h.s)
  <2>1. \A addr : Cell(k, addr) = Cell(h, addr)
    BY <1>4 DEF Cell
  <2> HIDE DEF k
  <2> QED BY <2>1 DEF Stacked, mem_rd16
<1> HIDE DEF k
<1> DEFINE n == _pullstate(k)
<1>6. /\ IsMachine(n) /\ n.s = k.s + FrameSize /\ n.mem = k.mem
      /\ Registers(n) = Stacked(k, k.s)
      /\ \A field \in Aside : n[field] = k[field]
  BY <1>3, <1>4, StateUnstacked
<1> HIDE DEF n
<1>7. n.s = h.s + FrameSize /\ Registers(n) = Stacked(h, h.s)
      /\ \A field \in Aside : n[field] = h[field]
  BY <1>4, <1>5, <1>6
<1> QED BY <1>2, <1>4, <1>6, <1>7 DEF n

-----------------------------------------------------------------------------
(***************************************************************************)
(* What echoirq has beyond the other two programs.                         *)
(***************************************************************************)

(* LDD of a constant (cc). *)
LEMMA LoadD ==
  ASSUME NEW m, IsMachine(m), InCode(m, 3), Cell(m, m.pc) = 204
  PROVE  LET v == Operand16(m)
         IN  cpu_execop(m) = Done(With(m, "b", v % 256), m.pc + 3, _flags_nz_v16(m.cc, v),
                                  "a", v \div 256)
<1> DEFINE n == [m EXCEPT !.pc = m.pc + 1]
           l == [m EXCEPT !.pc = m.pc + 3]
           v == Operand16(m)
<1>1. InCode(m, 1) /\ 204 # op_page2 /\ 204 # op_page3 /\ 204 \div 16 = 12 /\ 204 % 16 = 12
  BY DEF InCode, op_page2, op_page3, TIO_BASE_ADDRESS
<1>2. cpu_execop(m) = ExecPage1(_eafromopc(n, 204).m, 204, _eafromopc(n, 204).val)
  BY <1>1, Decoded
<1>3. n.pc = m.pc + 1 /\ [n EXCEPT !.pc = m.pc + 3] = l /\ l.cc = m.cc
  BY DEF IsMachine
<1>4. Wrap((m.pc + 1) + 2) = m.pc + 3
  BY NextPc DEF InCode
<1>5. mem_rd16(l, m.pc + 1) = v
  BY PcAside DEF Operand16
<1> HIDE DEF n, l, v
<1>6. _eafromopc(n, 204) = [val |-> m.pc + 1, m |-> l]
  <2>1. _eafromopc(n, 204) = _eaimmediate(n, 2)
    BY <1>1 DEF _eafromopc
  <2> QED BY <1>3, <1>4, <2>1 DEF _eaimmediate
<1>7. ExecPage1(l, 204, m.pc + 1) = ExecLoad16(l, "d", m.pc + 1)
  <2>1. /\ Nibble(204) = 12 /\ Row(204) = 204 /\ 204 >= 128 /\ ~IsStore16(1, 204)
        /\ ~IsCmp16(1, 204) /\ IsLoad16(1, 204) /\ Load16(1, Row(204)) = "d" /\ 12 \notin Operations8
    BY DEF Nibble, Row, Mode, IsLoad16, IsStore16, IsCmp16, Load16, Store16, Cmp16,
           Operations8
  <2>2. /\ 204 \div 16 \notin {0, 2, 4, 5, 6, 7} /\ 204 \notin {13, 14, 110, 126}
        /\ 204 \notin {18, 25, 29, 58, 61} /\ 204 # 22 /\ 204 \notin {23, 141, 157, 173, 189}
        /\ 204 \notin {26, 28} /\ 204 \notin {30, 31} /\ 204 \notin 48..51
        /\ 204 \notin 52..55 /\ 204 \notin {57, 59, 63}
    OBVIOUS
  <2> QED BY <2>1, <2>2 DEF ExecPage1
<1>8. cpu_execop(m) = [[l EXCEPT !.a = v \div 256, !.b = v % 256]
                         EXCEPT !.cc = _flags_nz_v16(m.cc, v)]
  <2>1. Put(l, "d", v) = [l EXCEPT !.a = v \div 256, !.b = v % 256]
    BY DEF Put
  <2>2. cpu_execop(m) = ExecLoad16(l, "d", m.pc + 1)
    BY <1>2, <1>6, <1>7
  <2>3. ExecLoad16(l, "d", m.pc + 1) = [Put(l, "d", v) EXCEPT !.cc = _flags_nz_v16(m.cc, v)]
    BY <1>3, <1>5 DEF ExecLoad16, WithCc
  <2> QED BY <2>1, <2>2, <2>3
<1>9. ASSUME NEW high, NEW low, NEW codes
      PROVE  [[l EXCEPT !.a = high, !.b = low] EXCEPT !.cc = codes]
               = Done(With(m, "b", low), m.pc + 3, codes, "a", high)
  BY DEF l, Done, With, IsMachine
<1> QED BY <1>8, <1>9 DEF v

(* STD to RAM (fd). *)
LEMMA StoreD ==
  ASSUME NEW m, IsMachine(m), InCode(m, 3), Cell(m, m.pc) = 253
  PROVE  LET ea == Operand16(m)
         IN  cpu_execop(m) = Done(m, m.pc + 3, _flags_nz_v16(m.cc, Get(m, "d")), "mem",
                                  Written(Written(m.mem, ea, m.a), ea + 1, m.b))
<1> DEFINE l == [m EXCEPT !.pc = m.pc + 3]
           ea == Operand16(m)
           v == Get(m, "d")
<1>1. 253 # op_page2 /\ 253 # op_page3 /\ 253 \div 16 = 15
  BY DEF op_page2, op_page3
<1>2. cpu_execop(m) = ExecPage1(l, 253, ea)
  BY <1>1, DecodedExtended
<1>3. l.cc = m.cc /\ Get(l, "d") = v /\ l.mem = m.mem
  BY DEF IsMachine, Get
<1>4. v \div 256 = m.a /\ v % 256 = m.b
  <2>1. m.a \in Int /\ m.b \in Int /\ 0 <= m.a /\ 0 <= m.b /\ m.b <= 255
    BY FieldsOfMachine, ByteRange
  <2>2. v = 256 * m.a + m.b
    BY DEF Get
  <2> HIDE DEF v
  <2> QED BY <2>1, <2>2
<1> HIDE DEF l, ea, v
<1>5. ExecPage1(l, 253, ea) = ExecStore16(l, "d", ea)
  <2>1. /\ Nibble(253) = 13 /\ Row(253) = 205 /\ 253 >= 128 /\ ~IsLoad16(1, 253)
        /\ ~IsCmp16(1, 253)
        /\ IsStore16(1, 253) /\ Store16(1, Row(253)) = "d" /\ 13 \notin Operations8
    BY DEF Nibble, Row, Mode, IsLoad16, IsStore16, IsCmp16, Load16, Store16, Cmp16,
           Operations8, IsImmediate
  <2>2. /\ 253 \div 16 \notin {0, 2, 4, 5, 6, 7} /\ 253 \notin {13, 14, 110, 126}
        /\ 253 \notin {18, 25, 29, 58, 61} /\ 253 # 22 /\ 253 \notin {23, 141, 157, 173, 189}
        /\ 253 \notin {26, 28} /\ 253 \notin {30, 31} /\ 253 \notin 48..51
        /\ 253 \notin 52..55 /\ 253 \notin {57, 59, 63}
    OBVIOUS
  <2> QED BY <2>1, <2>2 DEF ExecPage1
<1>6. cpu_execop(m) = [Store(Store(l, ea, m.a), ea + 1, m.b) EXCEPT !.cc = _flags_nz_v16(m.cc, v)]
  BY <1>2, <1>3, <1>4, <1>5 DEF ExecStore16, WithCc, mem_wr16
<1>7. Store(Store(l, ea, m.a), ea + 1, m.b)
        = [l EXCEPT !.mem = Written(Written(m.mem, ea, m.a), ea + 1, m.b)]
  <2> DEFINE low == Written(m.mem, ea, m.a)
             high == Written(low, ea + 1, m.b)
             half == [l EXCEPT !.mem = low]
  <2>1. half.mem = low /\ [half EXCEPT !.mem = high] = [l EXCEPT !.mem = high]
    <3> HIDE DEF low, high
    <3> QED BY DEF l, IsMachine
  <2>2. Store(l, ea, m.a) = half
    BY <1>3 DEF Store
  <2> HIDE DEF half
  <2>3. Store(half, ea + 1, m.b) = [half EXCEPT !.mem = high]
    BY <2>1 DEF Store
  <2> QED BY <2>1, <2>2, <2>3
<1>8. ASSUME NEW mem, NEW codes
      PROVE  [[l EXCEPT !.mem = mem] EXCEPT !.cc = codes] = Done(m, m.pc + 3, codes, "mem", mem)
  BY DEF l, Done, With, IsMachine
<1> QED BY <1>6, <1>7, <1>8 DEF ea, v

(* LDA of a constant (86). *)
LEMMA LoadImmediate ==
  ASSUME NEW m, IsMachine(m), InCode(m, 2), Cell(m, m.pc) = 134
  PROVE  LET v == Operand8(m)
         IN  cpu_execop(m) = Done(m, m.pc + 2, _flags_nz_v8(m.cc, v), "a", v)
<1> DEFINE n == [m EXCEPT !.pc = m.pc + 2]
           v == Operand8(m)
           out == Logic(m.cc, v)
<1>1. 134 \div 16 = 8 /\ 134 % 16 = 6 /\ 134 # op_page2 /\ 134 # op_page3
  BY DEF op_page2, op_page3
<1>2. cpu_execop(m) = ExecPage1(n, 134, m.pc + 1)
  BY <1>1, DecodedImmediate
<1>3. ExecPage1(n, 134, m.pc + 1) = ExecOperation8(n, 134, m.pc + 1)
  BY <1>1, AccumulatorGroup DEF Nibble, Operations8
<1>4. m.pc + 1 \in Int /\ m.pc + 1 < TIO_BASE_ADDRESS
  BY DEF InCode, TIO_BASE_ADDRESS
<1>5. mem_rd8(n, m.pc + 1) = v /\ AfterRd8(n, m.pc + 1) = n
  <2>1. \A addr : Cell(n, addr) = Cell(m, addr)
    BY PcAside
  <2> QED BY <1>4, <2>1, InRam DEF Operand8
<1>6. Accumulator(134) = "a" /\ Nibble(134) = 6 /\ n.cc = m.cc
  BY <1>1 DEF Accumulator, Nibble, IsMachine
<1>7. \A codes, a, b : Operate8(6, codes, a, b) = Logic(codes, b)
  BY DEF Operate8
<1>8. ExecOperation8(n, 134, m.pc + 1) = PutOut(n, "a", out)
  <2> HIDE DEF n, v
  <2> QED BY <1>5, <1>6, <1>7 DEF ExecOperation8
<1>9. PutOut(n, "a", out) = Done(m, m.pc + 2, _flags_nz_v8(m.cc, v), "a", v)
  <2> HIDE DEF v
  <2> QED BY DEF PutOut, Put, Logic, Done, With
<1> HIDE DEF n, v, out
<1> QED BY <1>2, <1>3, <1>8, <1>9 DEF v

(* STA to the interrupt enable register of the UART (b7). *)
LEMMA StoreIer ==
  ASSUME NEW m, IsMachine(m), InCode(m, 3), Cell(m, m.pc) = 183,
         Operand16(m) = TIO_ADDR_IER
  PROVE  cpu_execop(m) = Done(m, m.pc + 3, _flags_nz_v8(m.cc, m.a), "ier", Bits(m.a))
<1> DEFINE n == [m EXCEPT !.pc = m.pc + 3]
           bits == Bits(m.a)
<1>1. 183 \div 16 = 11 /\ 183 # op_page2 /\ 183 # op_page3 /\ 183 % 16 = 7 /\ Mode(183) = 3
      /\ Accumulator(183) = "a"
  BY DEF op_page2, op_page3, Mode, Accumulator
<1>2. cpu_execop(m) = ExecPage1(n, 183, TIO_ADDR_IER)
  BY <1>1, DecodedExtended
<1>3. ExecPage1(n, 183, TIO_ADDR_IER) = ExecStore8(n, 183, TIO_ADDR_IER)
  BY <1>1, AccumulatorGroup DEF Nibble, IsImmediate
<1>4. n.a = m.a /\ n.cc = m.cc
  BY DEF IsMachine
<1>5. mem_wr8(n, TIO_ADDR_IER, m.a) = [n EXCEPT !.ier = bits]
  <2> HIDE DEF n
  <2> QED BY DEF mem_wr8, TIO_ADDR_RBR_THR, TIO_ADDR_LSR, TIO_ADDR_IER, TIO_ADDR_IIR,
                 TIO_ADDR_LCR, TIO_BASE_ADDRESS
<1>6. ExecStore8(n, 183, TIO_ADDR_IER) = [[n EXCEPT !.ier = bits] EXCEPT !.cc = _flags_nz_v8(m.cc, m.a)]
  <2> HIDE DEF n, bits
  <2> QED BY <1>1, <1>4, <1>5 DEF ExecStore8, WithCc
<1>7. [[n EXCEPT !.ier = bits] EXCEPT !.cc = _flags_nz_v8(m.cc, m.a)]
        = Done(m, m.pc + 3, _flags_nz_v8(m.cc, m.a), "ier", bits)
  <2> HIDE DEF bits
  <2> QED BY DEF Done, With, IsMachine
<1> HIDE DEF n, bits
<1> QED BY <1>2, <1>3, <1>6, <1>7 DEF bits

(* An IRQ that is not masked is the one that is served, when it is alone.  *)
LEMMA ServesIrq ==
  ASSUME NEW cc, cc_i \notin cc
  PROVE  /\ Deliverable({irq_irq}, cc) = {irq_irq} /\ Serviced({irq_irq}, cc) = irq_irq
         /\ IrqAfterService({irq_irq}, cc) = {}
<1>1. Deliverable({irq_irq}, cc) = {irq_irq}
  BY DEF Deliverable, irq_irq, irq_firq
<1>2. /\ Priority[1] # irq_irq /\ Priority[2] # irq_irq /\ Priority[3] # irq_irq
      /\ Priority[4] = irq_irq /\ Priority[5] # irq_irq /\ Priority[6] # irq_irq
      /\ Priority[7] # irq_irq
  BY DEF Priority, irq_rst, irq_nmi, irq_firq, irq_irq, irq_swi, irq_swi2, irq_swi3
<1>3. \A j \in 1..7 : IsFirst(j, {irq_irq}) <=> j = 4
  BY <1>2 DEF IsFirst
<1>4. (CHOOSE j \in 1..7 : IsFirst(j, {irq_irq})) = 4
  BY <1>3
<1>5. Serviced({irq_irq}, cc) = irq_irq
  BY <1>1, <1>2, <1>4 DEF Serviced
<1> QED BY <1>1, <1>5 DEF IrqAfterService, irq_irq, irq_rst

(* An IRQ with an open mask: the frame, and pc from the vector. *)
LEMMA TakesIrq ==
  ASSUME NEW m, IsMachine(m), m.irq = {irq_irq}, cc_i \notin m.cc,
         FrameSize <= m.s, m.s <= TIO_BASE_ADDRESS
  PROVE  LET n == cpu_execirq(m)
         IN  /\ IsMachine(n) /\ n.s = m.s - FrameSize /\ n.pc = mem_rd16(m, 65528)
             /\ Stacked(n, n.s) = Interrupted(m)
             /\ \A field \in Field \ {"s", "cc", "pc"} : n[field] = m[field]
             /\ n.cc = m.cc \cup {cc_e} /\ n.irq = {}
             /\ \A field \in Aside \ {"irq"} : n[field] = m[field]
             /\ \A addr \in Int : addr < n.s \/ m.s <= addr => Cell(n, addr) = Cell(m, addr)
<1> DEFINE flag == Serviced(m.irq, m.cc)
           rest == IrqAfterService(m.irq, m.cc)
           k == [m EXCEPT !.irq = rest]
           p == _pushstate(k)
           n == [p EXCEPT !.pc = mem_rd16(p, Vector(flag))]
<1>1. Deliverable(m.irq, m.cc) = {irq_irq}
  BY ServesIrq
<1>2. flag = irq_irq /\ rest = {}
  BY ServesIrq
<1>3. Vector(irq_irq) = 65528
  BY DEF Vector, irq_rst, irq_nmi, irq_swi, irq_irq, irq_firq, irq_swi2, irq_swi3
<1>4. cpu_execirq(m) = n
  <2>1. Deliverable(m.irq, m.cc) # {} /\ flag # irq_rst /\ flag # irq_firq
    BY <1>1, <1>2 DEF irq_irq, irq_rst, irq_firq
  <2> QED BY <2>1 DEF cpu_execirq
<1> HIDE DEF flag, rest
<1>5. /\ IsMachine(k) /\ k.s = m.s /\ k.cc = m.cc /\ k.irq = {} /\ k.mem = m.mem
      /\ Registers(k) = Registers(m)
      /\ \A field \in Field : k[field] = m[field]
      /\ \A field \in Aside \ {"irq"} : k[field] = m[field]
  <2>1. IsMachine(k)
    <3>1. rest \in SUBSET IrqFlag
      BY <1>2
    <3> QED BY <3>1, PutSets
  <2>2. Field \cup Aside \subseteq DOMAIN m /\ "irq" \notin Field
    BY DEF IsMachine, Aside, Field, Register8, Register16
  <2>3. k.s = m.s /\ k.cc = m.cc /\ k.irq = {} /\ k.mem = m.mem
    BY <1>2 DEF IsMachine
  <2>4. Registers(k) = Registers(m)
    BY DEF IsMachine, Registers
  <2> HIDE DEF Field, Aside
  <2> QED BY <2>1, <2>2, <2>3, <2>4
<1>6. \A addr : Cell(k, addr) = Cell(m, addr)
  BY <1>5 DEF Cell
<1> HIDE DEF k
<1>7. /\ IsMachine(p) /\ p.s = m.s - FrameSize
      /\ Stacked(p, p.s) = Interrupted(m)
      /\ \A field \in Field \ {"s", "cc"} : p[field] = k[field]
      /\ p.cc = m.cc \cup {cc_e}
      /\ \A field \in Aside : p[field] = k[field]
      /\ \A addr \in Int : addr < p.s \/ m.s <= addr => Cell(p, addr) = Cell(k, addr)
  BY <1>5, StateStacked DEF Interrupted
<1> HIDE DEF p
<1>8. mem_rd16(p, 65528) = mem_rd16(m, 65528) /\ mem_rd16(p, 65528) \in Word
  <2>1. m.s <= 65528 /\ m.s <= 65529
    BY FieldsOfMachine, WordRange DEF TIO_BASE_ADDRESS
  <2>2. 65528 + 1 = 65529 /\ 65528 \in Int /\ 65529 \in Int
    OBVIOUS
  <2>3. Cell(p, 65528) = Cell(m, 65528) /\ Cell(p, 65529) = Cell(m, 65529)
    BY <1>6, <1>7, <2>1, <2>2
  <2> QED BY <1>7, <2>2, <2>3, WideReadTypes DEF mem_rd16
<1>9. /\ IsMachine(n) /\ n.pc = mem_rd16(p, 65528) /\ n.mem = p.mem /\ n.s = p.s
      /\ n.cc = p.cc
      /\ \A field \in (Field \ {"pc"}) \cup Aside : n[field] = p[field]
  <2>1. Vector(flag) = 65528
    BY <1>2, <1>3
  <2>2. IsMachine(n)
    <3>1. IsMachine(p)
      BY <1>7
    <3>2. mem_rd16(p, Vector(flag)) \in Word
      BY <1>8, <2>1
    <3> QED BY <3>1, <3>2, Put16
  <2>3. Field \cup Aside \subseteq DOMAIN p /\ "pc" \notin Aside
    BY <1>7 DEF IsMachine, Aside, Field, Register8, Register16
  <2>4. n.pc = mem_rd16(p, 65528) /\ n.mem = p.mem /\ n.s = p.s /\ n.cc = p.cc
    BY <1>7, <2>1 DEF IsMachine
  <2> HIDE DEF Field, Aside
  <2> QED BY <2>2, <2>3, <2>4
<1> HIDE DEF n
<1>10. \A addr : Cell(n, addr) = Cell(p, addr)
  BY <1>9 DEF Cell
<1>11. Stacked(n, n.s) = Stacked(p, p.s)
  BY <1>9, <1>10 DEF Stacked, mem_rd16
<1>12. /\ \A field \in Field \ {"s", "cc", "pc"} : n[field] = m[field]
       /\ \A field \in Aside \ {"irq"} : n[field] = m[field]
       /\ n.irq = {}
  <2>1. "irq" \in Aside
    BY DEF Aside
  <2> QED BY <1>5, <1>7, <1>9, <2>1
<1>13. \A addr \in Int : addr < n.s \/ m.s <= addr => Cell(n, addr) = Cell(m, addr)
  BY <1>6, <1>7, <1>9, <1>10
<1> QED BY <1>4, <1>7, <1>8, <1>9, <1>11, <1>12, <1>13

LEMMA TakesNone ==
  ASSUME NEW m, m.irq = {} PROVE cpu_execirq(m) = m
BY DEF cpu_execirq, Deliverable

-----------------------------------------------------------------------------
(***************************************************************************)
(* What an instruction can do to the rest of the virtual machine: the      *)
(* kinds of VmLoop, here of any instruction at all.                        *)
(***************************************************************************)
Shared == {"irq", "trap", "ok", "crashed", "rbr", "thr", "lsr", "ier", "iir"}

(* From m to n nothing shared has changed but these; the mask bits have not. *)
Still(m, n, changed) == \A field \in Shared \ changed : n[field] = m[field]
Unmasked(m, n) == n.cc \cap {cc_f, cc_i} = m.cc \cap {cc_f, cc_i}

Internal(m, n)  == Still(m, n, {})
ReadsRbr(m, n)  ==
  Still(m, n, {"lsr"}) /\ n.lsr = tio_read_rbr(m.lsr) /\ Unmasked(m, n)
WritesThr(m, n) ==
  Still(m, n, {"thr", "lsr"}) /\ n.lsr = tio_write_thr(m.lsr) /\ Unmasked(m, n)
ModifiesUart(m, n) ==
  /\ Still(m, n, {"thr", "lsr"}) /\ n.lsr = tio_write_thr(tio_read_rbr(m.lsr))
  /\ Unmasked(m, n)
WritesIer(m, n) == Still(m, n, {"ier"}) /\ Unmasked(m, n)
Interrupts(m, n) ==
  /\ Still(m, n, {"irq"}) /\ Unmasked(m, n)
  /\ \E flag \in {irq_swi, irq_swi2, irq_swi3} : n.irq = m.irq \cup {flag}
Fails(m, n) ==
  Still(m, n, {"ok", "trap"}) /\ ~n.ok /\ n.trap = {tc_trap} /\ Unmasked(m, n)
HasBadPost(m, n) == Still(m, n, {"ok"}) /\ ~n.ok
Crashes(m, n) ==
  /\ Still(m, n, {"ok", "trap", "crashed"})
  /\ ~n.ok /\ n.trap = {tc_trap} /\ n.crashed /\ Unmasked(m, n)

(* The bytes of the instruction that are read one by one, and a frame on   *)
(* either side of the stack pointers, lie off the data register and IER.   *)
OffUart(m) ==
  /\ m.pc \notin (TIO_BASE_ADDRESS - 3)..TIO_BASE_ADDRESS
  /\ \A st \in {"s", "u"} :
       m[st] \notin (TIO_BASE_ADDRESS - 11)..(TIO_BASE_ADDRESS + 14)

(* The instructions there are: opcodes, post-bytes of the indexed modes    *)
(* and register numbers of EXG and TFR.                                    *)
IsIndexed(opc) == opc \div 16 \in {6, 10, 14} \/ opc \in 48..51
HasMode(post)  == post < 128 \/ post % 16 \notin {7, 10, 14}
HasRegisters(post) == "none" \notin {_register(post \div 16), _register(post % 16)}
Opcodes1 ==
  {opc \in Byte :
     \/ opc \div 16 \in {0, 6, 7} /\ opc % 16 \in {0, 3, 4, 7, 8, 10, 12, 14, 15}
     \/ opc \div 16 \in {4, 5} /\ opc % 16 \in {0, 3, 4, 6, 7, 8, 9, 10, 12, 15}
     \/ opc \in {13, 18, 22, 23, 25, 26, 28, 29, 30, 31}
     \/ opc \in 32..55
     \/ opc \in {57, 58, 59, 61, 63}
     \/ opc >= 128 /\ opc \notin {135, 143, 199, 205, 207}}
Opcodes2 ==
  {opc \in Byte :
     \/ opc \in 33..47 \/ opc = 63
     \/ opc \in {131, 147, 163, 179, 140, 156, 172, 188, 142, 158, 174, 190}
     \/ opc \in {159, 175, 191, 206, 222, 238, 254, 223, 239, 255}}
Opcodes3 == {63, 131, 147, 163, 179, 140, 156, 172, 188}

(* The instruction at pc is one of them. *)
Executable(m, opc, codes) ==
  /\ opc \in codes
  /\ IsIndexed(opc) => HasMode(mem_rd8(m, m.pc))
IsInstruction(m) ==
  LET first  == Fetch(m)
      second == Fetch(first.m)
  IN  CASE first.val = op_page2 -> Executable(second.m, second.val, Opcodes2)
        [] first.val = op_page3 -> Executable(second.m, second.val, Opcodes3)
        [] OTHER -> /\ Executable(first.m, first.val, Opcodes1)
                    /\ first.val \in {30, 31} => HasRegisters(mem_rd8(first.m, first.m.pc))

LEMMA SharedFields == ASSUME NEW m, IsMachine(m) PROVE Shared \subseteq DOMAIN m
BY DEF IsMachine, Shared

LEMMA StillAgain ==
  ASSUME NEW m, NEW k, NEW n, NEW first, NEW then, Still(m, k, first), Still(k, n, then)
  PROVE  Still(m, n, first \cup then)
BY DEF Still

(* A field that is not shared. *)
LEMMA FieldStill ==
  ASSUME NEW m, Shared \subseteq DOMAIN m, NEW field, field \notin Shared, NEW value
  PROVE  Still(m, [m EXCEPT ![field] = value], {})
BY DEF Still

LEMMA RegistersApart == (Wide \cup Narrow \cup {"mem", "lcr", "pc", "d", "cc"}) \cap Shared = {}
BY DEF Wide, Narrow, Register8, Register16, Shared

LEMMA PutStill ==
  ASSUME NEW m, Shared \cup {"cc"} \subseteq DOMAIN m, NEW reg \in Wide \cup Narrow, NEW value
  PROVE  /\ Still(m, Put(m, reg, value), {})
         /\ reg # "cc" => Put(m, reg, value).cc = m.cc
<1>1. Shared \subseteq DOMAIN m /\ "a" \notin Shared /\ "b" \notin Shared /\ "cc" \in DOMAIN m
  BY DEF Shared
<1>2. CASE reg = "d"
  <2> DEFINE k == [m EXCEPT !.a = value \div 256]
             n == [k EXCEPT !.b = value % 256]
  <2>1. Put(m, reg, value) = n
    BY <1>2 DEF Put
  <2>2. Still(m, k, {}) /\ Still(k, n, {})
    BY <1>1, FieldStill
  <2>3. n.cc = m.cc
    BY <1>1
  <2> HIDE DEF n, k
  <2> QED BY <2>1, <2>2, <2>3, StillAgain
<1>3. CASE reg # "d"
  <2>1. PICK to : Put(m, reg, value) = [m EXCEPT ![reg] = to]
    BY <1>3 DEF Put
  <2>2. reg \notin Shared
    BY RegistersApart
  <2>3. Still(m, [m EXCEPT ![reg] = to], {})
    BY <1>1, <2>2, FieldStill
  <2>4. reg # "cc" => [m EXCEPT ![reg] = to].cc = m.cc
    BY <1>1
  <2> QED BY <2>1, <2>3, <2>4
<1> QED BY <1>2, <1>3

LEMMA StoreStill ==
  ASSUME NEW m, IsMachine(m), NEW addr, NEW data
  PROVE  /\ Still(m, Store(m, addr, data), {}) /\ Store(m, addr, data).cc = m.cc
         /\ Still(m, mem_wr16(m, addr, data), {}) /\ mem_wr16(m, addr, data).cc = m.cc
<1>1. ASSUME NEW k, DOMAIN k = DOMAIN m, NEW at, NEW byte
      PROVE  /\ Still(k, Store(k, at, byte), {}) /\ Store(k, at, byte).cc = k.cc
             /\ DOMAIN Store(k, at, byte) = DOMAIN m
  <2>1. Shared \subseteq DOMAIN k /\ "mem" \notin Shared /\ "cc" \in DOMAIN k
    BY <1>1, SharedFields DEF Shared, IsMachine
  <2>2. Store(k, at, byte) = [k EXCEPT !.mem = Written(k.mem, at, byte)]
    BY DEF Store
  <2>3. Still(k, [k EXCEPT !.mem = Written(k.mem, at, byte)], {})
    BY <2>1, FieldStill
  <2>4. [k EXCEPT !.mem = Written(k.mem, at, byte)].cc = k.cc
    BY <2>1
  <2> QED BY <1>1, <2>2, <2>3, <2>4
<1> DEFINE high == Store(m, addr, data \div 256)
<1>2. /\ Still(m, high, {}) /\ high.cc = m.cc /\ DOMAIN high = DOMAIN m
  BY <1>1
<1> HIDE DEF high
<1>3. Still(high, Store(high, addr + 1, data % 256), {})
      /\ Store(high, addr + 1, data % 256).cc = m.cc
  BY <1>1, <1>2
<1>4. mem_wr16(m, addr, data) = Store(high, addr + 1, data % 256)
  BY DEF mem_wr16, high
<1>5. Still(m, mem_wr16(m, addr, data), {})
  BY <1>2, <1>3, <1>4, StillAgain
<1> QED BY <1>1, <1>3, <1>4, <1>5

LEMMA ReadStill ==
  ASSUME NEW m, IsMachine(m), NEW addr
  PROVE  /\ addr # TIO_ADDR_RBR_THR => AfterRd8(m, addr) = m
         /\ Still(m, AfterRd8(m, addr), {"lsr"}) /\ AfterRd8(m, addr).cc = m.cc
         /\ addr = TIO_ADDR_RBR_THR => AfterRd8(m, addr).lsr = tio_read_rbr(m.lsr)
<1>1. Shared \subseteq DOMAIN m /\ "cc" \in DOMAIN m /\ "lsr" \in DOMAIN m
  BY SharedFields DEF IsMachine
<1> QED BY <1>1 DEF AfterRd8, Still

LEMMA WriteStill ==
  ASSUME NEW m, IsMachine(m), NEW addr, NEW data
  PROVE  /\ addr \notin {TIO_ADDR_RBR_THR, TIO_ADDR_IER} => Still(m, mem_wr8(m, addr, data), {})
         /\ addr = TIO_ADDR_RBR_THR =>
              /\ Still(m, mem_wr8(m, addr, data), {"thr", "lsr"})
              /\ mem_wr8(m, addr, data).lsr = tio_write_thr(m.lsr)
         /\ addr = TIO_ADDR_IER => Still(m, mem_wr8(m, addr, data), {"ier"})
         /\ mem_wr8(m, addr, data).cc = m.cc
<1>1. Shared \cup {"cc", "lcr"} \subseteq DOMAIN m /\ "lcr" \notin Shared
  BY SharedFields DEF IsMachine, Shared
<1>2. /\ TIO_ADDR_RBR_THR = 65280 /\ TIO_ADDR_LSR = 65281 /\ TIO_ADDR_IER = 65282
      /\ TIO_ADDR_IIR = 65283 /\ TIO_ADDR_LCR = 65284
  BY DEF TIO_ADDR_RBR_THR, TIO_ADDR_LSR, TIO_ADDR_IER, TIO_ADDR_IIR, TIO_ADDR_LCR,
         TIO_BASE_ADDRESS
<1>3. CASE addr = TIO_ADDR_RBR_THR
  <2>1. mem_wr8(m, addr, data) = [m EXCEPT !.thr = data, !.lsr = tio_write_thr(@)]
    BY <1>2, <1>3 DEF mem_wr8
  <2> DEFINE n == [m EXCEPT !.thr = data, !.lsr = tio_write_thr(@)]
  <2>2. /\ \A field \in DOMAIN m \ {"thr", "lsr"} : n[field] = m[field]
        /\ n.lsr = tio_write_thr(m.lsr)
    BY <1>1 DEF Shared
  <2>3. n.cc = m.cc
    BY <1>1
  <2>4. Still(m, n, {"thr", "lsr"})
    BY <1>1, <2>2 DEF Still
  <2> HIDE DEF n
  <2>5. mem_wr8(m, addr, data) = n
    BY <2>1 DEF n
  <2> QED BY <1>2, <1>3, <2>2, <2>3, <2>4, <2>5
<1>4. CASE addr = TIO_ADDR_IER
  <2>1. mem_wr8(m, addr, data) = [m EXCEPT !.ier = Bits(data)]
    BY <1>2, <1>4 DEF mem_wr8
  <2> QED BY <1>1, <1>2, <1>4, <2>1 DEF Still
<1>5. CASE addr = TIO_ADDR_LCR
  <2> DEFINE k == Store(m, addr, data)
  <2>1. mem_wr8(m, addr, data) = [k EXCEPT !.lcr = data]
    BY <1>2, <1>5 DEF mem_wr8
  <2>2. Still(m, k, {}) /\ k.cc = m.cc
    BY StoreStill
  <2>3. DOMAIN k = DOMAIN m
    BY DEF Store
  <2> HIDE DEF k
  <2>4. Still(k, [k EXCEPT !.lcr = data], {}) /\ [k EXCEPT !.lcr = data].cc = k.cc
    BY <1>1, <2>3, FieldStill
  <2>5. Still(m, [k EXCEPT !.lcr = data], {})
    BY <2>2, <2>4, StillAgain
  <2>6. Still(m, mem_wr8(m, addr, data), {}) /\ mem_wr8(m, addr, data).cc = m.cc
    BY <2>1, <2>2, <2>4, <2>5
  <2>7. addr # TIO_ADDR_RBR_THR /\ addr # TIO_ADDR_IER
    BY <1>2, <1>5
  <2> QED BY <2>6, <2>7
<1>6. CASE addr \notin {TIO_ADDR_RBR_THR, TIO_ADDR_IER, TIO_ADDR_LCR}
  <2>1. mem_wr8(m, addr, data) \in {m, Store(m, addr, data)}
    BY <1>6 DEF mem_wr8
  <2>2. Still(m, m, {})
    BY DEF Still
  <2> QED BY <1>6, <2>1, <2>2, StoreStill
<1> QED BY <1>3, <1>4, <1>5, <1>6

-----------------------------------------------------------------------------
(* Reading the instruction. *)
LEMMA FetchStill ==
  ASSUME NEW m, IsMachine(m), m.pc # TIO_ADDR_RBR_THR
  PROVE  /\ Fetch(m).m = [m EXCEPT !.pc = Wrap(m.pc + 1)]
         /\ Fetch(m).val = mem_rd8(m, m.pc)
BY ReadStill DEF Fetch

LEMMA PcStill ==
  ASSUME NEW m, IsMachine(m), NEW value
  PROVE  LET n == [m EXCEPT !.pc = value]
         IN  /\ Still(m, n, {}) /\ n.cc = m.cc /\ n.s = m.s /\ n.u = m.u
             /\ n.pc = value
<1>1. Shared \subseteq DOMAIN m /\ "pc" \notin Shared /\ {"cc", "s", "u", "pc"} \subseteq DOMAIN m
  BY SharedFields DEF Shared, IsMachine
<1>2. Still(m, [m EXCEPT !.pc = value], {})
  BY <1>1, FieldStill
<1> QED BY <1>1, <1>2

Follows(out, m) == Still(m, out.m, {}) /\ out.m.cc = m.cc

LEMMA IndexedStill ==
  ASSUME NEW m, IsMachine(m), NEW post \in Byte, m.pc # TIO_ADDR_RBR_THR
  PROVE  LET out == IndexedBase(m, post)
         IN  /\ HasMode(post)  => Follows(out, m)
             /\ ~HasMode(post) => /\ Still(m, out.m, {"ok"}) /\ out.m.cc = m.cc
                                  /\ ~out.m.ok /\ out.val = EYECATCHER_16
<1> DEFINE reg == <<"x", "y", "u", "s">>[((post \div 32) % 4) + 1]
           at(ofs) == [val |-> Wrap(m[reg] + ofs), m |-> m]
           step(by) == [m EXCEPT ![reg] = Wrap(@ + by)]
           byte == Fetch(m)
           word == Fetch16(m)
           mode == post % 16
<1>1. reg \in Register16
  <2>1. ((post \div 32) % 4) + 1 \in 1..4
    BY ByteRange
  <2> QED BY <2>1 DEF Register16
<1>2. reg \notin Shared /\ reg # "cc" /\ Shared \subseteq DOMAIN m /\ "cc" \in DOMAIN m
      /\ "ok" \in DOMAIN m
  <2>1. reg \notin Shared
    <3> HIDE DEF reg
    <3> QED BY <1>1, RegistersApart DEF Wide
  <2>2. reg # "cc"
    <3> HIDE DEF reg
    <3> QED BY <1>1, NamesDiffer
  <2> QED BY <2>1, <2>2, SharedFields DEF IsMachine
<1>3. /\ IndexedBase(m, post) =
        IF post < 128 THEN at(_sext816(_sext58(post)))
        ELSE CASE mode = 0  -> [val |-> m[reg], m |-> step(1)]
               [] mode = 1  -> [val |-> m[reg], m |-> step(2)]
               [] mode = 2  -> [val |-> step(-1)[reg], m |-> step(-1)]
               [] mode = 3  -> [val |-> step(-2)[reg], m |-> step(-2)]
               [] mode = 4  -> at(0)
               [] mode = 5  -> at(_sext816(m.b))
               [] mode = 6  -> at(_sext816(m.a))
               [] mode = 8  -> [val |-> Wrap(m[reg] + _sext816(byte.val)), m |-> byte.m]
               [] mode = 9  -> [val |-> Wrap(m[reg] + word.val), m |-> [m EXCEPT !.pc = Wrap(@ + 1)]]
               [] mode = 11 -> at(Get(m, "d"))
               [] mode = 12 -> [val |-> Wrap(byte.m.pc + _sext816(byte.val)), m |-> byte.m]
               [] mode = 13 -> [val |-> Wrap(word.m.pc + word.val), m |-> word.m]
               [] mode = 15 -> word
               [] OTHER     -> Inherent([m EXCEPT !.ok = FALSE])
  BY DEF IndexedBase, reg
<1> HIDE DEF reg
<1>4. ASSUME NEW val, NEW by PROVE Follows([val |-> val, m |-> step(by)], m)
  <2>1. Still(m, step(by), {}) /\ step(by).cc = m.cc
    BY <1>2, FieldStill
  <2> HIDE DEF step
  <2> QED BY <2>1 DEF Follows
<1>5. ASSUME NEW ofs PROVE Follows(at(ofs), m)
  BY DEF Follows, Still
<1>6. ASSUME NEW val PROVE /\ Follows([val |-> val, m |-> byte.m], m)
                           /\ Follows([val |-> val, m |-> word.m], m)
                           /\ Follows([val |-> val, m |-> [m EXCEPT !.pc = Wrap(@ + 1)]], m)
  <2>1. byte.m = [m EXCEPT !.pc = Wrap(m.pc + 1)] /\ word.m = [m EXCEPT !.pc = Wrap(m.pc + 2)]
    BY FetchStill DEF Fetch16
  <2>2. ASSUME NEW to PROVE Follows([val |-> val, m |-> [m EXCEPT !.pc = to]], m)
    BY PcStill DEF Follows
  <2> HIDE DEF byte, word
  <2> QED BY <2>1, <2>2
<1>7. Follows(word, m)
  <2>1. Follows([val |-> word.val, m |-> word.m], m)
    BY <1>6
  <2> HIDE DEF word
  <2> QED BY <2>1 DEF Follows
<1>8. CASE HasMode(post)
  <2>1. post < 128 \/ mode \in {0, 1, 2, 3, 4, 5, 6, 8, 9, 11, 12, 13, 15}
    BY <1>8, ByteRange DEF HasMode
  <2> HIDE DEF at, step, byte, word, mode
  <2> QED BY <1>3, <1>4, <1>5, <1>6, <1>7, <1>8, <2>1
<1>9. CASE ~HasMode(post)
  <2> DEFINE n == [m EXCEPT !.ok = FALSE]
  <2>1. ~(post < 128) /\ mode \in {7, 10, 14}
    BY <1>9 DEF HasMode
  <2>2. Still(m, n, {"ok"}) /\ n.cc = m.cc /\ ~n.ok
    BY <1>2 DEF Still
  <2>3. IndexedBase(m, post) = Inherent(n)
    <3> HIDE DEF at, step, byte, word, mode
    <3> QED BY <1>3, <2>1
  <2> HIDE DEF n, mode
  <2> QED BY <1>9, <2>2, <2>3 DEF Inherent
<1> QED BY <1>8, <1>9

(* The opcodes whose operand is the byte behind them. *)
ByteOpcodes == {26, 28, 30, 31, 52, 53, 54, 55}

LEMMA AddressStill ==
  ASSUME NEW m, IsMachine(m), NEW opc \in Byte,
         m.pc # TIO_ADDR_RBR_THR, Wrap(m.pc + 1) # TIO_ADDR_RBR_THR
  PROVE  LET out   == _eafromopc(m, opc)
             known == IsIndexed(opc) => HasMode(mem_rd8(m, m.pc))
         IN  /\ known  => Follows(out, m)
             /\ ~known => /\ Still(m, out.m, {"ok"}) /\ out.m.cc = m.cc
                          /\ ~out.m.ok /\ out.val = EYECATCHER_16
             /\ ~IsIndexed(opc) => out.m.s = m.s /\ out.m.u = m.u
             /\ opc \in ByteOpcodes =>
                  out.val = m.pc /\ out.m = [m EXCEPT !.pc = Wrap(@ + 1)]
<1> DEFINE out == _eafromopc(m, opc)
<1>1. Fetch(m).m = [m EXCEPT !.pc = Wrap(m.pc + 1)] /\ AfterRd8(m, m.pc) = m
  BY FetchStill, ReadStill
<1>2. ASSUME NEW val, NEW to
      PROVE  LET k == [val |-> val, m |-> [m EXCEPT !.pc = to]]
             IN  Follows(k, m) /\ k.m.s = m.s /\ k.m.u = m.u
  BY PcStill DEF Follows
<1>3. Follows(Inherent(m), m) /\ Inherent(m).m.s = m.s /\ Inherent(m).m.u = m.u
  BY DEF Follows, Still, Inherent
<1>4. /\ Follows(_eadirect(m), m) /\ _eadirect(m).m.s = m.s /\ _eadirect(m).m.u = m.u
  <2>1. _eadirect(m) = [val |-> 256 * m.dp + Fetch(m).val, m |-> Fetch(m).m]
    BY DEF _eadirect, Fetch
  <2> QED BY <1>1, <1>2, <2>1
<1>5. ASSUME NEW n \in {1, 2}
      PROVE  /\ Follows(_earelative(m, n), m) /\ _earelative(m, n).m.s = m.s
             /\ _earelative(m, n).m.u = m.u
             /\ Follows(_eaimmediate(m, n), m) /\ _eaimmediate(m, n).m.s = m.s
             /\ _eaimmediate(m, n).m.u = m.u
  BY <1>1, <1>2 DEF _earelative, _eaimmediate
<1>6. Follows(Fetch16(m), m) /\ Fetch16(m).m.s = m.s /\ Fetch16(m).m.u = m.u
  BY <1>2 DEF Fetch16
<1>7. CASE IsIndexed(opc)
  <2> DEFINE post == Fetch(m)
             base == IndexedBase(post.m, post.val)
  <2>1. out = _eaindexed(m)
    <3>1. \/ opc \div 16 \in {6, 10, 14}
          \/ opc \div 16 = 3 /\ opc % 16 \in 0..3
      BY <1>7, ByteRange DEF IsIndexed
    <3> QED BY <3>1 DEF _eafromopc
  <2>2. IsMachine(post.m) /\ post.val \in Byte /\ post.m.pc = Wrap(m.pc + 1)
        /\ post.val = mem_rd8(m, m.pc) /\ Still(m, post.m, {}) /\ post.m.cc = m.cc
    BY <1>1, FetchTypes, FetchStill, PcStill
  <2>3. /\ HasMode(post.val)  => Follows(base, post.m)
        /\ ~HasMode(post.val) => /\ Still(post.m, base.m, {"ok"}) /\ base.m.cc = post.m.cc
                                 /\ ~base.m.ok /\ base.val = EYECATCHER_16
    BY <2>2, IndexedStill
  <2>4. _eaindexed(m).m = base.m /\ (~base.m.ok => _eaindexed(m) = base)
    BY DEF _eaindexed
  <2> HIDE DEF post, base
  <2>5. HasMode(post.val) => Follows(out, m)
    BY <2>1, <2>2, <2>3, <2>4, StillAgain DEF Follows
  <2>6. ~HasMode(post.val) => /\ Still(m, out.m, {"ok"}) /\ out.m.cc = m.cc
                              /\ ~out.m.ok /\ out.val = EYECATCHER_16
    BY <2>1, <2>2, <2>3, <2>4, StillAgain
  <2>7. opc \notin ByteOpcodes
    BY <1>7, ByteRange DEF IsIndexed, ByteOpcodes
  <2> QED BY <1>7, <2>2, <2>5, <2>6, <2>7
<1>8. CASE ~IsIndexed(opc)
  <2>1. out \in {_eadirect(m), Inherent(m), _earelative(m, 1), _earelative(m, 2),
                 Fetch16(m), _eaimmediate(m, 1), _eaimmediate(m, 2)}
    <3>1. /\ opc \div 16 \notin {6, 10, 14}
          /\ ~(opc \div 16 = 3 /\ opc % 16 \in 0..3)
      BY <1>8, ByteRange DEF IsIndexed
    <3> QED BY <3>1 DEF _eafromopc, _eaextended
  <2>2. opc \in ByteOpcodes => out = _eaimmediate(m, 1)
    <3>1. ASSUME opc \in ByteOpcodes
          PROVE  \/ opc \div 16 = 1 /\ opc % 16 \in {10, 12, 14, 15}
                 \/ opc \div 16 = 3 /\ opc % 16 \in 4..7
      BY <3>1 DEF ByteOpcodes
    <3> QED BY <3>1 DEF _eafromopc
  <2> HIDE DEF out
  <2>3. Follows(out, m) /\ out.m.s = m.s /\ out.m.u = m.u
    BY <1>3, <1>4, <1>5, <1>6, <2>1
  <2>4. opc \in ByteOpcodes => out.val = m.pc /\ out.m = [m EXCEPT !.pc = Wrap(@ + 1)]
    BY <2>2 DEF _eaimmediate
  <2> QED BY <1>8, <2>3, <2>4 DEF out
<1> HIDE DEF out
<1> QED BY <1>7, <1>8 DEF out

-----------------------------------------------------------------------------
(* The mask bits, and the accesses of eight bits. *)
Masks == {cc_f, cc_i}
Kept  == Masks \cup {cc_e}  \* what no arithmetic changes

LEMMA AffectKept ==
  ASSUME NEW codes, NEW affected, NEW on, affected \cap Kept = {}, on \cap Kept = {}
  PROVE  Affect(codes, affected, on) \cap Kept = codes \cap Kept
BY DEF Affect, _setclrf

LEMMA WhenKept ==
  ASSUME NEW condition, NEW flag \in {cc_h, cc_n, cc_z, cc_v, cc_c}
  PROVE  When(condition, flag) \cap Kept = {}
BY DEF When, Kept, Masks, cc_h, cc_n, cc_z, cc_v, cc_c, cc_e, cc_f, cc_i

LEMMA SizedKept ==
  ASSUME NEW codes, NEW value
  PROVE  /\ _flags_nz_v8(codes, value) \cap Kept = codes \cap Kept
         /\ _flags_nz_v16(codes, value) \cap Kept = codes \cap Kept
<1>1. {cc_n, cc_z, cc_v} \cap Kept = {}
  BY DEF Kept, Masks, cc_n, cc_z, cc_v, cc_e, cc_f, cc_i
<1>2. ASSUME NEW first, NEW then
      PROVE  (When(first, cc_n) \cup When(then, cc_z)) \cap Kept = {}
  BY WhenKept
<1>3. _flags_nz_v8(codes, value) \cap Kept = codes \cap Kept
  BY <1>1, <1>2, AffectKept DEF _flags_nz_v8
<1>4. _flags_nz_v16(codes, value) \cap Kept = codes \cap Kept
  BY <1>1, <1>2, AffectKept DEF _flags_nz_v16
<1> QED BY <1>3, <1>4

LEMMA SumKept ==
  ASSUME NEW codes, NEW a, NEW b, NEW carry
  PROVE  /\ __addcf8(codes, a, b, carry).cc \cap Kept = codes \cap Kept
         /\ __subcf8(codes, a, b, carry).cc \cap Kept = codes \cap Kept
         /\ _incf8(codes, a).cc \cap Kept = codes \cap Kept
         /\ _decf8(codes, a).cc \cap Kept = codes \cap Kept
<1>1. /\ {cc_n, cc_z, cc_c, cc_v, cc_h} \cap Kept = {} /\ {cc_n, cc_z, cc_c, cc_v} \cap Kept = {}
      /\ {cc_n, cc_z, cc_v} \cap Kept = {}
  BY DEF Kept, Masks, cc_h, cc_n, cc_z, cc_v, cc_c, cc_e, cc_f, cc_i
<1>2. ASSUME NEW p, NEW q, NEW r, NEW s, NEW t
      PROVE  /\ (When(p, cc_n) \cup When(q, cc_z) \cup When(r, cc_c) \cup When(s, cc_v)
                   \cup When(t, cc_h)) \cap Kept = {}
             /\ (When(p, cc_n) \cup When(q, cc_z) \cup When(r, cc_c) \cup When(s, cc_v))
                  \cap Kept = {}
             /\ (When(p, cc_n) \cup When(q, cc_z) \cup When(s, cc_v)) \cap Kept = {}
  <2>1. /\ When(p, cc_n) \cap Kept = {} /\ When(q, cc_z) \cap Kept = {}
        /\ When(r, cc_c) \cap Kept = {} /\ When(s, cc_v) \cap Kept = {}
        /\ When(t, cc_h) \cap Kept = {}
    BY WhenKept
  <2> QED BY <2>1
<1>3. __addcf8(codes, a, b, carry).cc \cap Kept = codes \cap Kept
  BY <1>1, <1>2, AffectKept DEF __addcf8
<1>4. __subcf8(codes, a, b, carry).cc \cap Kept = codes \cap Kept
  BY <1>1, <1>2, AffectKept DEF __subcf8
<1>5. _incf8(codes, a).cc \cap Kept = codes \cap Kept
  BY <1>1, <1>2, AffectKept DEF _incf8
<1>6. _decf8(codes, a).cc \cap Kept = codes \cap Kept
  BY <1>1, <1>2, AffectKept DEF _decf8
<1> QED BY <1>3, <1>4, <1>5, <1>6

LEMMA ResultKept ==
  ASSUME NEW codes, NEW a, NEW b, NEW nibble
  PROVE  /\ nibble \in Operations8 => Operate8(nibble, codes, a, b).cc \cap Kept = codes \cap Kept
         /\ nibble \in Modifications => Modify(nibble, codes, a).cc \cap Kept = codes \cap Kept
<1>1. ASSUME NEW value PROVE Logic(codes, value).cc \cap Kept = codes \cap Kept
  BY SizedKept DEF Logic
<1>2. nibble \in Operations8 => Operate8(nibble, codes, a, b).cc \cap Kept = codes \cap Kept
  <2>1. ASSUME NEW carry PROVE /\ __addcf8(codes, a, b, carry).cc \cap Kept = codes \cap Kept
                               /\ __subcf8(codes, a, b, carry).cc \cap Kept = codes \cap Kept
    BY SumKept
  <2> QED BY <1>1, <2>1 DEF Operations8, Operate8, _subf8, _subcf8, _addf8, _addcf8, lo_and,
                            lo_or, lo_xor
<1>3. nibble \in Modifications => Modify(nibble, codes, a).cc \cap Kept = codes \cap Kept
  <2>1. /\ _subf8(codes, 0, a).cc \cap Kept = codes \cap Kept
        /\ _incf8(codes, a).cc \cap Kept = codes \cap Kept
        /\ _decf8(codes, a).cc \cap Kept = codes \cap Kept
    <3>1. __subcf8(codes, 0, a, 0).cc \cap Kept = codes \cap Kept
      BY SumKept
    <3>2. /\ _incf8(codes, a).cc \cap Kept = codes \cap Kept
          /\ _decf8(codes, a).cc \cap Kept = codes \cap Kept
      BY SumKept
    <3> QED BY <3>1, <3>2 DEF _subf8
  <2>2. lo_com(codes, a).cc \cap Kept = codes \cap Kept
    <3>1. cc_c \notin Kept
      BY DEF Kept, Masks, cc_c, cc_e, cc_f, cc_i
    <3>2. (codes \ {cc_c}) \cap Kept = codes \cap Kept
          /\ (codes \cup {cc_c}) \cap Kept = codes \cap Kept
      BY <3>1
    <3> QED BY <3>2, SizedKept DEF lo_com, Logic
  <2>3. Affect(codes, {cc_n, cc_z, cc_v, cc_c}, {cc_z}) \cap Kept = codes \cap Kept
    <3>1. {cc_n, cc_z, cc_v, cc_c} \cap Kept = {} /\ {cc_z} \cap Kept = {}
      BY DEF Kept, Masks, cc_n, cc_z, cc_v, cc_c, cc_e, cc_f, cc_i
    <3> QED BY <3>1, AffectKept
  <2> QED BY <2>1, <2>2, <2>3 DEF Modifications, Modify
<1> QED BY <1>2, <1>3

LEMMA KeptIsMasked ==
  ASSUME NEW codes, NEW then, then \cap Kept = codes \cap Kept
  PROVE  then \cap Masks = codes \cap Masks
BY DEF Kept

(* An access of eight bits to ea: of another kind than Internal only if ea *)
(* is one of two registers of the UART.                                    *)
Accesses(m, n, ea) ==
  /\ Internal(m, n) \/ ReadsRbr(m, n) \/ WritesThr(m, n) \/ ModifiesUart(m, n) \/ WritesIer(m, n)
  /\ ea \notin {TIO_ADDR_RBR_THR, TIO_ADDR_IER} => Internal(m, n)

LEMMA InternalAccesses ==
  ASSUME NEW m, NEW n, Internal(m, n), NEW ea PROVE Accesses(m, n, ea)
BY DEF Accesses

LEMMA UnmaskedByCc ==
  ASSUME NEW m, NEW n, n.cc \cap Masks = m.cc \cap Masks PROVE Unmasked(m, n)
BY DEF Unmasked, Masks

LEMMA ReadAccess ==
  ASSUME NEW m, IsMachine(m), NEW ea, NEW n, Still(AfterRd8(m, ea), n, {}), Unmasked(m, n)
  PROVE  Accesses(m, n, ea)
<1> DEFINE k == AfterRd8(m, ea)
<1>1. ea # TIO_ADDR_RBR_THR => k = m
  BY ReadStill
<1>2. ea = TIO_ADDR_RBR_THR => k.lsr = tio_read_rbr(m.lsr)
  BY ReadStill
<1>3. Still(m, k, {"lsr"})
  BY ReadStill
<1> HIDE DEF k
<1>4. Still(k, n, {})
  BY DEF k
<1>5. CASE ea # TIO_ADDR_RBR_THR
  BY <1>1, <1>4, <1>5 DEF Accesses, Internal
<1>6. CASE ea = TIO_ADDR_RBR_THR
  <2>1. Still(m, n, {"lsr"})
    BY <1>3, <1>4, StillAgain
  <2>2. n.lsr = tio_read_rbr(m.lsr)
    BY <1>2, <1>4, <1>6 DEF Still, Shared
  <2> QED BY <1>6, <2>1, <2>2 DEF Accesses, ReadsRbr
<1> QED BY <1>5, <1>6

LEMMA SetCcStill ==
  ASSUME NEW m, Shared \cup {"cc"} \subseteq DOMAIN m, NEW codes
  PROVE  Still(m, [m EXCEPT !.cc = codes], {}) /\ [m EXCEPT !.cc = codes].cc = codes
<1>1. "cc" \notin Shared
  BY DEF Shared
<1>2. Still(m, [m EXCEPT !.cc = codes], {})
  BY <1>1, FieldStill
<1> QED BY <1>2

LEMMA FieldsThere ==
  ASSUME NEW m, IsMachine(m)
  PROVE  Shared \cup {"cc"} \subseteq DOMAIN m
BY SharedFields DEF IsMachine

LEMMA PutOutStill ==
  ASSUME NEW m, Shared \cup {"cc"} \subseteq DOMAIN m, NEW reg \in Wide \cup Narrow, reg # "cc",
         NEW out
  PROVE  /\ Still(m, PutOut(m, reg, out), {}) /\ PutOut(m, reg, out).cc = out.cc
<1> DEFINE k == [m EXCEPT !.cc = out.cc]
<1>1. Still(m, k, {}) /\ k.cc = out.cc
  BY SetCcStill
<1>2. Shared \cup {"cc"} \subseteq DOMAIN k
  OBVIOUS
<1> HIDE DEF k
<1>3. Still(k, Put(k, reg, out.val), {}) /\ Put(k, reg, out.val).cc = k.cc
  BY <1>2, PutStill
<1> QED BY <1>1, <1>3, StillAgain DEF PutOut, k

LEMMA Operation8Kind ==
  ASSUME NEW m, IsMachine(m), NEW opc, Nibble(opc) \in Operations8, NEW ea
  PROVE  Accesses(m, ExecOperation8(m, opc, ea), ea)
<1> DEFINE reg == Accumulator(opc)
           k   == AfterRd8(m, ea)
           out == Operate8(Nibble(opc), m.cc, m[reg], mem_rd8(m, ea))
           n   == ExecOperation8(m, opc, ea)
<1>1. n = IF Nibble(opc) \in {1, 5} THEN [k EXCEPT !.cc = out.cc] ELSE PutOut(k, reg, out)
  BY DEF ExecOperation8, WithCc
<1>2. out.cc \cap Masks = m.cc \cap Masks
  <2>1. out.cc \cap Kept = m.cc \cap Kept
    BY ResultKept
  <2> HIDE DEF out
  <2> QED BY <2>1, KeptIsMasked
<1>3. reg \in Wide \cup Narrow /\ reg # "cc"
  BY AccumulatorIsRegister, NamesDiffer DEF Narrow
<1>4. Shared \cup {"cc"} \subseteq DOMAIN k
  BY ReadTypes, FieldsThere
<1> HIDE DEF k, out, reg, n
<1>5. Still(k, n, {}) /\ n.cc = out.cc
  BY <1>1, <1>3, <1>4, SetCcStill, PutOutStill
<1>6. Unmasked(m, n)
  BY <1>2, <1>5, UnmaskedByCc
<1> QED BY <1>5, <1>6, ReadAccess DEF k, n

LEMMA WriteAccess ==
  ASSUME NEW m, IsMachine(m), NEW ea, NEW data, NEW codes, codes \cap Masks = m.cc \cap Masks,
         NEW k \in {m, AfterRd8(m, ea)}
  PROVE  Accesses(m, WithCc(mem_wr8(k, ea, data), codes), ea)
<1> DEFINE w == mem_wr8(k, ea, data)
           n == WithCc(w, codes)
<1>1. IsMachine(k)
  BY ReadTypes
<1>2. /\ ea \notin {TIO_ADDR_RBR_THR, TIO_ADDR_IER} => Still(k, w, {})
      /\ ea = TIO_ADDR_RBR_THR => Still(k, w, {"thr", "lsr"}) /\ w.lsr = tio_write_thr(k.lsr)
      /\ ea = TIO_ADDR_IER => Still(k, w, {"ier"})
  BY <1>1, WriteStill
<1>3. DOMAIN w = DOMAIN k
  BY DEF mem_wr8, Store
<1>4. Shared \cup {"cc"} \subseteq DOMAIN w
  BY <1>1, <1>3, FieldsThere
<1>5. n = [w EXCEPT !.cc = codes]
  BY DEF WithCc
<1> HIDE DEF w
<1>6. Still(w, n, {}) /\ n.cc = codes
  BY <1>4, <1>5, SetCcStill
<1> HIDE DEF n
<1>7. Unmasked(m, n)
  BY <1>6, UnmaskedByCc
<1>8. /\ ea # TIO_ADDR_RBR_THR => k = m
      /\ ea = TIO_ADDR_RBR_THR => k.lsr \in {m.lsr, tio_read_rbr(m.lsr)}
      /\ Still(m, k, {"lsr"})
  <2>1. Still(m, m, {"lsr"})
    BY DEF Still
  <2> QED BY <2>1, ReadStill
<1>9. TIO_ADDR_IER # TIO_ADDR_RBR_THR
  BY DEF TIO_ADDR_IER, TIO_ADDR_RBR_THR, TIO_BASE_ADDRESS
<1>10. CASE ea \notin {TIO_ADDR_RBR_THR, TIO_ADDR_IER}
  <2>1. Still(m, n, {})
    BY <1>2, <1>6, <1>8, <1>10, StillAgain
  <2> QED BY <2>1, InternalAccesses DEF Internal, n, w
<1>11. CASE ea = TIO_ADDR_IER
  <2>1. Still(m, n, {"ier"})
    BY <1>2, <1>6, <1>8, <1>9, <1>11, StillAgain
  <2> QED BY <1>7, <1>11, <2>1 DEF Accesses, WritesIer, n, w
<1>12. CASE ea = TIO_ADDR_RBR_THR
  <2>1. Still(k, n, {"thr", "lsr"})
    BY <1>2, <1>6, <1>12, StillAgain
  <2>2. Still(m, n, {"thr", "lsr"})
    BY <1>8, <2>1 DEF Still
  <2>3. n.lsr = w.lsr
    BY <1>6 DEF Still, Shared
  <2>4. n.lsr \in {tio_write_thr(m.lsr), tio_write_thr(tio_read_rbr(m.lsr))}
    BY <1>2, <1>8, <1>12, <2>3
  <2> QED BY <1>7, <1>12, <2>2, <2>4 DEF Accesses, WritesThr, ModifiesUart, n, w
<1> QED BY <1>10, <1>11, <1>12

LEMMA Store8Kind ==
  ASSUME NEW m, IsMachine(m), NEW opc, NEW ea
  PROVE  Accesses(m, ExecStore8(m, opc, ea), ea)
BY SizedKept, KeptIsMasked, WriteAccess DEF ExecStore8

LEMMA ModifyMemKind ==
  ASSUME NEW m, IsMachine(m), NEW opc, Nibble(opc) \in Modifications, NEW ea
  PROVE  Accesses(m, ExecModifyMem(m, opc, ea), ea)
<1> DEFINE k   == IF Nibble(opc) = 15 THEN m ELSE AfterRd8(m, ea)
           out == Modify(Nibble(opc), m.cc, mem_rd8(m, ea))
<1>1. out.cc \cap Masks = m.cc \cap Masks
  <2>1. out.cc \cap Kept = m.cc \cap Kept
    BY ResultKept
  <2> HIDE DEF out
  <2> QED BY <2>1, KeptIsMasked
<1>2. ExecModifyMem(m, opc, ea) = WithCc(mem_wr8(k, ea, out.val), out.cc)
  BY DEF ExecModifyMem
<1>3. k \in {m, AfterRd8(m, ea)}
  OBVIOUS
<1> HIDE DEF k, out
<1> QED BY <1>1, <1>2, <1>3, WriteAccess

LEMMA ModifyRegKind ==
  ASSUME NEW m, IsMachine(m), NEW opc
  PROVE  Internal(m, ExecModifyReg(m, opc))
<1>1. {"a", "b"} \subseteq Wide \cup Narrow /\ "a" # "cc" /\ "b" # "cc"
  BY DEF Narrow, Register8
<1>2. ASSUME NEW reg \in {"a", "b"}, NEW out PROVE Still(m, PutOut(m, reg, out), {})
  BY <1>1, FieldsThere, PutOutStill
<1> QED BY <1>2 DEF ExecModifyReg, Internal

-----------------------------------------------------------------------------
(* The stacks: the register goes up or down by at most a frame, around the *)
(* end of the address space if need be.                                    *)
Apart(base) == base \notin (TIO_BASE_ADDRESS - 11)..(TIO_BASE_ADDRESS + 14)
PushedTo(value, base, length) == \E k \in 0..length : value = Wrap(base - k)
PulledTo(value, base, length) == \E k \in 0..length : value = Wrap(base + k)

LEMMA MovesAdd ==
  ASSUME NEW base \in Word, NEW k \in 0..12, NEW by \in 0..12
  PROVE  /\ Wrap(Wrap(base - k) - by) = Wrap(base - (k + by))
         /\ Wrap(Wrap(base + k) + by) = Wrap(base + (k + by))
<1>1. base \in Int /\ 0 <= base /\ base <= 65535
  BY WordRange
<1> QED BY <1>1 DEF Wrap

LEMMA NearAddresses ==
  ASSUME NEW base \in Word, Apart(base), NEW k \in 0..12
  PROVE  /\ k >= 1 => Wrap(base - k) \notin {TIO_ADDR_RBR_THR, TIO_ADDR_IER}
         /\ k <= 11 => Wrap(base + k) # TIO_ADDR_RBR_THR
<1>1. base \in Int /\ 0 <= base /\ base <= 65535
  BY WordRange
<1>2. Wrap(base - k) = IF base - k >= 0 THEN base - k ELSE base - k + 65536
  BY <1>1 DEF Wrap
<1>3. Wrap(base + k) = IF base + k <= 65535 THEN base + k ELSE base + k - 65536
  BY <1>1 DEF Wrap
<1>4. base < 65269 \/ base > 65294
  BY <1>1 DEF Apart, TIO_BASE_ADDRESS
<1>5. TIO_ADDR_RBR_THR = 65280 /\ TIO_ADDR_IER = 65282
  BY DEF TIO_ADDR_RBR_THR, TIO_ADDR_IER, TIO_BASE_ADDRESS
<1>6. k >= 1 => Wrap(base - k) \notin {TIO_ADDR_RBR_THR, TIO_ADDR_IER}
  BY <1>1, <1>2, <1>4, <1>5
<1>7. k <= 11 => Wrap(base + k) # TIO_ADDR_RBR_THR
  BY <1>1, <1>3, <1>4, <1>5
<1> QED BY <1>6, <1>7

LEMMA PushStill ==
  ASSUME NEW m, IsMachine(m), NEW st \in {"s", "u"}, NEW reg \in Wide \cup Narrow
  PROVE  /\ Push(m, st, reg).cc = m.cc
         /\ Push(m, st, reg)[st] = Wrap(m[st] - Size(reg))
         /\ (~IsWide(reg) => Wrap(m[st] - 1) \notin {TIO_ADDR_RBR_THR, TIO_ADDR_IER})
              => Still(m, Push(m, st, reg), {})
<1> DEFINE sp == Wrap(m[st] - Size(reg))
           k  == [m EXCEPT ![st] = sp]
<1>1. st \in DOMAIN m /\ st \notin Shared /\ Shared \cup {"cc"} \subseteq DOMAIN m
      /\ m[st] \in Word /\ st # "cc" /\ st # "mem" /\ st \notin {"thr", "lsr", "ier", "lcr"}
  BY FieldsThere, NamedTypes DEF IsMachine, Shared, Register16
<1>2. Still(m, k, {}) /\ k.cc = m.cc /\ k[st] = sp
  BY <1>1, FieldStill
<1>3. IsMachine(k)
  <2>1. sp \in Word
    BY <1>1, Cuts, WordRange DEF Size
  <2> QED BY <2>1, PutNamed16 DEF Register16
<1>4. ASSUME NEW l, NEW addr, NEW data, st \in DOMAIN l
      PROVE  Store(l, addr, data)[st] = l[st] /\ st \in DOMAIN Store(l, addr, data)
  BY <1>1, <1>4 DEF Store
<1>5. st \in DOMAIN k
  BY <1>1
<1> HIDE DEF k
<1>6. CASE IsWide(reg)
  <2>1. Push(m, st, reg) = mem_wr16(k, sp, Get(m, reg))
    BY <1>6 DEF Push, k, Size
  <2>2. mem_wr16(k, sp, Get(m, reg))[st] = k[st]
    BY <1>4, <1>5 DEF mem_wr16
  <2> HIDE DEF sp
  <2>3. Still(k, mem_wr16(k, sp, Get(m, reg)), {}) /\ mem_wr16(k, sp, Get(m, reg)).cc = k.cc
    BY <1>3, StoreStill
  <2>4. Still(m, mem_wr16(k, sp, Get(m, reg)), {})
    BY <1>2, <2>3, StillAgain
  <2> QED BY <1>2, <2>1, <2>2, <2>3, <2>4 DEF sp
<1>7. CASE ~IsWide(reg)
  <2>1. Push(m, st, reg) = mem_wr8(k, sp, Get(m, reg)) /\ sp = Wrap(m[st] - 1)
    BY <1>7 DEF Push, k, Size
  <2>2. mem_wr8(k, sp, Get(m, reg))[st] = k[st]
    <3>1. mem_wr8(k, sp, Get(m, reg)) \in
            {k, Store(k, sp, Get(m, reg)), [k EXCEPT !.thr = Get(m, reg), !.lsr = tio_write_thr(@)],
             [k EXCEPT !.ier = Bits(Get(m, reg))], [Store(k, sp, Get(m, reg)) EXCEPT !.lcr = Get(m, reg)]}
      BY DEF mem_wr8
    <3> QED BY <1>1, <1>4, <1>5, <3>1
  <2> HIDE DEF sp
  <2>3. /\ mem_wr8(k, sp, Get(m, reg)).cc = k.cc
        /\ sp \notin {TIO_ADDR_RBR_THR, TIO_ADDR_IER} => Still(k, mem_wr8(k, sp, Get(m, reg)), {})
    BY <1>3, WriteStill
  <2>4. sp \notin {TIO_ADDR_RBR_THR, TIO_ADDR_IER} => Still(m, mem_wr8(k, sp, Get(m, reg)), {})
    BY <1>2, <2>3, StillAgain
  <2> QED BY <1>2, <1>7, <2>1, <2>2, <2>3, <2>4 DEF sp
<1> QED BY <1>6, <1>7

LEMMA PullStill ==
  ASSUME NEW m, IsMachine(m), NEW st \in {"s", "u"}, NEW reg \in Wide \cup Narrow, reg # st
  PROVE  /\ Pull(m, st, reg)[st] = Wrap(m[st] + Size(reg))
         /\ (~IsWide(reg) => m[st] # TIO_ADDR_RBR_THR) => Still(m, Pull(m, st, reg), {})
<1>1. st \in DOMAIN m /\ st \notin Shared /\ Shared \cup {"cc"} \subseteq DOMAIN m
      /\ st \notin {"a", "b", "cc", "lsr"}
  BY FieldsThere DEF IsMachine, Shared
<1>2. PICK k \in {m, AfterRd8(m, m[st])} :
        /\ \E data : Pull(m, st, reg) = [Put(k, reg, data) EXCEPT ![st] = Wrap(@ + Size(reg))]
        /\ IsWide(reg) => k = m
        /\ ~IsWide(reg) => k = AfterRd8(m, m[st])
  <2>1. CASE IsWide(reg)
    BY <2>1 DEF Pull, Size
  <2>2. CASE ~IsWide(reg)
    BY <2>2 DEF Pull, Size
  <2> QED BY <2>1, <2>2
<1>3. PICK value : Pull(m, st, reg) = [Put(k, reg, value) EXCEPT ![st] = Wrap(@ + Size(reg))]
  BY <1>2
<1>4. DOMAIN k = DOMAIN m /\ k[st] = m[st]
  BY <1>1, <1>2 DEF AfterRd8
<1>5. DOMAIN Put(k, reg, value) = DOMAIN m /\ Put(k, reg, value)[st] = m[st]
  BY <1>1, <1>4 DEF Put
<1>6. Pull(m, st, reg)[st] = Wrap(m[st] + Size(reg))
  BY <1>1, <1>3, <1>5
<1>7. ASSUME ~IsWide(reg) => m[st] # TIO_ADDR_RBR_THR PROVE k = m
  BY <1>2, <1>7, ReadStill
<1>8. Still(k, Put(k, reg, value), {})
  BY <1>1, <1>4, PutStill
<1>9. Still(Put(k, reg, value), Pull(m, st, reg), {})
  <2> DEFINE l == Put(k, reg, value)
  <2>1. Shared \subseteq DOMAIN l /\ st \notin Shared
    BY <1>1, <1>5
  <2>2. Pull(m, st, reg) = [l EXCEPT ![st] = Wrap(l[st] + Size(reg))]
    BY <1>3
  <2> HIDE DEF l
  <2>3. Still(l, Pull(m, st, reg), {})
    BY <2>1, <2>2 DEF Still
  <2> QED BY <2>3 DEF l
<1>10. Still(k, Pull(m, st, reg), {})
  BY <1>8, <1>9, StillAgain
<1> QED BY <1>6, <1>7, <1>10

(* A machine on the way through _pushregs, or _pullregs, from m. *)
Pushing(m, st, length, k) ==
  IsMachine(k) /\ Still(m, k, {}) /\ k.cc = m.cc /\ PushedTo(k[st], m[st], length)
Pulling(m, st, length, k) ==
  IsMachine(k) /\ Still(m, k, {}) /\ PulledTo(k[st], m[st], length)

LEMMA SizeOfNamed ==
  ASSUME NEW reg \in Weighed, NEW other \in {"s", "u"}
  PROVE  /\ Size(Named(reg, other)) = IF reg \in {"cc", "a", "b", "dp"} THEN 1 ELSE 2
         /\ IsWide(Named(reg, other)) <=> reg \notin {"cc", "a", "b", "dp"}
BY DEF Weighed, Size, Named, IsWide

LEMMA PushOneStill ==
  ASSUME NEW m, IsMachine(m), NEW st \in {"s", "u"}, NEW other \in {"s", "u"}, other # st,
         Apart(m[st]), NEW mask, NEW reg \in Weighed, NEW length \in 0..11,
         NEW after \in 0..12, after = length + (IF reg \in {"cc", "a", "b", "dp"} THEN 1 ELSE 2),
         NEW k, Pushing(m, st, length, k)
  PROVE  Pushing(m, st, after, PushOne(k, mask, st, reg, other))
<1> DEFINE name == Named(reg, other)
           n    == Push(k, st, name)
<1>1. name \in Wide \cup Narrow /\ Size(name) \in {1, 2} /\ after = length + Size(name)
  BY NamedIsRegister, SizeOfNamed
<1>2. m[st] \in Word
  BY NamedTypes DEF Register16
<1> HIDE DEF name
<1>3. PICK j \in 0..length : k[st] = Wrap(m[st] - j)
  BY DEF Pushing, PushedTo
<1>4. j \in 0..12 /\ j + 1 \in 0..12 /\ 1 \in 0..12 /\ Size(name) \in 0..12
      /\ j + 1 >= 1 /\ j + Size(name) \in 0..after
  BY <1>1
<1>5. Wrap(k[st] - 1) \notin {TIO_ADDR_RBR_THR, TIO_ADDR_IER}
  <2>1. Wrap(Wrap(m[st] - j) - 1) = Wrap(m[st] - (j + 1))
    BY <1>2, <1>4, MovesAdd
  <2>2. Wrap(m[st] - (j + 1)) \notin {TIO_ADDR_RBR_THR, TIO_ADDR_IER}
    BY <1>2, <1>4, NearAddresses
  <2> QED BY <1>3, <2>1, <2>2
<1>6. n.cc = k.cc /\ n[st] = Wrap(k[st] - Size(name)) /\ Still(k, n, {})
  BY <1>1, <1>5, PushStill DEF Pushing
<1>7. n[st] = Wrap(m[st] - (j + Size(name)))
  <2>1. Wrap(Wrap(m[st] - j) - Size(name)) = Wrap(m[st] - (j + Size(name)))
    BY <1>2, <1>4, MovesAdd
  <2> QED BY <1>3, <1>6, <2>1
<1>8. IsMachine(n)
  BY <1>1, PushTypes DEF Pushing
<1>9. Still(m, n, {})
  BY <1>6, StillAgain DEF Pushing
<1> HIDE DEF n
<1>10. Pushing(m, st, after, n)
  BY <1>4, <1>6, <1>7, <1>8, <1>9 DEF Pushing, PushedTo
<1>11. Pushing(m, st, after, k)
  <2>1. j \in 0..after
    BY <1>1
  <2> QED BY <1>3, <2>1 DEF Pushing, PushedTo
<1> QED BY <1>10, <1>11 DEF PushOne, n, name

LEMMA PullOneStill ==
  ASSUME NEW m, IsMachine(m), NEW st \in {"s", "u"}, NEW other \in {"s", "u"}, other # st,
         Apart(m[st]), NEW mask, NEW reg \in Weighed, NEW length \in 0..11,
         NEW after \in 0..12, after = length + (IF reg \in {"cc", "a", "b", "dp"} THEN 1 ELSE 2),
         NEW k, Pulling(m, st, length, k)
  PROVE  Pulling(m, st, after, PullOne(k, mask, st, reg, other))
<1> DEFINE name == Named(reg, other)
           n    == Pull(k, st, name)
<1>1. name \in Wide \cup Narrow /\ Size(name) \in {1, 2} /\ after = length + Size(name)
      /\ name # st
  <2>1. name # st
    BY DEF Named, Weighed
  <2> QED BY <2>1, NamedIsRegister, SizeOfNamed
<1>2. m[st] \in Word
  BY NamedTypes DEF Register16
<1> HIDE DEF name
<1>3. PICK j \in 0..length : k[st] = Wrap(m[st] + j)
  BY DEF Pulling, PulledTo
<1>4. j \in 0..12 /\ j <= 11 /\ Size(name) \in 0..12 /\ j + Size(name) \in 0..after
  BY <1>1
<1>5. k[st] # TIO_ADDR_RBR_THR
  <2>1. Wrap(m[st] + j) # TIO_ADDR_RBR_THR
    BY <1>2, <1>4, NearAddresses
  <2> QED BY <1>3, <2>1
<1>6. n[st] = Wrap(k[st] + Size(name)) /\ Still(k, n, {})
  BY <1>1, <1>5, PullStill DEF Pulling
<1>7. n[st] = Wrap(m[st] + (j + Size(name)))
  <2>1. Wrap(Wrap(m[st] + j) + Size(name)) = Wrap(m[st] + (j + Size(name)))
    BY <1>2, <1>4, MovesAdd
  <2> QED BY <1>3, <1>6, <2>1
<1>8. IsMachine(n)
  BY <1>1, PullTypes DEF Pulling
<1>9. Still(m, n, {})
  BY <1>6, StillAgain DEF Pulling
<1> HIDE DEF n
<1>10. Pulling(m, st, after, n)
  BY <1>4, <1>6, <1>7, <1>8, <1>9 DEF Pulling, PulledTo
<1>11. Pulling(m, st, after, k)
  <2>1. j \in 0..after
    BY <1>1
  <2> QED BY <1>3, <2>1 DEF Pulling, PulledTo
<1> QED BY <1>10, <1>11 DEF PullOne, n, name

LEMMA PushRegsStill ==
  ASSUME NEW m, IsMachine(m), NEW mask, NEW st \in {"s", "u"}, NEW other \in {"s", "u"},
         other # st, Apart(m[st])
  PROVE  Still(m, _pushregs(m, mask, st, other), {})
         /\ _pushregs(m, mask, st, other).cc = m.cc
<1> DEFINE then(n, reg) == PushOne(n, mask, st, reg, other)
           k1 == then(m, "pc")
           k2 == then(k1, "us")
           k3 == then(k2, "y")
           k4 == then(k3, "x")
           k5 == then(k4, "dp")
           k6 == then(k5, "b")
           k7 == then(k6, "a")
           k8 == then(k7, "cc")
<1>1. _pushregs(m, mask, st, other) = k8
  BY DEF _pushregs
<1>2. Pushing(m, st, 0, m)
  <2>1. m[st] \in Word
    BY NamedTypes DEF Register16
  <2>2. Wrap(m[st] - 0) = m[st]
    BY <2>1, WordRange DEF Wrap
  <2> QED BY <2>2 DEF Pushing, PushedTo, Still
<1>3. ASSUME NEW reg \in {"x", "y", "us", "pc"}, NEW length \in 0..10,
             NEW k, Pushing(m, st, length, k)
      PROVE  Pushing(m, st, length + 2, then(k, reg))
  <2>1. reg \in Weighed /\ reg \notin {"cc", "a", "b", "dp"} /\ length \in 0..11 /\ length + 2 \in 0..12
    BY DEF Weighed
  <2> QED BY <1>3, <2>1, PushOneStill
<1>4. ASSUME NEW reg \in {"cc", "a", "b", "dp"}, NEW length \in 0..11,
             NEW k, Pushing(m, st, length, k)
      PROVE  Pushing(m, st, length + 1, then(k, reg))
  <2>1. reg \in Weighed /\ length + 1 \in 0..12
    BY DEF Weighed
  <2> QED BY <1>4, <2>1, PushOneStill
<1> HIDE DEF then
<1>5. Pushing(m, st, 2, k1)
  BY <1>2, <1>3, 0 + 2 = 2
<1>6. Pushing(m, st, 4, k2)
  BY <1>5, <1>3, 2 + 2 = 4
<1>7. Pushing(m, st, 6, k3)
  BY <1>6, <1>3, 4 + 2 = 6
<1>8. Pushing(m, st, 8, k4)
  BY <1>7, <1>3, 6 + 2 = 8
<1>9. Pushing(m, st, 9, k5)
  BY <1>8, <1>4, 8 + 1 = 9
<1>10. Pushing(m, st, 10, k6)
  BY <1>9, <1>4, 9 + 1 = 10
<1>11. Pushing(m, st, 11, k7)
  BY <1>10, <1>4, 10 + 1 = 11
<1>12. Pushing(m, st, 12, k8)
  BY <1>11, <1>4, 11 + 1 = 12
<1> QED BY <1>1, <1>12 DEF Pushing

LEMMA PullRegsStill ==
  ASSUME NEW m, IsMachine(m), NEW mask, NEW st \in {"s", "u"}, NEW other \in {"s", "u"},
         other # st, Apart(m[st])
  PROVE  Still(m, _pullregs(m, mask, st, other), {})
<1> DEFINE then(n, reg) == PullOne(n, mask, st, reg, other)
           k1 == then(m, "cc")
           k2 == then(k1, "a")
           k3 == then(k2, "b")
           k4 == then(k3, "dp")
           k5 == then(k4, "x")
           k6 == then(k5, "y")
           k7 == then(k6, "us")
           k8 == then(k7, "pc")
<1>1. _pullregs(m, mask, st, other) = k8
  BY DEF _pullregs
<1>2. Pulling(m, st, 0, m)
  <2>1. m[st] \in Word
    BY NamedTypes DEF Register16
  <2>2. Wrap(m[st] + 0) = m[st]
    BY <2>1, WordRange DEF Wrap
  <2> QED BY <2>2 DEF Pulling, PulledTo, Still
<1>3. ASSUME NEW reg \in {"x", "y", "us", "pc"}, NEW length \in 0..10,
             NEW k, Pulling(m, st, length, k)
      PROVE  Pulling(m, st, length + 2, then(k, reg))
  <2>1. reg \in Weighed /\ reg \notin {"cc", "a", "b", "dp"} /\ length \in 0..11 /\ length + 2 \in 0..12
    BY DEF Weighed
  <2> QED BY <1>3, <2>1, PullOneStill
<1>4. ASSUME NEW reg \in {"cc", "a", "b", "dp"}, NEW length \in 0..11,
             NEW k, Pulling(m, st, length, k)
      PROVE  Pulling(m, st, length + 1, then(k, reg))
  <2>1. reg \in Weighed /\ length + 1 \in 0..12
    BY DEF Weighed
  <2> QED BY <1>4, <2>1, PullOneStill
<1> HIDE DEF then
<1>5. Pulling(m, st, 1, k1)
  BY <1>2, <1>4, 0 + 1 = 1
<1>6. Pulling(m, st, 2, k2)
  BY <1>5, <1>4, 1 + 1 = 2
<1>7. Pulling(m, st, 3, k3)
  BY <1>6, <1>4, 2 + 1 = 3
<1>8. Pulling(m, st, 4, k4)
  BY <1>7, <1>4, 3 + 1 = 4
<1>9. Pulling(m, st, 6, k5)
  BY <1>8, <1>3, 4 + 2 = 6
<1>10. Pulling(m, st, 8, k6)
  BY <1>9, <1>3, 6 + 2 = 8
<1>11. Pulling(m, st, 10, k7)
  BY <1>10, <1>3, 8 + 2 = 10
<1>12. Pulling(m, st, 12, k8)
  BY <1>11, <1>3, 10 + 2 = 12
<1> QED BY <1>1, <1>12 DEF Pulling

LEMMA ExecStackKind ==
  ASSUME NEW m, IsMachine(m), NEW opc \in 52..55, NEW ea, ea # TIO_ADDR_RBR_THR,
         Apart(m.s), Apart(m.u)
  PROVE  Internal(m, ExecStack(m, opc, ea))
<1>1. AfterRd8(m, ea) = m
  BY ReadStill
<1>2. "s" # "u" /\ Apart(m["s"]) /\ Apart(m["u"])
  OBVIOUS
<1>3. ASSUME NEW mask
      PROVE  /\ Still(m, _pushregs(m, mask, "s", "u"), {}) /\ Still(m, _pushregs(m, mask, "u", "s"), {})
             /\ Still(m, _pullregs(m, mask, "s", "u"), {}) /\ Still(m, _pullregs(m, mask, "u", "s"), {})
  BY <1>2, PushRegsStill, PullRegsStill
<1> QED BY <1>1, <1>3 DEF ExecStack, Internal

LEMMA ReturnKind ==
  ASSUME NEW m, IsMachine(m), Apart(m.s)
  PROVE  Internal(m, _pullstate(m))
<1>1. "s" # "u" /\ Apart(m["s"])
  OBVIOUS
<1>2. ASSUME NEW mask PROVE Still(m, _pullregs(m, mask, "s", "u"), {})
  BY <1>1, PullRegsStill
<1> QED BY <1>2 DEF _pullstate, Internal

-----------------------------------------------------------------------------
(* The other groups touch registers and memory only. *)
LEMMA ErrorKind == ASSUME NEW m, IsMachine(m) PROVE Fails(m, _errorexit(m))
<1>1. Shared \cup {"cc"} \subseteq DOMAIN m
  BY FieldsThere
<1> QED BY <1>1 DEF Fails, _errorexit, Still, Unmasked, Shared

LEMMA JumpKind ==
  ASSUME NEW m, IsMachine(m), NEW opc, NEW ea
  PROVE  /\ Internal(m, m) /\ Internal(m, _jump(m, ea)) /\ Internal(m, Branch(m, opc, ea))
         /\ Internal(m, Call(m, ea)) /\ Internal(m, Pull(m, "s", "pc"))
<1>1. Internal(m, m) /\ Internal(m, _jump(m, ea)) /\ Internal(m, Branch(m, opc, ea))
  <2>1. Internal(m, m)
    BY DEF Internal, Still
  <2>2. Internal(m, _jump(m, ea))
    BY PcStill DEF _jump, Internal
  <2> QED BY <2>1, <2>2 DEF Branch
<1>2. "pc" \in Wide \cup Narrow /\ IsWide("pc") /\ "pc" # "s"
  BY DEF Wide, Register16, IsWide
<1>3. Still(m, Push(m, "s", "pc"), {}) /\ IsMachine(Push(m, "s", "pc"))
  BY <1>2, PushStill, PushTypes
<1>4. Internal(m, Call(m, ea))
  <2>1. Still(Push(m, "s", "pc"), Call(m, ea), {})
    BY <1>3, PcStill DEF Call
  <2> QED BY <1>3, <2>1, StillAgain DEF Internal
<1>5. Internal(m, Pull(m, "s", "pc"))
  BY <1>2, PullStill DEF Internal
<1> QED BY <1>1, <1>4, <1>5

LEMMA CcStill ==
  ASSUME NEW m, IsMachine(m), NEW codes
  PROVE  Still(m, WithCc(m, codes), {}) /\ WithCc(m, codes).cc = codes
BY FieldsThere, SetCcStill DEF WithCc

LEMMA ExecCcKind ==
  ASSUME NEW m, IsMachine(m), NEW opc, NEW ea, ea # TIO_ADDR_RBR_THR
  PROVE  Internal(m, ExecCc(m, opc, ea))
<1>1. AfterRd8(m, ea) = m
  BY ReadStill
<1> QED BY <1>1, CcStill DEF ExecCc, Internal

LEMMA WideKind ==
  ASSUME NEW m, IsMachine(m), NEW reg \in Wide, NEW ea \in Word
  PROVE  /\ Internal(m, ExecLoad16(m, reg, ea)) /\ Internal(m, ExecStore16(m, reg, ea))
         /\ Internal(m, ExecCmp16(m, reg, ea))
<1>1. ASSUME NEW k, IsMachine(k), Still(m, k, {}), NEW codes
      PROVE  Internal(m, WithCc(k, codes))
  BY <1>1, CcStill, StillAgain DEF Internal
<1>2. /\ IsMachine(Put(m, reg, mem_rd16(m, ea)))
      /\ Still(m, Put(m, reg, mem_rd16(m, ea)), {})
  BY WideReadTypes, PutTypes, FieldsThere, PutStill
<1>3. /\ IsMachine(mem_wr16(m, ea, Get(m, reg)))
      /\ Still(m, mem_wr16(m, ea, Get(m, reg)), {})
  BY GetTypes, WideWriteTypes, StoreStill
<1>4. Still(m, m, {})
  BY DEF Still
<1> QED BY <1>1, <1>2, <1>3, <1>4 DEF ExecLoad16, ExecStore16, ExecCmp16

LEMMA ArithmeticKind ==
  ASSUME NEW m, IsMachine(m), NEW out PROVE Internal(m, PutOut(m, "d", out))
<1>1. "d" \in Wide \cup Narrow /\ "d" # "cc"
  BY DEF Wide
<1> QED BY <1>1, FieldsThere, PutOutStill DEF Internal

LEMMA LeaKind ==
  ASSUME NEW m, IsMachine(m), NEW opc \in 48..51, NEW ea \in Word
  PROVE  Internal(m, ExecLea(m, opc, ea))
<1> DEFINE reg == <<"x", "y", "s", "u">>[Nibble(opc) + 1]
           n   == [m EXCEPT ![reg] = ea]
<1>1. reg \in Register16
  BY DEF Register16, Nibble
<1> HIDE DEF reg
<1>2. IsMachine(n)
  BY <1>1, PutNamed16
<1>3. Still(m, n, {})
  <2>1. reg \notin Shared
    BY <1>1, RegistersApart DEF Wide
  <2> QED BY <2>1, FieldsThere, FieldStill
<1> HIDE DEF n
<1>4. Still(m, WithCc(n, _flags_z16(m.cc, ea)), {})
  BY <1>2, <1>3, CcStill, StillAgain
<1> QED BY <1>3, <1>4 DEF ExecLea, Internal, reg, n

LEMMA ExecRegisterKind ==
  ASSUME NEW m, IsMachine(m), NEW opc \in {18, 25, 29, 58, 61}
  PROVE  Internal(m, ExecRegister(m, opc))
<1>1. "a" \in Wide \cup Narrow /\ "d" \in Wide \cup Narrow /\ "a" # "cc" /\ "d" # "cc"
      /\ "x" \notin Shared
  BY DEF Narrow, Register8, Wide, Shared
<1>2. Still(m, PutOut(m, "a", _decadja(m.cc, m.a)), {})
  BY <1>1, FieldsThere, PutOutStill
<1>3. Still(m, WithCc(Put(m, "d", _sext816(m.a)), _flags_nz_v16(m.cc, _sext816(m.a))), {})
  <2> DEFINE k == Put(m, "d", _sext816(m.a))
  <2>1. Still(m, k, {})
    BY <1>1, FieldsThere, PutStill
  <2>2. IsMachine(k)
    BY FieldsOfMachine, ExtendTypes, PutTypes DEF Wide
  <2> HIDE DEF k
  <2> QED BY <2>1, <2>2, CcStill, StillAgain DEF k
<1>4. Still(m, [m EXCEPT !.x = Wrap(@ + m.a)], {})
  BY <1>1, FieldsThere, FieldStill
<1>5. Still(m, Put(m, "d", _mulf8(m.a, m.b)), {})
  BY <1>1, FieldsThere, PutStill
<1>6. Still(m, m, {})
  BY DEF Still
<1> QED BY <1>2, <1>3, <1>4, <1>5, <1>6 DEF ExecRegister, Internal

LEMMA TransferKind ==
  ASSUME NEW m, IsMachine(m), NEW post, NEW swap \in BOOLEAN
  PROVE  IF HasRegisters(post) THEN Internal(m, _transfer(m, post, swap))
         ELSE Crashes(m, _transfer(m, post, swap))
<1> DEFINE src  == _register(post \div 16)
           dst  == _register(post % 16)
           back == IF swap THEN PutNarrowed(m, src, Widened(m, dst)) ELSE m
<1>1. CASE HasRegisters(post)
  <2>1. src \in Wide \cup Narrow /\ dst \in Wide \cup Narrow
    <3>1. ASSUME NEW nr, _register(nr) # "none" PROVE _register(nr) \in Wide \cup Narrow
      BY <3>1 DEF _register, Wide, Narrow, Register8, Register16
    <3> QED BY <1>1, <3>1 DEF HasRegisters
  <2>2. _transfer(m, post, swap) = PutNarrowed(back, dst, Widened(m, src))
    BY <1>1 DEF _transfer, HasRegisters
  <2>3. Still(m, back, {}) /\ DOMAIN back = DOMAIN m
    <3>1. Still(m, m, {})
      BY DEF Still
    <3> HIDE DEF src, dst
    <3>2. ASSUME NEW value PROVE Still(m, Put(m, src, value), {}) /\ DOMAIN Put(m, src, value) = DOMAIN m
      <4>1. Still(m, Put(m, src, value), {})
        BY <2>1, FieldsThere, PutStill
      <4> QED BY <4>1 DEF Put
    <3> QED BY <3>1, <3>2 DEF PutNarrowed
  <2> HIDE DEF src, dst, back
  <2>4. ASSUME NEW value PROVE Still(back, PutNarrowed(back, dst, value), {})
    BY <2>1, <2>3, FieldsThere, PutStill DEF PutNarrowed
  <2>5. Still(m, PutNarrowed(back, dst, Widened(m, src)), {})
    BY <2>3, <2>4, StillAgain
  <2> QED BY <1>1, <2>2, <2>5 DEF Internal
<1>2. CASE ~HasRegisters(post)
  <2>1. _transfer(m, post, swap) = [_errorexit(m) EXCEPT !.crashed = TRUE]
    BY <1>2 DEF _transfer, HasRegisters
  <2>2. Shared \cup {"cc"} \subseteq DOMAIN m
    BY FieldsThere
  <2> QED BY <1>2, <2>1, <2>2 DEF Crashes, _errorexit, Still, Unmasked, Shared
<1> QED BY <1>1, <1>2

LEMMA RequestKind ==
  ASSUME NEW m, IsMachine(m), NEW flag \in {irq_swi, irq_swi2, irq_swi3}
  PROVE  Interrupts(m, Request(m, flag))
<1>1. Shared \cup {"cc"} \subseteq DOMAIN m
  BY FieldsThere
<1> QED BY <1>1 DEF Interrupts, Request, Still, Unmasked, Shared

-----------------------------------------------------------------------------
(* The three pages. *)
LEMMA RowsOfOpcode ==
  ASSUME NEW opc \in Byte, opc >= 128
  PROVE  /\ Nibble(opc) = 7 /\ ~IsImmediate(opc) => opc \in {151, 167, 183, 215, 231, 247}
         /\ (Row(opc) = 131) <=> opc \in {131, 147, 163, 179}
         /\ (Row(opc) = 195) <=> opc \in {195, 211, 227, 243}
         /\ (Row(opc) = 140) <=> opc \in {140, 156, 172, 188}
         /\ (Row(opc) = 142) <=> opc \in {142, 158, 174, 190}
         /\ (Row(opc) = 204) <=> opc \in {204, 220, 236, 252}
         /\ (Row(opc) = 206) <=> opc \in {206, 222, 238, 254}
         /\ (Row(opc) = 143 /\ ~IsImmediate(opc)) <=> opc \in {159, 175, 191}
         /\ (Row(opc) = 205 /\ ~IsImmediate(opc)) <=> opc \in {221, 237, 253}
         /\ (Row(opc) = 207 /\ ~IsImmediate(opc)) <=> opc \in {223, 239, 255}
<1> DEFINE q == opc \div 16
           r == opc % 16
<1>1. q \in 8..15 /\ r \in 0..15 /\ opc = 16 * q + r
  BY ByteRange
<1>2. Mode(opc) = IF q < 12 THEN q - 8 ELSE q - 12
  BY <1>1 DEF Mode
<1>3. Row(opc) = IF q < 12 THEN 128 + r ELSE 192 + r
  BY <1>1, <1>2 DEF Row
<1>4. IsImmediate(opc) <=> q \in {8, 12}
  BY <1>1, <1>2 DEF IsImmediate
<1>5. Nibble(opc) = r
  BY DEF Nibble
<1> HIDE DEF q, r
<1>6. Nibble(opc) = 7 /\ ~IsImmediate(opc) => opc \in {151, 167, 183, 215, 231, 247}
  BY <1>1, <1>4, <1>5
<1>7. /\ (Row(opc) = 131) <=> opc \in {131, 147, 163, 179}
      /\ (Row(opc) = 195) <=> opc \in {195, 211, 227, 243}
      /\ (Row(opc) = 140) <=> opc \in {140, 156, 172, 188}
      /\ (Row(opc) = 142) <=> opc \in {142, 158, 174, 190}
      /\ (Row(opc) = 204) <=> opc \in {204, 220, 236, 252}
      /\ (Row(opc) = 206) <=> opc \in {206, 222, 238, 254}
  BY <1>1, <1>3
<1>8. /\ (Row(opc) = 143 /\ ~IsImmediate(opc)) <=> opc \in {159, 175, 191}
      /\ (Row(opc) = 205 /\ ~IsImmediate(opc)) <=> opc \in {221, 237, 253}
      /\ (Row(opc) = 207 /\ ~IsImmediate(opc)) <=> opc \in {223, 239, 255}
  BY <1>1, <1>3, <1>4
<1> QED BY <1>6, <1>7, <1>8

(* In the upper half of the first page only five codes are no instruction. *)
LEMMA UpperOpcodes ==
  ASSUME NEW opc \in Byte, opc >= 128
  PROVE  opc \in Opcodes1 <=>
           \/ opc \in {141, 157, 173, 189} \/ Nibble(opc) \in Operations8
           \/ Nibble(opc) = 7 /\ ~IsImmediate(opc)
           \/ Row(opc) \in {131, 195}
           \/ IsLoad16(1, opc) \/ IsStore16(1, opc) \/ IsCmp16(1, opc)
<1> DEFINE q == opc \div 16
           r == opc % 16
<1>1. q \in 8..15 /\ r \in 0..15 /\ opc = 16 * q + r
  BY ByteRange
<1>2. Mode(opc) = IF q < 12 THEN q - 8 ELSE q - 12
  BY <1>1 DEF Mode
<1>3. Row(opc) = IF q < 12 THEN 128 + r ELSE 192 + r
  BY <1>1, <1>2 DEF Row
<1>4. IsImmediate(opc) <=> q \in {8, 12}
  BY <1>1, <1>2 DEF IsImmediate
<1>5. Nibble(opc) = r
  BY DEF Nibble
<1>6. /\ IsLoad16(1, opc) <=> Row(opc) \in {204, 142, 206}
      /\ IsStore16(1, opc) <=> Row(opc) \in {205, 143, 207} /\ ~IsImmediate(opc)
      /\ IsCmp16(1, opc) <=> Row(opc) = 140
  BY DEF IsLoad16, Load16, IsStore16, Store16, IsCmp16, Cmp16
<1>7. opc \in Opcodes1 <=> opc \notin {135, 143, 199, 205, 207}
  BY DEF Opcodes1
<1> HIDE DEF q, r
<1>8. CASE r \in Operations8
  BY <1>1, <1>5, <1>7, <1>8 DEF Operations8
<1>9. CASE r = 7
  BY <1>1, <1>3, <1>4, <1>5, <1>6, <1>7, <1>9 DEF Operations8
<1>10. CASE r \in {3, 12, 14}
  BY <1>1, <1>3, <1>4, <1>5, <1>6, <1>7, <1>10 DEF Operations8
<1>11. CASE r \in {13, 15}
  BY <1>1, <1>3, <1>4, <1>5, <1>6, <1>7, <1>11 DEF Operations8
<1> QED BY <1>1, <1>8, <1>9, <1>10, <1>11 DEF Operations8

LEMMA LowerOpcodes ==
  ASSUME NEW opc \in Byte, opc < 128
  PROVE  opc \in Opcodes1 <=>
           \/ opc \div 16 \in {0, 6, 7} /\ Nibble(opc) \in Modifications \ {6, 9}
           \/ opc \div 16 \in {4, 5} /\ Nibble(opc) \in Modifications
           \/ opc \in {13, 14, 110, 126, 18, 25, 29, 58, 61, 22, 23, 26, 28, 30, 31}
           \/ opc \div 16 = 2 \/ opc \in 48..55 \/ opc \in {57, 59, 63}
<1>1. (opc \div 16 \in {0, 6, 7} /\ opc % 16 = 14) <=> opc \in {14, 110, 126}
  BY ByteRange
<1>2. (opc \div 16 = 2) <=> opc \in 32..47
  BY ByteRange
<1>3. opc \div 16 \in {0, 6, 7} /\ opc % 16 \in {0, 3, 4, 7, 8, 10, 12, 14, 15} <=>
        \/ opc \div 16 \in {0, 6, 7} /\ Nibble(opc) \in Modifications \ {6, 9}
        \/ opc \in {14, 110, 126}
  BY <1>1 DEF Nibble, Modifications
<1>4. opc \div 16 \in {4, 5} /\ opc % 16 \in {0, 3, 4, 6, 7, 8, 9, 10, 12, 15} <=>
        opc \div 16 \in {4, 5} /\ Nibble(opc) \in Modifications
  BY DEF Nibble, Modifications
<1>5. opc \in 32..55 <=> (opc \div 16 = 2 \/ opc \in 48..55)
  BY <1>2, ByteRange
<1>6. ~(opc >= 128)
  BY ByteRange
<1> QED BY <1>3, <1>4, <1>5, <1>6 DEF Opcodes1

LEMMA NoInstruction1 ==
  ASSUME NEW m, NEW opc \in Byte, NEW ea, opc \notin Opcodes1
  PROVE  ExecPage1(m, opc, ea) = _errorexit(m)
<1>1. CASE opc < 128
  <2>1. /\ ~(opc >= 128) /\ ~IsLoad16(1, opc) /\ ~IsStore16(1, opc) /\ ~IsCmp16(1, opc)
        /\ opc \notin {141, 157, 173, 189}
    BY <1>1, ByteRange DEF IsLoad16, IsStore16, IsCmp16
  <2>2. /\ opc \notin 48..51 /\ opc \notin 52..55
    BY <1>1, LowerOpcodes
  <2>3. /\ ~(opc \div 16 \in {0, 6, 7} /\ Nibble(opc) \in Modifications \ {6, 9})
        /\ ~(opc \div 16 \in {4, 5} /\ Nibble(opc) \in Modifications)
        /\ opc \notin {13, 14, 110, 126, 18, 25, 29, 58, 61, 22, 23, 26, 28, 30, 31}
        /\ opc \div 16 # 2 /\ opc \notin {57, 59, 63}
    BY <1>1, LowerOpcodes
  <2> QED BY <2>1, <2>2, <2>3 DEF ExecPage1
<1>2. CASE opc >= 128
  <2>1. /\ opc \div 16 \notin {0, 6, 7} /\ opc \div 16 \notin {4, 5} /\ opc \div 16 # 2
        /\ opc \notin 48..51 /\ opc \notin 52..55
        /\ opc \notin {13, 14, 110, 126, 18, 25, 29, 58, 61, 22, 23, 26, 28, 30, 31, 57, 59, 63}
    BY <1>2, ByteRange
  <2> QED BY <1>2, <2>1, UpperOpcodes DEF ExecPage1
<1> QED BY <1>1, <1>2, ByteRange

LEMMA Page1Kinds ==
  ASSUME NEW m, IsMachine(m), NEW opc \in Byte, NEW ea \in Word,
         opc \in ByteOpcodes => ea # TIO_ADDR_RBR_THR,
         opc \in 52..55 \cup {59} => Apart(m.s) /\ Apart(m.u)
  PROVE  LET n == ExecPage1(m, opc, ea)
         IN  /\ opc \notin Opcodes1 => Fails(m, n)
             /\ opc = 63 => Interrupts(m, n)
             /\ opc \in {30, 31} =>
                  IF HasRegisters(mem_rd8(m, ea)) THEN Internal(m, n) ELSE Crashes(m, n)
             /\ opc \in Opcodes1 \ {30, 31, 63} => Accesses(m, n, ea)
<1> DEFINE n == ExecPage1(m, opc, ea)
<1>1. opc \notin Opcodes1 => Fails(m, n)
  BY NoInstruction1, ErrorKind
<1>2. opc = 63 => Interrupts(m, n)
  <2>1. opc = 63 => n = Request(m, irq_swi)
    BY LowOpcode DEF ExecPage1
  <2> QED BY <2>1, RequestKind
<1>3. opc \in {30, 31} =>
        IF HasRegisters(mem_rd8(m, ea)) THEN Internal(m, n) ELSE Crashes(m, n)
  <2>1. opc \in {30, 31} => n = _transfer(AfterRd8(m, ea), mem_rd8(m, ea), opc = 30)
    BY LowOpcode DEF ExecPage1
  <2>2. opc \in {30, 31} => AfterRd8(m, ea) = m
    BY ReadStill DEF ByteOpcodes
  <2>3. (opc = 30) \in BOOLEAN
    OBVIOUS
  <2> QED BY <2>1, <2>2, <2>3, TransferKind
<1>4. opc \in Opcodes1 \ {30, 31, 63} => Accesses(m, n, ea)
  <2> SUFFICES ASSUME opc \in Opcodes1 \ {30, 31, 63} PROVE Accesses(m, n, ea)
    OBVIOUS
  <2>1. /\ Accesses(m, m, ea) /\ Accesses(m, _jump(m, ea), ea) /\ Accesses(m, Branch(m, opc, ea), ea)
        /\ Accesses(m, Call(m, ea), ea) /\ Accesses(m, Pull(m, "s", "pc"), ea)
    BY JumpKind, InternalAccesses
  <2>2. /\ Nibble(opc) \in Modifications => Accesses(m, ExecModifyMem(m, opc, ea), ea)
        /\ Accesses(m, ExecModifyReg(m, opc), ea)
    BY ModifyMemKind, ModifyRegKind, InternalAccesses
  <2>3. opc \in {18, 25, 29, 58, 61} => Accesses(m, ExecRegister(m, opc), ea)
    BY ExecRegisterKind, InternalAccesses
  <2>4. opc \in {26, 28} => Accesses(m, ExecCc(m, opc, ea), ea)
    BY ExecCcKind, InternalAccesses DEF ByteOpcodes
  <2>5. opc \in 48..51 => Accesses(m, ExecLea(m, opc, ea), ea)
    BY LeaKind, InternalAccesses
  <2>6. opc \in 52..55 => Accesses(m, ExecStack(m, opc, ea), ea)
    <3>1. opc \in 52..55 => opc \in ByteOpcodes
      BY ByteRange DEF ByteOpcodes
    <3> QED BY <3>1, ExecStackKind, InternalAccesses
  <2>7. opc = 59 => Accesses(m, _pullstate(m), ea)
    BY ReturnKind, InternalAccesses
  <2>8. /\ Nibble(opc) \in Operations8 => Accesses(m, ExecOperation8(m, opc, ea), ea)
        /\ Accesses(m, ExecStore8(m, opc, ea), ea)
    BY Operation8Kind, Store8Kind
  <2>9. /\ Accesses(m, PutOut(m, "d", _subf16(m.cc, Get(m, "d"), mem_rd16(m, ea))), ea)
        /\ Accesses(m, PutOut(m, "d", _addf16(m.cc, Get(m, "d"), mem_rd16(m, ea))), ea)
    BY ArithmeticKind, InternalAccesses
  <2>10. /\ IsLoad16(1, opc) => Accesses(m, ExecLoad16(m, Load16(1, Row(opc)), ea), ea)
         /\ IsStore16(1, opc) => Accesses(m, ExecStore16(m, Store16(1, Row(opc)), ea), ea)
         /\ IsCmp16(1, opc) => Accesses(m, ExecCmp16(m, Cmp16(1, Row(opc)), ea), ea)
    BY WideKind, WideRegisters, InternalAccesses DEF IsLoad16, IsStore16, IsCmp16
  <2>11. \/ opc \div 16 \in {0, 6, 7} /\ Nibble(opc) \in Modifications \ {6, 9}
         \/ opc \div 16 \in {4, 5} /\ Nibble(opc) \in Modifications
         \/ opc = 13 \/ opc \in {14, 110, 126} \/ opc \in {18, 25, 29, 58, 61} \/ opc = 22
         \/ opc \in {23, 141, 157, 173, 189} \/ opc \in {26, 28} \/ opc \div 16 = 2
         \/ opc \in 48..51 \/ opc \in 52..55 \/ opc = 57 \/ opc = 59
         \/ opc >= 128 /\ Nibble(opc) \in Operations8
         \/ opc >= 128 /\ Nibble(opc) = 7 /\ ~IsImmediate(opc)
         \/ opc >= 128 /\ Row(opc) = 131
         \/ opc >= 128 /\ Row(opc) = 195
         \/ IsLoad16(1, opc) \/ IsStore16(1, opc) \/ IsCmp16(1, opc)
    <3>1. opc \in 48..55 => opc \in 48..51 \/ opc \in 52..55
      BY ByteRange
    <3>2. opc < 128 \/ opc >= 128
      BY ByteRange
    <3>3. CASE opc < 128
      BY <3>1, <3>3, LowerOpcodes
    <3>4. CASE opc >= 128
      <4>1. \/ opc \in {141, 157, 173, 189} \/ Nibble(opc) \in Operations8
            \/ Nibble(opc) = 7 /\ ~IsImmediate(opc)
            \/ Row(opc) \in {131, 195}
            \/ IsLoad16(1, opc) \/ IsStore16(1, opc) \/ IsCmp16(1, opc)
        BY <3>4, UpperOpcodes
      <4> HIDE DEF n
      <4> QED BY <3>4, <4>1
    <3> QED BY <3>2, <3>3, <3>4
  <2>12. opc \notin {30, 31} /\ opc # 63
    OBVIOUS
  <2> HIDE DEF n
  <2> QED BY <2>1, <2>2, <2>3, <2>4, <2>5, <2>6, <2>7, <2>8, <2>9, <2>10, <2>11, <2>12
          DEF ExecPage1, n
<1> QED BY <1>1, <1>2, <1>3, <1>4

LEMMA Page2Kinds ==
  ASSUME NEW m, IsMachine(m), NEW opc \in Byte, NEW ea \in Word
  PROVE  LET n == _execop_page2(m, opc, ea)
         IN  /\ opc \notin Opcodes2 => Fails(m, n)
             /\ opc = 63 => Interrupts(m, n)
             /\ opc \in Opcodes2 \ {63} => Internal(m, n)
<1> DEFINE n == _execop_page2(m, opc, ea)
<1>1. /\ IsLoad16(2, opc) <=> opc >= 128 /\ Row(opc) \in {142, 206}
      /\ IsStore16(2, opc) <=> opc >= 128 /\ Row(opc) \in {143, 207} /\ ~IsImmediate(opc)
      /\ IsCmp16(2, opc) <=> opc >= 128 /\ Row(opc) \in {131, 140}
  BY DEF IsLoad16, Load16, IsStore16, Store16, IsCmp16, Cmp16
<1>2. opc \in Opcodes2 <=>
        \/ IsLoad16(2, opc) \/ IsStore16(2, opc) \/ IsCmp16(2, opc) \/ opc \in 33..47 \/ opc = 63
  <2>1. CASE opc < 128
    BY <2>1, <1>1, ByteRange DEF Opcodes2
  <2>2. CASE opc >= 128
    BY <2>2, <1>1, RowsOfOpcode DEF Opcodes2
  <2> QED BY <2>1, <2>2, ByteRange
<1>3. opc \notin Opcodes2 => Fails(m, n)
  BY <1>2, ErrorKind DEF _execop_page2
<1>4. opc = 63 => Interrupts(m, n)
  <2>1. opc = 63 => ~IsLoad16(2, opc) /\ ~IsStore16(2, opc) /\ ~IsCmp16(2, opc) /\ opc \notin 33..47
    BY <1>1
  <2> QED BY <2>1, RequestKind DEF _execop_page2
<1>5. opc \in Opcodes2 \ {63} => Internal(m, n)
  <2>1. /\ IsLoad16(2, opc) => Internal(m, ExecLoad16(m, Load16(2, Row(opc)), ea))
        /\ IsStore16(2, opc) => Internal(m, ExecStore16(m, Store16(2, Row(opc)), ea))
        /\ IsCmp16(2, opc) => Internal(m, ExecCmp16(m, Cmp16(2, Row(opc)), ea))
    BY WideKind, WideRegisters DEF IsLoad16, IsStore16, IsCmp16
  <2> QED BY <1>2, <2>1, JumpKind DEF _execop_page2
<1> QED BY <1>3, <1>4, <1>5

LEMMA Page3Kinds ==
  ASSUME NEW m, IsMachine(m), NEW opc \in Byte, NEW ea \in Word
  PROVE  LET n == _execop_page3(m, opc, ea)
         IN  /\ opc \notin Opcodes3 => Fails(m, n)
             /\ opc = 63 => Interrupts(m, n)
             /\ opc \in Opcodes3 \ {63} => Internal(m, n)
<1> DEFINE n == _execop_page3(m, opc, ea)
<1>1. IsCmp16(3, opc) <=> opc >= 128 /\ Row(opc) \in {131, 140}
  BY DEF IsCmp16, Cmp16
<1>2. opc \in Opcodes3 <=> IsCmp16(3, opc) \/ opc = 63
  <2>1. CASE opc < 128
    BY <2>1, <1>1, ByteRange DEF Opcodes3
  <2>2. CASE opc >= 128
    BY <2>2, <1>1, RowsOfOpcode DEF Opcodes3
  <2> QED BY <2>1, <2>2, ByteRange
<1>3. opc \notin Opcodes3 => Fails(m, n)
  BY <1>2, ErrorKind DEF _execop_page3
<1>4. opc = 63 => Interrupts(m, n)
  <2>1. opc = 63 => ~IsCmp16(3, opc)
    BY <1>1
  <2> QED BY <2>1, RequestKind DEF _execop_page3
<1>5. opc \in Opcodes3 \ {63} => Internal(m, n)
  BY <1>2, WideKind, WideRegisters DEF _execop_page3, IsCmp16
<1> QED BY <1>3, <1>4, <1>5

(* One of the kinds of VmLoop, and whether the machine goes on afterwards. *)
OfAKind(m, n) ==
  \/ Internal(m, n) \/ ReadsRbr(m, n) \/ WritesThr(m, n) \/ ModifiesUart(m, n)
  \/ WritesIer(m, n) \/ Interrupts(m, n) \/ Fails(m, n) \/ HasBadPost(m, n) \/ Crashes(m, n)

LEMMA KindsCarry ==
  ASSUME NEW m, NEW k, Still(m, k, {}), k.cc = m.cc, NEW n, NEW ea
  PROVE  /\ Internal(k, n) => Internal(m, n)
         /\ Accesses(k, n, ea) => Accesses(m, n, ea)
         /\ Interrupts(k, n) => Interrupts(m, n)
         /\ Fails(k, n) => Fails(m, n)
         /\ Crashes(k, n) => Crashes(m, n)
<1>1. \A changed : Still(k, n, changed) => Still(m, n, changed)
  BY DEF Still
<1>2. k.lsr = m.lsr /\ k.irq = m.irq
  BY DEF Still, Shared
<1>3. Unmasked(k, n) => Unmasked(m, n)
  BY DEF Unmasked
<1>4. Internal(k, n) => Internal(m, n)
  BY <1>1 DEF Internal
<1>5. /\ ReadsRbr(k, n) => ReadsRbr(m, n)
      /\ WritesThr(k, n) => WritesThr(m, n)
      /\ ModifiesUart(k, n) => ModifiesUart(m, n)
      /\ WritesIer(k, n) => WritesIer(m, n)
  BY <1>1, <1>2, <1>3 DEF ReadsRbr, WritesThr, ModifiesUart, WritesIer
<1>6. Interrupts(k, n) => Interrupts(m, n)
  BY <1>1, <1>2, <1>3 DEF Interrupts
<1>7. (Fails(k, n) => Fails(m, n)) /\ (Crashes(k, n) => Crashes(m, n))
  BY <1>1, <1>3 DEF Fails, Crashes
<1> QED BY <1>4, <1>5, <1>6, <1>7 DEF Accesses

LEMMA KindsAfterBadPost ==
  ASSUME NEW m, NEW k, Still(m, k, {"ok"}), ~k.ok, k.cc = m.cc, NEW n
  PROVE  /\ Internal(k, n) => HasBadPost(m, n)
         /\ Fails(k, n) => Fails(m, n)
<1>1. Internal(k, n) => HasBadPost(m, n)
  BY DEF Internal, HasBadPost, Still, Shared
<1>2. Fails(k, n) => Fails(m, n)
  BY DEF Fails, Still, Unmasked
<1> QED BY <1>1, <1>2

LEMMA KindsGoOn ==
  ASSUME NEW m, NEW n, NEW ea
  PROVE  /\ Internal(m, n) \/ Accesses(m, n, ea) \/ Interrupts(m, n) => n.ok = m.ok
         /\ Fails(m, n) \/ HasBadPost(m, n) \/ Crashes(m, n) => ~n.ok
         /\ Accesses(m, n, ea) => OfAKind(m, n)
<1>1. \A changed : Still(m, n, changed) /\ "ok" \notin changed => n.ok = m.ok
  BY DEF Still, Shared
<1>2. Internal(m, n) \/ Accesses(m, n, ea) \/ Interrupts(m, n) => n.ok = m.ok
  <2>1. Internal(m, n) \/ Interrupts(m, n) => n.ok = m.ok
    BY <1>1 DEF Internal, Interrupts
  <2>2. ReadsRbr(m, n) \/ WritesThr(m, n) \/ ModifiesUart(m, n) \/ WritesIer(m, n) => n.ok = m.ok
    BY <1>1 DEF ReadsRbr, WritesThr, ModifiesUart, WritesIer
  <2> QED BY <2>1, <2>2 DEF Accesses
<1>3. Fails(m, n) \/ HasBadPost(m, n) \/ Crashes(m, n) => ~n.ok
  BY DEF Fails, HasBadPost, Crashes
<1>4. Accesses(m, n, ea) => OfAKind(m, n)
  BY DEF Accesses, OfAKind
<1> QED BY <1>2, <1>3, <1>4

(* One of the kinds, and the machine goes on exactly when it should. *)
Outcome(m, n, good) == OfAKind(m, n) /\ (m.ok => (n.ok <=> good))

(* What follows the bytes of the opcode: the operand, then the operation.  *)
(* k is the machine between the two, ea the effective address.             *)
LEMMA OperandKinds ==
  ASSUME NEW m, NEW h, IsMachine(h), Still(m, h, {}), h.cc = m.cc,
         h.pc # TIO_ADDR_RBR_THR, Wrap(h.pc + 1) # TIO_ADDR_RBR_THR, NEW opc \in Byte
  PROVE  LET k     == _eafromopc(h, opc).m
             ea    == _eafromopc(h, opc).val
             known == IsIndexed(opc) => HasMode(mem_rd8(h, h.pc))
         IN  /\ IsMachine(k) /\ ea \in Word
             /\ known  => Still(m, k, {}) /\ k.cc = m.cc
             /\ ~known => /\ Still(m, k, {"ok"}) /\ k.cc = m.cc /\ ~k.ok /\ IsIndexed(opc)
                          /\ ea \notin {TIO_ADDR_RBR_THR, TIO_ADDR_IER}
             /\ ~IsIndexed(opc) => k.s = h.s /\ k.u = h.u
             /\ opc \in ByteOpcodes =>
                  ea = h.pc /\ \A addr : mem_rd8(k, addr) = mem_rd8(h, addr)
<1> DEFINE k     == _eafromopc(h, opc).m
           ea    == _eafromopc(h, opc).val
           known == IsIndexed(opc) => HasMode(mem_rd8(h, h.pc))
<1>1. IsMachine(k) /\ ea \in Word
  BY AddressTypes DEF IsOperand
<1>2. known => Still(m, k, {}) /\ k.cc = m.cc
  <2>1. known => Still(h, k, {}) /\ k.cc = h.cc
    BY AddressStill DEF Follows
  <2> HIDE DEF k, known
  <2> QED BY <2>1 DEF Still
<1>3. ~known => /\ Still(m, k, {"ok"}) /\ k.cc = m.cc /\ ~k.ok /\ IsIndexed(opc)
               /\ ea \notin {TIO_ADDR_RBR_THR, TIO_ADDR_IER}
  <2>1. ~known => Still(h, k, {"ok"}) /\ k.cc = h.cc /\ ~k.ok /\ ea = EYECATCHER_16
    BY AddressStill
  <2>2. EYECATCHER_16 \notin {TIO_ADDR_RBR_THR, TIO_ADDR_IER}
    BY DEF EYECATCHER_16, TIO_ADDR_RBR_THR, TIO_ADDR_IER, TIO_BASE_ADDRESS
  <2>3. ~known => IsIndexed(opc)
    OBVIOUS
  <2> HIDE DEF k, known, ea
  <2> QED BY <2>1, <2>2, <2>3 DEF Still
<1>4. ~IsIndexed(opc) => k.s = h.s /\ k.u = h.u
  BY AddressStill
<1>5. opc \in ByteOpcodes => ea = h.pc /\ \A addr : mem_rd8(k, addr) = mem_rd8(h, addr)
  <2>1. opc \in ByteOpcodes => ea = h.pc /\ k = [h EXCEPT !.pc = Wrap(h.pc + 1)]
    BY AddressStill
  <2>2. \A addr : mem_rd8([h EXCEPT !.pc = Wrap(h.pc + 1)], addr) = mem_rd8(h, addr)
    BY PcAside
  <2> HIDE DEF k, ea
  <2> QED BY <2>1, <2>2
<1> HIDE DEF k, ea, known
<1> QED BY <1>1, <1>2, <1>3, <1>4, <1>5 DEF k, ea, known

LEMMA PlainOutcome ==
  ASSUME NEW m, NEW h, NEW opc, NEW k, k.cc = m.cc,
         LET known == IsIndexed(opc) => HasMode(mem_rd8(h, h.pc))
         IN  (known => Still(m, k, {})) /\ (~known => Still(m, k, {"ok"}) /\ ~k.ok /\ IsIndexed(opc)),
         NEW codes, 63 \in codes, NEW n,
         opc \notin codes => Fails(k, n), opc = 63 => Interrupts(k, n),
         opc \in codes \ {63} => Internal(k, n)
  PROVE  Outcome(m, n, Executable(h, opc, codes))
<1> DEFINE known == IsIndexed(opc) => HasMode(mem_rd8(h, h.pc))
<1>1. Executable(h, opc, codes) <=> opc \in codes /\ known
  BY DEF Executable
<1>2. ~IsIndexed(63)
  BY DEF IsIndexed
<1>3. CASE known
  <2>1. Still(m, k, {})
    BY <1>3
  <2>2. CASE opc \notin codes
    <3>1. Fails(m, n)
      BY <2>1, <2>2, KindsCarry
    <3> QED BY <3>1, <2>2, <1>1, KindsGoOn DEF Outcome, OfAKind
  <2>3. CASE opc = 63
    <3>1. Interrupts(m, n)
      BY <2>1, <2>3, KindsCarry
    <3> QED BY <3>1, <2>3, <1>1, <1>3, KindsGoOn DEF Outcome, OfAKind
  <2>4. CASE opc \in codes \ {63}
    <3>1. Internal(m, n)
      BY <2>1, <2>4, KindsCarry
    <3> QED BY <3>1, <2>4, <1>1, <1>3, KindsGoOn DEF Outcome, OfAKind
  <2> QED BY <2>2, <2>3, <2>4
<1>4. CASE ~known
  <2>1. Still(m, k, {"ok"}) /\ ~k.ok /\ IsIndexed(opc)
    BY <1>4
  <2>2. opc # 63
    BY <2>1, <1>2
  <2>3. HasBadPost(m, n) \/ Fails(m, n)
    BY <2>1, <2>2, KindsAfterBadPost
  <2> QED BY <2>3, <1>1, <1>4, KindsGoOn DEF Outcome, OfAKind
<1> QED BY <1>3, <1>4

LEMMA Page1Outcome ==
  ASSUME NEW m, NEW h, IsMachine(h), Still(m, h, {}), h.cc = m.cc,
         h.pc # TIO_ADDR_RBR_THR, Wrap(h.pc + 1) # TIO_ADDR_RBR_THR,
         Apart(h.s), Apart(h.u), NEW opc \in Byte
  PROVE  Outcome(m, ExecPage1(_eafromopc(h, opc).m, opc, _eafromopc(h, opc).val),
                 /\ Executable(h, opc, Opcodes1)
                 /\ opc \in {30, 31} => HasRegisters(mem_rd8(h, h.pc)))
<1> DEFINE k     == _eafromopc(h, opc).m
           ea    == _eafromopc(h, opc).val
           known == IsIndexed(opc) => HasMode(mem_rd8(h, h.pc))
           n     == ExecPage1(k, opc, ea)
           good  == opc \in {30, 31} => HasRegisters(mem_rd8(h, h.pc))
<1>1. /\ IsMachine(k) /\ ea \in Word
      /\ known  => Still(m, k, {}) /\ k.cc = m.cc
      /\ ~known => /\ Still(m, k, {"ok"}) /\ k.cc = m.cc /\ ~k.ok /\ IsIndexed(opc)
                   /\ ea \notin {TIO_ADDR_RBR_THR, TIO_ADDR_IER}
  BY OperandKinds
<1>2. opc \in ByteOpcodes => ea # TIO_ADDR_RBR_THR
  BY OperandKinds
<1>3. opc \in 52..55 \cup {59} => Apart(k.s) /\ Apart(k.u)
  <2>1. opc \in 52..55 \cup {59} => ~IsIndexed(opc)
    BY ByteRange DEF IsIndexed
  <2> QED BY <2>1, OperandKinds
<1>4. opc \in {30, 31} => mem_rd8(k, ea) = mem_rd8(h, h.pc)
  BY OperandKinds DEF ByteOpcodes
<1>5. /\ opc \notin Opcodes1 => Fails(k, n)
      /\ opc = 63 => Interrupts(k, n)
      /\ opc \in {30, 31} =>
           IF HasRegisters(mem_rd8(k, ea)) THEN Internal(k, n) ELSE Crashes(k, n)
      /\ opc \in Opcodes1 \ {30, 31, 63} => Accesses(k, n, ea)
  BY <1>1, <1>2, <1>3, Page1Kinds
<1>6. /\ Executable(h, opc, Opcodes1) <=> opc \in Opcodes1 /\ known
      /\ 30 \in Opcodes1 /\ 31 \in Opcodes1 /\ 63 \in Opcodes1
  BY ByteRange DEF Executable, Opcodes1
<1>7. opc \in {30, 31, 63} => ~IsIndexed(opc)
  BY DEF IsIndexed
<1> HIDE DEF k, ea, known, n
<1>8. CASE known
  <2>1. Still(m, k, {}) /\ k.cc = m.cc
    BY <1>1, <1>8
  <2>2. CASE opc \notin Opcodes1
    <3>1. Fails(m, n)
      BY <2>1, <2>2, <1>5, KindsCarry
    <3> QED BY <3>1, <2>2, <1>6, KindsGoOn DEF Outcome, OfAKind, n, k, ea
  <2>3. CASE opc = 63
    <3>1. Interrupts(m, n)
      BY <2>1, <2>3, <1>5, KindsCarry
    <3> QED BY <3>1, <2>3, <1>6, <1>8, KindsGoOn DEF Outcome, OfAKind, n, k, ea
  <2>4. CASE opc \in {30, 31} /\ good
    <3>1. Internal(m, n)
      BY <2>1, <2>4, <1>4, <1>5, KindsCarry
    <3> QED BY <3>1, <2>4, <1>6, <1>8, KindsGoOn DEF Outcome, OfAKind, n, k, ea
  <2>5. CASE opc \in {30, 31} /\ ~good
    <3>1. Crashes(m, n)
      BY <2>1, <2>5, <1>4, <1>5, KindsCarry
    <3> QED BY <3>1, <2>5, <1>6, <1>8, KindsGoOn DEF Outcome, OfAKind, n, k, ea
  <2>6. CASE opc \in Opcodes1 \ {30, 31, 63}
    <3>1. Accesses(m, n, ea)
      BY <2>1, <2>6, <1>5, KindsCarry
    <3> QED BY <3>1, <2>6, <1>6, <1>8, KindsGoOn DEF Outcome, n, k, ea
  <2> QED BY <2>2, <2>3, <2>4, <2>5, <2>6
<1>9. CASE ~known
  <2>1. /\ Still(m, k, {"ok"}) /\ k.cc = m.cc /\ ~k.ok /\ opc \notin {30, 31, 63}
        /\ ea \notin {TIO_ADDR_RBR_THR, TIO_ADDR_IER}
    BY <1>1, <1>7, <1>9
  <2>2. Fails(k, n) \/ Internal(k, n)
    BY <2>1, <1>5 DEF Accesses
  <2>3. HasBadPost(m, n) \/ Fails(m, n)
    BY <2>1, <2>2, KindsAfterBadPost
  <2> QED BY <2>3, <1>6, <1>9, KindsGoOn DEF Outcome, OfAKind, n, k, ea
<1> QED BY <1>8, <1>9

(* Whatever is in memory and in the registers, what cpu_execop does to the *)
(* rest of the virtual machine is one of nine things: nothing, a read of   *)
(* the received character, a write of the next one, both, a write of the   *)
(* interrupt mask, the request of a software interrupt, or one of three    *)
(* ways to fail.  VmLoop takes the kinds of its instructions from here.    *)
(* The bytes that it reads one by one and the frames of the stacks have to *)
(* lie off the UART.                                                       *)
LEMMA EveryOutcome ==
  ASSUME NEW m, IsMachine(m), OffUart(m)
  PROVE  Outcome(m, cpu_execop(m), IsInstruction(m))
<1> DEFINE first  == Fetch(m)
           second == Fetch(first.m)
           next(k) == [k EXCEPT !.pc = Wrap(k.pc + 1)]
<1>1. /\ m.pc \in Word /\ TIO_ADDR_RBR_THR = 65280
      /\ m.pc \notin 65277..65280
  BY FieldsOfMachine DEF TIO_ADDR_RBR_THR, TIO_BASE_ADDRESS, OffUart
<1>2. /\ Wrap(m.pc + 1) # TIO_ADDR_RBR_THR /\ Wrap(Wrap(m.pc + 1) + 1) # TIO_ADDR_RBR_THR
      /\ Wrap(Wrap(Wrap(m.pc + 1) + 1) + 1) # TIO_ADDR_RBR_THR
  BY <1>1, WordRange DEF Wrap
<1>3. Apart(m.s) /\ Apart(m.u)
  BY DEF OffUart, Apart
<1>4. ASSUME NEW k, IsMachine(k), k.pc # TIO_ADDR_RBR_THR
      PROVE  LET h == Fetch(k).m
             IN  /\ IsMachine(h) /\ Fetch(k).val \in Byte /\ Still(k, h, {}) /\ h.cc = k.cc
                 /\ h.s = k.s /\ h.u = k.u /\ h.pc = Wrap(k.pc + 1)
  <2>1. Fetch(k).m = next(k)
    BY <1>4, FetchStill
  <2>2. /\ Still(k, next(k), {}) /\ next(k).cc = k.cc /\ next(k).s = k.s /\ next(k).u = k.u
        /\ next(k).pc = Wrap(k.pc + 1)
    BY <1>4, PcStill
  <2>3. IsMachine(Fetch(k).m) /\ Fetch(k).val \in Byte
    BY <1>4, FetchTypes
  <2> HIDE DEF next
  <2> QED BY <2>1, <2>2, <2>3
<1> HIDE DEF next
<1>5. /\ IsMachine(first.m) /\ first.val \in Byte /\ Still(m, first.m, {}) /\ first.m.cc = m.cc
      /\ first.m.s = m.s /\ first.m.u = m.u /\ first.m.pc = Wrap(m.pc + 1)
  BY <1>1, <1>4
<1>6. /\ IsMachine(second.m) /\ second.val \in Byte /\ Still(first.m, second.m, {})
      /\ second.m.cc = first.m.cc /\ second.m.pc = Wrap(Wrap(m.pc + 1) + 1)
  BY <1>2, <1>4, <1>5
<1>7. Still(m, second.m, {}) /\ second.m.cc = m.cc
  BY <1>5, <1>6 DEF Still
<1> HIDE DEF first, second
<1> DEFINE ea1 == _eafromopc(first.m, first.val)
           ea2 == _eafromopc(second.m, second.val)
<1>8. cpu_execop(m) =
        CASE first.val = op_page2 -> _execop_page2(ea2.m, second.val, ea2.val)
        [] first.val = op_page3 -> _execop_page3(ea2.m, second.val, ea2.val)
        [] OTHER -> ExecPage1(ea1.m, first.val, ea1.val)
  BY DEF cpu_execop, first, second
<1>9. IsInstruction(m) <=>
        CASE first.val = op_page2 -> Executable(second.m, second.val, Opcodes2)
        [] first.val = op_page3 -> Executable(second.m, second.val, Opcodes3)
        [] OTHER -> /\ Executable(first.m, first.val, Opcodes1)
                    /\ first.val \in {30, 31} => HasRegisters(mem_rd8(first.m, first.m.pc))
  BY DEF IsInstruction, first, second
<1>10. Outcome(m, ExecPage1(ea1.m, first.val, ea1.val),
               /\ Executable(first.m, first.val, Opcodes1)
               /\ first.val \in {30, 31} => HasRegisters(mem_rd8(first.m, first.m.pc)))
  BY <1>2, <1>3, <1>5, Page1Outcome
<1>11. /\ IsMachine(ea2.m) /\ ea2.val \in Word /\ ea2.m.cc = m.cc
       /\ LET known == IsIndexed(second.val) => HasMode(mem_rd8(second.m, second.m.pc))
          IN  /\ known => Still(m, ea2.m, {})
              /\ ~known => Still(m, ea2.m, {"ok"}) /\ ~ea2.m.ok /\ IsIndexed(second.val)
  BY <1>2, <1>6, <1>7, OperandKinds
<1>12. Outcome(m, _execop_page2(ea2.m, second.val, ea2.val),
               Executable(second.m, second.val, Opcodes2))
  <2>1. 63 \in Opcodes2
    BY ByteRange DEF Opcodes2
  <2> HIDE DEF ea2
  <2> QED BY <1>6, <1>11, <2>1, PlainOutcome, Page2Kinds
<1>13. Outcome(m, _execop_page3(ea2.m, second.val, ea2.val),
               Executable(second.m, second.val, Opcodes3))
  <2>1. 63 \in Opcodes3
    BY DEF Opcodes3
  <2> HIDE DEF ea2
  <2> QED BY <1>6, <1>11, <2>1, PlainOutcome, Page3Kinds
<1> HIDE DEF ea1, ea2
<1>14. op_page2 # op_page3
  BY DEF op_page2, op_page3
<1>15. CASE first.val = op_page2
  <2>1. /\ cpu_execop(m) = _execop_page2(ea2.m, second.val, ea2.val)
        /\ IsInstruction(m) <=> Executable(second.m, second.val, Opcodes2)
    BY <1>8, <1>9, <1>14, <1>15
  <2> QED BY <2>1, <1>12 DEF Outcome
<1>16. CASE first.val = op_page3
  <2>1. /\ cpu_execop(m) = _execop_page3(ea2.m, second.val, ea2.val)
        /\ IsInstruction(m) <=> Executable(second.m, second.val, Opcodes3)
    BY <1>8, <1>9, <1>14, <1>16
  <2> QED BY <2>1, <1>13 DEF Outcome
<1>17. CASE first.val # op_page2 /\ first.val # op_page3
  <2>1. /\ cpu_execop(m) = ExecPage1(ea1.m, first.val, ea1.val)
        /\ IsInstruction(m) <=> /\ Executable(first.m, first.val, Opcodes1)
                                /\ first.val \in {30, 31} => HasRegisters(mem_rd8(first.m, first.m.pc))
    BY <1>8, <1>9, <1>17
  <2> QED BY <2>1, <1>10 DEF Outcome
<1> QED BY <1>15, <1>16, <1>17

(* Whatever lies at pc: the instruction is of one of the nine kinds of     *)
(* VmLoop (vm6809.c knows no other way to the state around the CPU).       *)
THEOREM InstructionsAreOfAKind ==
  \A m : IsMachine(m) /\ OffUart(m) => OfAKind(m, cpu_execop(m))
BY EveryOutcome DEF Outcome

(* The machine fails exactly at the bytes that are no instruction: opcodes *)
(* without one, post-bytes without a mode, numbers without a register.     *)
THEOREM OnlyInstructionsSucceed ==
  \A m : IsMachine(m) /\ OffUart(m) /\ m.ok => (cpu_execop(m).ok <=> IsInstruction(m))
BY EveryOutcome DEF Outcome

(* Taking a request changes, besides the registers, the requests alone.    *)
THEOREM InterruptsTakeRequests ==
  ASSUME NEW m, IsMachine(m), Apart(m.s)
  PROVE  LET n == cpu_execirq(m)
         IN  /\ Still(m, n, {"irq"}) /\ n.irq = IrqAfterService(m.irq, m.cc) /\ Unmasked(m, n)
             /\ Deliverable(m.irq, m.cc) = {} => n = m
<1> DEFINE rest == IrqAfterService(m.irq, m.cc)
           n    == [m EXCEPT !.irq = rest]
           into(machine) == [machine EXCEPT !.pc = mem_rd16(machine, Vector(Serviced(m.irq, m.cc)))]
           Takes(k) == IsMachine(k) /\ Still(n, k, {}) /\ Unmasked(m, k)
<1>1. CASE Deliverable(m.irq, m.cc) = {}
  <2>1. cpu_execirq(m) = m /\ rest = m.irq
    BY <1>1 DEF cpu_execirq, IrqAfterService
  <2> QED BY <2>1 DEF Still, Unmasked
<1>2. CASE Deliverable(m.irq, m.cc) # {}
  <2>1. IsMachine(n)
    <3>1. rest \in SUBSET IrqFlag
      BY FieldsOfMachine DEF IrqAfterService
    <3> HIDE DEF rest
    <3> QED BY <3>1, PutSets
  <2>2. /\ Still(m, n, {"irq"}) /\ n.irq = rest /\ n.cc = m.cc /\ n.s = m.s
        /\ "dp" \in DOMAIN n
    <3> HIDE DEF rest
    <3> QED BY FieldsThere DEF IsMachine, Still, Shared
  <2> HIDE DEF n
  <2>3. ASSUME NEW codes, codes \cap Masks = m.cc \cap Masks,
               IsMachine([n EXCEPT !.cc = codes]), NEW regs
        PROVE  Takes(_pushregs([n EXCEPT !.cc = codes], regs, "s", "u"))
    <3> DEFINE k == [n EXCEPT !.cc = codes]
               p == _pushregs(k, regs, "s", "u")
    <3>1. Still(n, k, {}) /\ k.cc = codes
      BY <2>1, SetCcStill, FieldsThere
    <3>2. k.s = n.s
      BY <2>1 DEF IsMachine
    <3>3. IsMachine(k)
      BY <2>3
    <3> HIDE DEF k
    <3>4. Still(k, p, {}) /\ p.cc = k.cc
      BY <2>2, <3>2, <3>3, PushRegsStill
    <3>5. IsMachine(p)
      BY <3>3, PushRegsTypes
    <3>6. Still(n, p, {})
      BY <3>1, <3>4, StillAgain
    <3>7. p.cc \cap Masks = m.cc \cap Masks
      BY <2>3, <3>1, <3>4
    <3>8. Unmasked(m, p)
      BY <3>7, UnmaskedByCc
    <3> QED BY <3>5, <3>6, <3>8 DEF k
  <2>4. Takes(_pushfast(n)) /\ Takes(_pushstate(n))
    <3>1. /\ (n.cc \ {cc_e}) \cap Masks = m.cc \cap Masks
          /\ (n.cc \cup {cc_e}) \cap Masks = m.cc \cap Masks
      BY <2>2 DEF Masks, cc_e, cc_f, cc_i
    <3>2. /\ IsMachine([n EXCEPT !.cc = n.cc \ {cc_e}])
          /\ IsMachine([n EXCEPT !.cc = n.cc \cup {cc_e}])
      <4>1. n.cc \ {cc_e} \in SUBSET CcFlag /\ n.cc \cup {cc_e} \in SUBSET CcFlag
        BY <2>1, FieldsOfMachine DEF CcFlag
      <4> QED BY <2>1, <4>1, PutSets
    <3>3. Takes(_pushregs([n EXCEPT !.cc = n.cc \ {cc_e}], rn_fast, "s", "u"))
      BY <2>3, <3>1, <3>2
    <3>4. Takes(_pushregs([n EXCEPT !.cc = n.cc \cup {cc_e}], rn_entire, "s", "u"))
      BY <2>3, <3>1, <3>2
    <3> QED BY <3>3, <3>4 DEF _pushfast, _pushstate
  <2>5. Takes([n EXCEPT !.dp = 0])
    <3>1. IsMachine([n EXCEPT !.dp = 0])
      <4>1. 0 \in Byte
        BY ByteRange
      <4> QED BY <2>1, <4>1, Put8
    <3>2. Still(n, [n EXCEPT !.dp = 0], {}) /\ [n EXCEPT !.dp = 0].cc = n.cc
      BY <2>2 DEF Still, Shared
    <3>3. Unmasked(m, [n EXCEPT !.dp = 0])
      BY <2>2, <3>2 DEF Unmasked
    <3> QED BY <3>1, <3>2, <3>3
  <2>6. ASSUME NEW k, Takes(k) PROVE Still(n, into(k), {}) /\ Unmasked(m, into(k))
    <3> DEFINE value == mem_rd16(k, Vector(Serviced(m.irq, m.cc)))
               h == [k EXCEPT !.pc = value]
    <3> HIDE DEF value
    <3>1. Still(k, h, {}) /\ h.cc = k.cc
      BY <2>6, PcStill
    <3> HIDE DEF h
    <3>2. Still(n, h, {}) /\ Unmasked(m, h)
      BY <2>6, <3>1 DEF Still, Unmasked
    <3> QED BY <3>2 DEF h, value
  <2>7. cpu_execirq(m) \in {into([n EXCEPT !.dp = 0]), into(_pushfast(n)), into(_pushstate(n))}
    BY <1>2 DEF cpu_execirq, n
  <2> HIDE DEF Takes, into
  <2>8. Still(n, cpu_execirq(m), {}) /\ Unmasked(m, cpu_execirq(m))
    BY <2>4, <2>5, <2>6, <2>7
  <2> HIDE DEF rest
  <2>9. Still(m, cpu_execirq(m), {"irq"}) /\ cpu_execirq(m).irq = rest
    BY <2>2, <2>8 DEF Still, Shared
  <2> QED BY <1>2, <2>8, <2>9 DEF rest
<1> QED BY <1>1, <1>2

-----------------------------------------------------------------------------
(***************************************************************************)
(* What an instruction leaves on the stack.                                *)
(***************************************************************************)

(* From m to n S is the same, E still set if it was, and every byte from S *)
(* up to the UART what it was.                                             *)
LeavesStack(m, n) ==
  /\ n.s = m.s
  /\ cc_e \in m.cc => cc_e \in n.cc
  /\ \A addr \in Int : m.s <= addr /\ addr < TIO_BASE_ADDRESS => Cell(n, addr) = Cell(m, addr)

(* The instructions for which S is an operand, or a stack. *)
StackOpcodes == {23, 141, 157, 173, 189, 50, 52, 53, 54, 55, 57, 59}
LoadsStack   == {206, 222, 238, 254}  \* LDS, of the second page
Stores       == {151, 167, 183, 215, 231, 247, 159, 175, 191, 221, 237, 253, 223, 239, 255}
Writes(opc)  ==
  opc \in Stores \/ (opc \div 16 \in {0, 6, 7} /\ Nibble(opc) \in Modifications)

(* ,S+ ,S++ ,-S and ,--S *)
MovesStack(post) == post >= 128 /\ post % 16 \in 0..3 /\ (post \div 32) % 4 = 3

(* Neither does the operand of opc move S nor does opc write to the stack. *)
(* m is the machine at the operand.                                        *)
IsTame(m, opc) ==
  /\ IsIndexed(opc) => ~MovesStack(mem_rd8(m, m.pc))
  /\ Writes(opc) => _eafromopc(m, opc).val \notin (m.s - 1)..(TIO_BASE_ADDRESS - 1)

(* The instruction at pc is none that could disturb the stack: neither one *)
(* of those above, nor an ANDCC that clears E, nor a transfer to or from   *)
(* S or cc.                                                                *)
SparesStack(m) ==
  LET first  == Fetch(m)
      second == Fetch(first.m)
  IN  CASE first.val = op_page2 -> IsTame(second.m, second.val) /\ second.val \notin LoadsStack
        [] first.val = op_page3 -> IsTame(second.m, second.val)
        [] OTHER -> LET post == mem_rd8(first.m, first.m.pc)
                    IN  /\ IsTame(first.m, first.val) /\ first.val \notin StackOpcodes
                        /\ first.val = 28 => cc_e \in Bits(post)
                        /\ first.val \in {30, 31} =>
                             {_register(post \div 16), _register(post % 16)} \cap {"s", "cc"} = {}

Preserved == {"s", "cc", "mem"}

LEMMA LeavesAgain ==
  ASSUME NEW m, NEW k, NEW n, LeavesStack(m, k), LeavesStack(k, n) PROVE LeavesStack(m, n)
BY DEF LeavesStack

LEMMA LeavesAlike ==
  ASSUME NEW m, NEW n, n.s = m.s, n.cc = m.cc, n.mem = m.mem PROVE LeavesStack(m, n)
BY DEF LeavesStack, Cell

LEMMA FieldLeaves ==
  ASSUME NEW m, Preserved \subseteq DOMAIN m, NEW field, field \notin Preserved, NEW value
  PROVE  LeavesStack(m, [m EXCEPT ![field] = value])
<1> DEFINE n == [m EXCEPT ![field] = value]
<1>1. n.s = m.s /\ n.cc = m.cc /\ n.mem = m.mem
  BY DEF Preserved
<1> HIDE DEF n
<1> QED BY <1>1, LeavesAlike DEF n

LEMMA CcLeaves ==
  ASSUME NEW m, Preserved \subseteq DOMAIN m, NEW codes, cc_e \in m.cc => cc_e \in codes
  PROVE  LeavesStack(m, [m EXCEPT !.cc = codes])
<1> DEFINE n == [m EXCEPT !.cc = codes]
<1>1. n.s = m.s /\ n.cc = codes /\ n.mem = m.mem
  BY DEF Preserved
<1> HIDE DEF n
<1> QED BY <1>1 DEF LeavesStack, Cell, n

LEMMA PreservedThere ==
  ASSUME NEW m, IsMachine(m) PROVE Preserved \subseteq DOMAIN m
BY DEF IsMachine, Preserved

LEMMA PutLeaves ==
  ASSUME NEW m, Preserved \subseteq DOMAIN m, NEW reg, reg \notin Preserved, NEW value
  PROVE  LeavesStack(m, Put(m, reg, value))
<1>1. CASE reg = "d"
  <2> DEFINE k == [m EXCEPT !.a = value \div 256]
             n == [k EXCEPT !.b = value % 256]
  <2>1. Put(m, reg, value) = n
    BY <1>1 DEF Put
  <2>2. "a" \notin Preserved /\ "b" \notin Preserved /\ Preserved \subseteq DOMAIN k
    BY DEF Preserved
  <2>3. LeavesStack(m, k)
    BY <2>2, FieldLeaves
  <2>4. LeavesStack(k, n)
    <3> HIDE DEF k
    <3> QED BY <2>2, FieldLeaves
  <2> HIDE DEF k, n
  <2> QED BY <2>1, <2>3, <2>4, LeavesAgain
<1>2. CASE reg # "d"
  <2>1. Put(m, reg, value) = [m EXCEPT ![reg] = value]
    BY <1>2 DEF Put, Preserved
  <2>2. LeavesStack(m, [m EXCEPT ![reg] = value])
    BY FieldLeaves
  <2> QED BY <2>1, <2>2
<1> QED BY <1>1, <1>2

LEMMA ReadLeaves ==
  ASSUME NEW m, IsMachine(m), NEW addr
  PROVE  LeavesStack(m, AfterRd8(m, addr)) /\ AfterRd8(m, addr).cc = m.cc
<1>1. LeavesStack(m, m)
  BY LeavesAlike
<1>2. "lsr" \notin Preserved /\ Preserved \subseteq DOMAIN m
  BY PreservedThere DEF Preserved
<1>3. LeavesStack(m, [m EXCEPT !.lsr = tio_read_rbr(m.lsr)])
  BY <1>2, FieldLeaves
<1>4. [m EXCEPT !.lsr = tio_read_rbr(m.lsr)].cc = m.cc
  BY <1>2 DEF Preserved
<1> QED BY <1>1, <1>3, <1>4 DEF AfterRd8

LEMMA PcLeaves ==
  ASSUME NEW m, IsMachine(m), NEW value PROVE LeavesStack(m, [m EXCEPT !.pc = value])
<1>1. "pc" \notin Preserved /\ Preserved \subseteq DOMAIN m
  BY PreservedThere DEF Preserved
<1> QED BY <1>1, FieldLeaves

LEMMA FetchLeaves ==
  ASSUME NEW m, IsMachine(m)
  PROVE  LeavesStack(m, Fetch(m).m) /\ LeavesStack(m, Fetch16(m).m)
<1> DEFINE k == AfterRd8(m, m.pc)
<1>1. LeavesStack(m, k) /\ IsMachine(k)
  BY ReadLeaves, ReadTypes
<1>2. Fetch(m).m = [k EXCEPT !.pc = Wrap(k.pc + 1)]
  BY DEF Fetch
<1> HIDE DEF k
<1>3. LeavesStack(k, [k EXCEPT !.pc = Wrap(k.pc + 1)])
  BY <1>1, PcLeaves
<1>4. LeavesStack(m, Fetch(m).m)
  BY <1>1, <1>2, <1>3, LeavesAgain
<1>5. LeavesStack(m, Fetch16(m).m)
  BY PcLeaves DEF Fetch16
<1> QED BY <1>4, <1>5

LeavesBy(out, m) == LeavesStack(m, out.m)

LEMMA IndexedLeaves ==
  ASSUME NEW m, IsMachine(m), NEW post \in Byte, ~MovesStack(post)
  PROVE  LeavesStack(m, IndexedBase(m, post).m)
<1> DEFINE reg == <<"x", "y", "u", "s">>[((post \div 32) % 4) + 1]
           at(ofs) == [val |-> Wrap(m[reg] + ofs), m |-> m]
           step(by) == [m EXCEPT ![reg] = Wrap(@ + by)]
           byte == Fetch(m)
           word == Fetch16(m)
           past == [m EXCEPT !.pc = Wrap(@ + 1)]
           mode == post % 16
<1>1. ~(post < 128) /\ mode \in 0..3 => reg \notin Preserved
  <2>1. ((post \div 32) % 4) + 1 \in 1..4
    BY ByteRange
  <2>2. ~(post < 128) /\ mode \in 0..3 => ((post \div 32) % 4) + 1 # 4
    BY <2>1, ByteRange DEF MovesStack
  <2>3. ~(post < 128) /\ mode \in 0..3 => reg \in {"x", "y", "u"}
    BY <2>1, <2>2
  <2> HIDE DEF reg, mode
  <2> QED BY <2>3 DEF Preserved
<1>2. /\ IndexedBase(m, post) =
        IF post < 128 THEN at(_sext816(_sext58(post)))
        ELSE CASE mode = 0  -> [val |-> m[reg], m |-> step(1)]
               [] mode = 1  -> [val |-> m[reg], m |-> step(2)]
               [] mode = 2  -> [val |-> step(-1)[reg], m |-> step(-1)]
               [] mode = 3  -> [val |-> step(-2)[reg], m |-> step(-2)]
               [] mode = 4  -> at(0)
               [] mode = 5  -> at(_sext816(m.b))
               [] mode = 6  -> at(_sext816(m.a))
               [] mode = 8  -> [val |-> Wrap(m[reg] + _sext816(byte.val)), m |-> byte.m]
               [] mode = 9  -> [val |-> Wrap(m[reg] + word.val), m |-> past]
               [] mode = 11 -> at(Get(m, "d"))
               [] mode = 12 -> [val |-> Wrap(byte.m.pc + _sext816(byte.val)), m |-> byte.m]
               [] mode = 13 -> [val |-> Wrap(word.m.pc + word.val), m |-> word.m]
               [] mode = 15 -> word
               [] OTHER     -> Inherent([m EXCEPT !.ok = FALSE])
  BY DEF IndexedBase, reg
<1> HIDE DEF reg
<1>3. ASSUME NEW val, NEW by, reg \notin Preserved PROVE LeavesBy([val |-> val, m |-> step(by)], m)
  <2>1. LeavesStack(m, step(by))
    BY <1>3, PreservedThere, FieldLeaves
  <2> HIDE DEF step
  <2> QED BY <2>1 DEF LeavesBy
<1>4. ASSUME NEW ofs PROVE LeavesBy(at(ofs), m)
  BY LeavesAlike DEF LeavesBy
<1>5. ASSUME NEW val
      PROVE  /\ LeavesBy([val |-> val, m |-> byte.m], m) /\ LeavesBy([val |-> val, m |-> word.m], m)
             /\ LeavesBy([val |-> val, m |-> past], m)
  <2>1. LeavesStack(m, byte.m) /\ LeavesStack(m, word.m)
    BY FetchLeaves
  <2>2. LeavesStack(m, past)
    BY PcLeaves
  <2> HIDE DEF byte, word, past
  <2> QED BY <2>1, <2>2 DEF LeavesBy
<1>6. LeavesBy(word, m) /\ LeavesBy(Inherent([m EXCEPT !.ok = FALSE]), m)
  <2>1. "ok" \notin Preserved
    BY DEF Preserved
  <2>2. LeavesStack(m, [m EXCEPT !.ok = FALSE])
    BY <2>1, PreservedThere, FieldLeaves
  <2> QED BY <2>2, FetchLeaves DEF Inherent, LeavesBy
<1>7. mode \in 0..15
  BY ByteRange
<1> HIDE DEF at, step, byte, word, past, mode
<1>8. CASE post < 128 \/ mode \in 4..15
  <2>1. post < 128 \/ mode \in {4, 5, 6, 7, 8, 9, 10, 11, 12, 13, 14, 15}
    BY <1>8
  <2> QED BY <1>2, <1>4, <1>5, <1>6, <2>1 DEF LeavesBy
<1>9. CASE ~(post < 128) /\ mode \in 0..3
  <2>1. reg \notin Preserved
    BY <1>1, <1>9
  <2>2. mode \in {0, 1, 2, 3}
    BY <1>9
  <2> QED BY <1>2, <1>3, <1>9, <2>1, <2>2 DEF LeavesBy
<1> QED BY <1>7, <1>8, <1>9

LEMMA OperandLeaves ==
  ASSUME NEW m, IsMachine(m), NEW opc \in Byte,
         IsIndexed(opc) => ~MovesStack(mem_rd8(m, m.pc))
  PROVE  LeavesStack(m, _eafromopc(m, opc).m)
<1> DEFINE out == _eafromopc(m, opc)
<1>1. LeavesStack(m, m) /\ LeavesStack(m, Fetch(m).m) /\ LeavesStack(m, Fetch16(m).m)
  BY LeavesAlike, FetchLeaves
<1>2. CASE IsIndexed(opc)
  <2> DEFINE post == Fetch(m)
             base == IndexedBase(post.m, post.val)
  <2>1. out = _eaindexed(m)
    <3>1. \/ opc \div 16 \in {6, 10, 14}
          \/ opc \div 16 = 3 /\ opc % 16 \in 0..3
      BY <1>2, ByteRange DEF IsIndexed
    <3> QED BY <3>1 DEF _eafromopc
  <2>2. IsMachine(post.m) /\ post.val \in Byte /\ ~MovesStack(post.val)
    BY <1>2, FetchTypes DEF Fetch
  <2>3. _eaindexed(m).m = base.m
    BY DEF _eaindexed
  <2>4. LeavesStack(post.m, base.m)
    BY <2>2, IndexedLeaves
  <2> HIDE DEF base
  <2> QED BY <1>1, <2>1, <2>3, <2>4, LeavesAgain
<1>3. CASE ~IsIndexed(opc)
  <2>1. out \in {_eadirect(m), Inherent(m), _earelative(m, 1), _earelative(m, 2),
                 Fetch16(m), _eaimmediate(m, 1), _eaimmediate(m, 2)}
    <3>1. /\ opc \div 16 \notin {6, 10, 14}
          /\ ~(opc \div 16 = 3 /\ opc % 16 \in 0..3)
      BY <1>3, ByteRange DEF IsIndexed
    <3> QED BY <3>1 DEF _eafromopc, _eaextended
  <2>2. LeavesStack(m, _eadirect(m).m) /\ LeavesStack(m, Inherent(m).m)
    <3>1. _eadirect(m).m = Fetch(m).m
      BY DEF _eadirect, Fetch
    <3> QED BY <1>1, <3>1 DEF Inherent
  <2>3. ASSUME NEW n \in {1, 2}
        PROVE  LeavesStack(m, _earelative(m, n).m) /\ LeavesStack(m, _eaimmediate(m, n).m)
    <3>1. LeavesStack(m, [m EXCEPT !.pc = Wrap(m.pc + n)])
      BY PcLeaves
    <3> DEFINE k == AfterRd8(m, m.pc)
    <3>2. LeavesStack(m, k) /\ IsMachine(k)
      BY ReadLeaves, ReadTypes
    <3>3. _earelative(m, n).m \in {[m EXCEPT !.pc = Wrap(m.pc + n)], [k EXCEPT !.pc = Wrap(k.pc + n)]}
      BY DEF _earelative
    <3> HIDE DEF k
    <3>4. LeavesStack(k, [k EXCEPT !.pc = Wrap(k.pc + n)])
      BY <3>2, PcLeaves
    <3> QED BY <3>1, <3>2, <3>3, <3>4, LeavesAgain DEF _eaimmediate
  <2> HIDE DEF out
  <2> QED BY <1>1, <2>1, <2>2, <2>3 DEF out
<1> QED BY <1>2, <1>3

-----------------------------------------------------------------------------
(* The groups of instructions. *)
LEMMA EntireKept ==
  ASSUME NEW codes, NEW then, then \cap Kept = codes \cap Kept
  PROVE  cc_e \in codes => cc_e \in then
BY DEF Kept

LEMMA WideKept ==
  ASSUME NEW codes, NEW a, NEW b
  PROVE  /\ _addf16(codes, a, b).cc \cap Kept = codes \cap Kept
         /\ _subf16(codes, a, b).cc \cap Kept = codes \cap Kept
         /\ _flags_z16(codes, a) \cap Kept = codes \cap Kept
         /\ _decadja(codes, a).cc \cap Kept = codes \cap Kept
<1>1. {cc_n, cc_z, cc_c, cc_v} \cap Kept = {} /\ {cc_z} \cap Kept = {}
  BY DEF Kept, Masks, cc_n, cc_z, cc_v, cc_c, cc_e, cc_f, cc_i
<1>2. ASSUME NEW p, NEW q, NEW r, NEW s
      PROVE  (When(p, cc_n) \cup When(q, cc_z) \cup When(r, cc_c) \cup When(s, cc_v)) \cap Kept = {}
  <2>1. /\ When(p, cc_n) \cap Kept = {} /\ When(q, cc_z) \cap Kept = {}
        /\ When(r, cc_c) \cap Kept = {} /\ When(s, cc_v) \cap Kept = {}
    BY WhenKept
  <2> QED BY <2>1
<1>3. _addf16(codes, a, b).cc \cap Kept = codes \cap Kept
  <2> DEFINE res == a + b
             on  == When(_nsign16(res), cc_n) \cup When(res % 65536 = 0, cc_z)
                      \cup When(_carry16(res), cc_c)
                      \cup When((_nsign16(a) <=> _nsign16(b)) /\ ~(_nsign16(a) <=> _nsign16(res)), cc_v)
  <2>1. on \cap Kept = {}
    BY <1>2
  <2>2. _addf16(codes, a, b).cc = Affect(codes, {cc_n, cc_z, cc_c, cc_v}, on)
    BY DEF _addf16
  <2> HIDE DEF on
  <2> QED BY <1>1, <2>1, <2>2, AffectKept
<1>4. _subf16(codes, a, b).cc \cap Kept = codes \cap Kept
  <2> DEFINE res == (a - b) % 131072
             on  == When(_nsign16(res), cc_n) \cup When(res % 65536 = 0, cc_z)
                      \cup When(_carry16(res), cc_c)
                      \cup When(~(_nsign16(a) <=> _nsign16(b)) /\ ~(_nsign16(a) <=> _nsign16(res)), cc_v)
  <2>1. on \cap Kept = {}
    BY <1>2
  <2>2. _subf16(codes, a, b).cc = Affect(codes, {cc_n, cc_z, cc_c, cc_v}, on)
    BY DEF _subf16
  <2> HIDE DEF on
  <2> QED BY <1>1, <2>1, <2>2, AffectKept
<1>5. _flags_z16(codes, a) \cap Kept = codes \cap Kept
  <2>1. When(a = 0, cc_z) \cap Kept = {}
    BY WhenKept
  <2> QED BY <1>1, <2>1, AffectKept DEF _flags_z16
<1>6. _decadja(codes, a).cc \cap Kept = codes \cap Kept
  <2>1. ASSUME NEW value, NEW p
        PROVE  (_flags_nz_v8(codes, value) \cup When(p, cc_c)) \cap Kept = codes \cap Kept
    <3>1. When(p, cc_c) \cap Kept = {}
      BY WhenKept
    <3>2. _flags_nz_v8(codes, value) \cap Kept = codes \cap Kept
      BY SizedKept
    <3> QED BY <3>1, <3>2
  <2> QED BY <2>1 DEF _decadja
<1> QED BY <1>3, <1>4, <1>5, <1>6

LEMMA PutOutLeaves ==
  ASSUME NEW m, Preserved \subseteq DOMAIN m, NEW reg, reg \notin Preserved, NEW out,
         out.cc \cap Kept = m.cc \cap Kept
  PROVE  LeavesStack(m, PutOut(m, reg, out))
<1> DEFINE k == [m EXCEPT !.cc = out.cc]
<1>1. LeavesStack(m, k)
  BY EntireKept, CcLeaves
<1>2. Preserved \subseteq DOMAIN k
  OBVIOUS
<1> HIDE DEF k
<1>3. LeavesStack(k, Put(k, reg, out.val))
  BY <1>2, PutLeaves
<1> QED BY <1>1, <1>3, LeavesAgain DEF PutOut, k

(* A write above the UART or below the stack, of one byte and of two. *)
Beside(m, ea) == ea \notin (m.s - 1)..(TIO_BASE_ADDRESS - 1)

LEMMA StoreLeaves ==
  ASSUME NEW m, IsMachine(m), NEW addr \in Int, ~(m.s <= addr /\ addr < TIO_BASE_ADDRESS), NEW data
  PROVE  LeavesStack(m, Store(m, addr, data)) /\ Store(m, addr, data).cc = m.cc
<1>1. Store(m, addr, data).s = m.s /\ Store(m, addr, data).cc = m.cc
  BY StoreReads DEF Field, Register16
<1>2. \A cell : Cell(Store(m, addr, data), cell) = IF cell = addr THEN data ELSE Cell(m, cell)
  BY StoreReads
<1> DEFINE n == Store(m, addr, data)
<1> HIDE DEF n
<1> QED BY <1>1, <1>2 DEF LeavesStack, n

LEMMA WriteLeaves ==
  ASSUME NEW m, IsMachine(m), NEW ea \in Word, Beside(m, ea), NEW data
  PROVE  LeavesStack(m, mem_wr8(m, ea, data)) /\ mem_wr8(m, ea, data).cc = m.cc
<1> DEFINE k == Store(m, ea, data)
<1>1. LeavesStack(m, k) /\ k.cc = m.cc /\ Preserved \subseteq DOMAIN k
  <2>1. ~(m.s <= ea /\ ea < TIO_BASE_ADDRESS)
    BY FieldsOfMachine, WordRange DEF Beside, TIO_BASE_ADDRESS
  <2>2. LeavesStack(m, k) /\ k.cc = m.cc
    BY <2>1, StoreLeaves, WordRange
  <2>3. DOMAIN k = DOMAIN m
    BY DEF Store
  <2> QED BY <2>2, <2>3, PreservedThere
<1>2. ASSUME NEW n, Preserved \subseteq DOMAIN n, NEW field \in {"ier", "lsr", "thr", "lcr"}, NEW value
      PROVE  /\ LeavesStack(n, [n EXCEPT ![field] = value]) /\ [n EXCEPT ![field] = value].cc = n.cc
             /\ Preserved \subseteq DOMAIN [n EXCEPT ![field] = value]
  <2>1. field \notin Preserved
    BY DEF Preserved
  <2> QED BY <1>2, <2>1, FieldLeaves DEF Preserved
<1>3. Preserved \subseteq DOMAIN m
  BY PreservedThere
<1>4. LeavesStack(m, m)
  BY LeavesAlike
<1>5. /\ TIO_ADDR_RBR_THR = 65280 /\ TIO_ADDR_LSR = 65281 /\ TIO_ADDR_IER = 65282
       /\ TIO_ADDR_IIR = 65283 /\ TIO_ADDR_LCR = 65284
  BY DEF TIO_ADDR_RBR_THR, TIO_ADDR_LSR, TIO_ADDR_IER, TIO_ADDR_IIR, TIO_ADDR_LCR,
         TIO_BASE_ADDRESS
<1>6. CASE ea = TIO_ADDR_RBR_THR
  <2> DEFINE t == [m EXCEPT !.thr = data]
             n == [t EXCEPT !.lsr = tio_write_thr(m.lsr)]
  <2>1. mem_wr8(m, ea, data) = n
    <3>1. mem_wr8(m, ea, data) = [m EXCEPT !.thr = data, !.lsr = tio_write_thr(@)]
      BY <1>6, <1>5 DEF mem_wr8
    <3>2. [m EXCEPT !.thr = data, !.lsr = tio_write_thr(@)] = n
      BY DEF IsMachine
    <3> QED BY <3>1, <3>2
  <2>2. LeavesStack(m, t) /\ t.cc = m.cc /\ Preserved \subseteq DOMAIN t
    BY <1>2, <1>3
  <2> HIDE DEF t
  <2>3. LeavesStack(t, n) /\ n.cc = t.cc
    BY <1>2, <2>2
  <2> HIDE DEF n
  <2> QED BY <2>1, <2>2, <2>3, LeavesAgain
<1>7. CASE ea = TIO_ADDR_IER
  <2>1. mem_wr8(m, ea, data) = [m EXCEPT !.ier = Bits(data)]
    BY <1>5, <1>7 DEF mem_wr8
  <2> QED BY <1>2, <1>3, <2>1
<1>8. CASE ea = TIO_ADDR_LCR
  <2> DEFINE n == [k EXCEPT !.lcr = data]
  <2>1. mem_wr8(m, ea, data) = n
    BY <1>5, <1>8 DEF mem_wr8
  <2> HIDE DEF k
  <2>2. LeavesStack(k, n) /\ n.cc = k.cc
    BY <1>1, <1>2
  <2> HIDE DEF n
  <2> QED BY <1>1, <2>1, <2>2, LeavesAgain
<1>9. CASE ea \notin {TIO_ADDR_RBR_THR, TIO_ADDR_IER, TIO_ADDR_LCR}
  <2>1. mem_wr8(m, ea, data) \in {m, k}
    BY <1>9 DEF mem_wr8
  <2> QED BY <1>1, <1>4, <2>1
<1> QED BY <1>6, <1>7, <1>8, <1>9

LEMMA WideWriteLeaves ==
  ASSUME NEW m, IsMachine(m), NEW ea \in Word, Beside(m, ea), NEW data \in Word
  PROVE  LeavesStack(m, mem_wr16(m, ea, data))
<1> DEFINE k == Store(m, ea, data \div 256)
           n == Store(k, ea + 1, data % 256)
<1>1. ~(m.s <= ea /\ ea < TIO_BASE_ADDRESS) /\ ~(m.s <= ea + 1 /\ ea + 1 < TIO_BASE_ADDRESS)
  BY FieldsOfMachine, WordRange DEF Beside, TIO_BASE_ADDRESS
<1>2. LeavesStack(m, k)
  BY <1>1, StoreLeaves, WordRange
<1>3. IsMachine(k)
  <2>1. data \div 256 \in Byte /\ ea \in Cells
    BY ByteRange, WordRange, CellRange
  <2> QED BY <2>1, StoreTypes
<1> HIDE DEF k
<1>4. LeavesStack(k, n)
  <2>1. k.s = m.s
    BY <1>2 DEF LeavesStack
  <2> QED BY <1>1, <1>3, <2>1, StoreLeaves, WordRange
<1> HIDE DEF n
<1> QED BY <1>2, <1>4, LeavesAgain DEF mem_wr16, n, k

LEMMA WithCcLeaves ==
  ASSUME NEW m, IsMachine(m), NEW n, Preserved \subseteq DOMAIN n, LeavesStack(m, n), NEW codes,
         n.cc = m.cc, codes \cap Kept = m.cc \cap Kept
  PROVE  LeavesStack(m, WithCc(n, codes))
<1>1. LeavesStack(n, [n EXCEPT !.cc = codes])
  BY EntireKept, CcLeaves
<1> QED BY <1>1, LeavesAgain DEF WithCc

LEMMA Operation8Leaves ==
  ASSUME NEW m, IsMachine(m), NEW opc, Nibble(opc) \in Operations8, NEW ea
  PROVE  LeavesStack(m, ExecOperation8(m, opc, ea))
<1> DEFINE reg == Accumulator(opc)
           k   == AfterRd8(m, ea)
           out == Operate8(Nibble(opc), m.cc, m[reg], mem_rd8(m, ea))
           n   == ExecOperation8(m, opc, ea)
<1>1. n = IF Nibble(opc) \in {1, 5} THEN WithCc(k, out.cc) ELSE PutOut(k, reg, out)
  BY DEF ExecOperation8
<1>2. out.cc \cap Kept = m.cc \cap Kept
  BY ResultKept
<1>3. reg \notin Preserved
  BY AccumulatorIsRegister DEF Register8, Preserved
<1>4. Preserved \subseteq DOMAIN k /\ LeavesStack(m, k) /\ k.cc = m.cc
  BY ReadTypes, PreservedThere, ReadLeaves
<1> HIDE DEF k, out, reg, n
<1>5. LeavesStack(m, WithCc(k, out.cc))
  BY <1>2, <1>4, WithCcLeaves
<1>6. LeavesStack(m, PutOut(k, reg, out))
  BY <1>2, <1>3, <1>4, PutOutLeaves, LeavesAgain
<1> QED BY <1>1, <1>5, <1>6 DEF n

LEMMA Store8Leaves ==
  ASSUME NEW m, IsMachine(m), NEW opc, NEW ea \in Word, Beside(m, ea)
  PROVE  LeavesStack(m, ExecStore8(m, opc, ea))
<1> DEFINE value == m[Accumulator(opc)]
           n == mem_wr8(m, ea, value)
<1>1. LeavesStack(m, n) /\ n.cc = m.cc
  BY WriteLeaves
<1>2. Preserved \subseteq DOMAIN n
  BY PreservedThere DEF mem_wr8, Store
<1>3. _flags_nz_v8(m.cc, value) \cap Kept = m.cc \cap Kept
  BY SizedKept
<1> HIDE DEF n, value
<1>4. LeavesStack(m, WithCc(n, _flags_nz_v8(m.cc, value)))
  BY <1>1, <1>2, <1>3, WithCcLeaves
<1> QED BY <1>4 DEF ExecStore8, n, value

LEMMA ModifyMemLeaves ==
  ASSUME NEW m, IsMachine(m), NEW opc, Nibble(opc) \in Modifications, NEW ea \in Word, Beside(m, ea)
  PROVE  LeavesStack(m, ExecModifyMem(m, opc, ea))
<1> DEFINE k   == IF Nibble(opc) = 15 THEN m ELSE AfterRd8(m, ea)
           out == Modify(Nibble(opc), m.cc, mem_rd8(m, ea))
           n   == mem_wr8(k, ea, out.val)
<1>1. out.cc \cap Kept = m.cc \cap Kept
  BY ResultKept
<1>2. ExecModifyMem(m, opc, ea) = WithCc(n, out.cc)
  BY DEF ExecModifyMem
<1>3. IsMachine(k) /\ LeavesStack(m, k) /\ k.cc = m.cc
  BY ReadTypes, ReadLeaves, LeavesAlike
<1> HIDE DEF k, out
<1>4. Beside(k, ea)
  BY <1>3 DEF LeavesStack, Beside
<1>5. LeavesStack(m, n) /\ n.cc = m.cc
  BY <1>3, <1>4, WriteLeaves, LeavesAgain
<1>6. Preserved \subseteq DOMAIN n
  BY <1>3, PreservedThere DEF mem_wr8, Store
<1> HIDE DEF n
<1> QED BY <1>1, <1>2, <1>5, <1>6, WithCcLeaves

LEMMA ModifyRegLeaves ==
  ASSUME NEW m, IsMachine(m), NEW opc, Nibble(opc) \in Modifications
  PROVE  LeavesStack(m, ExecModifyReg(m, opc))
<1> DEFINE reg == IF opc \div 16 = 4 THEN "a" ELSE "b"
           out == Modify(Nibble(opc), m.cc, m[reg])
<1>1. out.cc \cap Kept = m.cc \cap Kept
  BY ResultKept
<1>2. reg \notin Preserved
  BY DEF Preserved
<1> HIDE DEF reg, out
<1>3. LeavesStack(m, PutOut(m, reg, out))
  BY <1>1, <1>2, PreservedThere, PutOutLeaves
<1> QED BY <1>3 DEF ExecModifyReg, reg, out

LEMMA WideLeaves ==
  ASSUME NEW m, IsMachine(m), NEW reg \in Wide, NEW ea \in Word
  PROVE  /\ reg # "s" => LeavesStack(m, ExecLoad16(m, reg, ea))
         /\ Beside(m, ea) => LeavesStack(m, ExecStore16(m, reg, ea))
         /\ LeavesStack(m, ExecCmp16(m, reg, ea))
<1>1. reg # "s" => LeavesStack(m, ExecLoad16(m, reg, ea))
  <2> SUFFICES ASSUME reg # "s" PROVE LeavesStack(m, ExecLoad16(m, reg, ea))
    OBVIOUS
  <2> DEFINE value == mem_rd16(m, ea)
             n == Put(m, reg, value)
  <2>1. reg \notin Preserved
    BY DEF Wide, Register16, Preserved
  <2>2. LeavesStack(m, n)
    BY <2>1, PreservedThere, PutLeaves
  <2>3. n.cc = m.cc /\ Preserved \subseteq DOMAIN n
    BY <2>1, PreservedThere DEF Put, Preserved
  <2> HIDE DEF n, value
  <2>4. LeavesStack(m, WithCc(n, _flags_nz_v16(m.cc, value)))
    BY <2>2, <2>3, SizedKept, WithCcLeaves
  <2> QED BY <2>4 DEF ExecLoad16, n, value
<1>2. Beside(m, ea) => LeavesStack(m, ExecStore16(m, reg, ea))
  <2> SUFFICES ASSUME Beside(m, ea) PROVE LeavesStack(m, ExecStore16(m, reg, ea))
    OBVIOUS
  <2> DEFINE value == Get(m, reg)
             n == mem_wr16(m, ea, value)
  <2>1. LeavesStack(m, n)
    BY GetTypes, WideWriteLeaves
  <2>2. n.cc = m.cc /\ Preserved \subseteq DOMAIN n
    BY PreservedThere DEF mem_wr16, Store, Preserved
  <2> HIDE DEF n, value
  <2>3. LeavesStack(m, WithCc(n, _flags_nz_v16(m.cc, value)))
    BY <2>1, <2>2, SizedKept, WithCcLeaves
  <2> QED BY <2>3 DEF ExecStore16, n, value
<1>3. LeavesStack(m, ExecCmp16(m, reg, ea))
  <2> DEFINE out == _subf16(m.cc, Get(m, reg), mem_rd16(m, ea))
  <2>1. out.cc \cap Kept = m.cc \cap Kept
    BY WideKept
  <2> HIDE DEF out
  <2>2. LeavesStack(m, WithCc(m, out.cc))
    BY <2>1, LeavesAlike, PreservedThere, WithCcLeaves
  <2> QED BY <2>2 DEF ExecCmp16, out
<1> QED BY <1>1, <1>2, <1>3

LEMMA ArithmeticLeaves ==
  ASSUME NEW m, IsMachine(m), NEW value
  PROVE  /\ LeavesStack(m, PutOut(m, "d", _subf16(m.cc, Get(m, "d"), value)))
         /\ LeavesStack(m, PutOut(m, "d", _addf16(m.cc, Get(m, "d"), value)))
<1>1. "d" \notin Preserved
  BY DEF Preserved
<1> QED BY <1>1, WideKept, PreservedThere, PutOutLeaves

LEMMA LeaLeaves ==
  ASSUME NEW m, IsMachine(m), NEW opc \in {48, 49, 51}, NEW ea
  PROVE  LeavesStack(m, ExecLea(m, opc, ea))
<1> DEFINE reg == <<"x", "y", "s", "u">>[Nibble(opc) + 1]
           n   == [m EXCEPT ![reg] = ea]
<1>1. reg \in {"x", "y", "u"}
  BY DEF Nibble
<1> HIDE DEF reg
<1>2. reg \notin Preserved
  BY <1>1 DEF Preserved
<1>3. LeavesStack(m, n) /\ n.cc = m.cc /\ Preserved \subseteq DOMAIN n
  BY <1>2, PreservedThere, FieldLeaves DEF Preserved
<1> HIDE DEF n
<1>4. LeavesStack(m, WithCc(n, _flags_z16(m.cc, ea)))
  BY <1>3, WideKept, WithCcLeaves
<1> QED BY <1>3, <1>4 DEF ExecLea, reg, n

LEMMA RegisterLeaves ==
  ASSUME NEW m, IsMachine(m), NEW opc \in {18, 25, 29, 58, 61}
  PROVE  LeavesStack(m, ExecRegister(m, opc))
<1>1. {"a", "d", "x"} \cap Preserved = {} /\ Preserved \subseteq DOMAIN m
  BY PreservedThere DEF Preserved
<1>2. LeavesStack(m, PutOut(m, "a", _decadja(m.cc, m.a)))
  BY <1>1, WideKept, PutOutLeaves
<1>3. LeavesStack(m, WithCc(Put(m, "d", _sext816(m.a)), _flags_nz_v16(m.cc, _sext816(m.a))))
  <2> DEFINE k == Put(m, "d", _sext816(m.a))
  <2>1. LeavesStack(m, k)
    BY <1>1, PutLeaves
  <2>2. k.cc = m.cc /\ Preserved \subseteq DOMAIN k
    BY <1>1 DEF Put, Preserved
  <2> HIDE DEF k
  <2> QED BY <2>1, <2>2, SizedKept, WithCcLeaves DEF k
<1>4. LeavesStack(m, [m EXCEPT !.x = Wrap(@ + m.a)])
  BY <1>1, FieldLeaves
<1>5. LeavesStack(m, Put(m, "d", _mulf8(m.a, m.b)))
  BY <1>1, PutLeaves
<1>6. LeavesStack(m, m)
  BY LeavesAlike
<1> QED BY <1>2, <1>3, <1>4, <1>5, <1>6 DEF ExecRegister

LEMMA PlainLeaves ==
  ASSUME NEW m, IsMachine(m), NEW opc, NEW ea, NEW flag
  PROVE  /\ LeavesStack(m, m) /\ LeavesStack(m, _jump(m, ea)) /\ LeavesStack(m, Branch(m, opc, ea))
         /\ LeavesStack(m, Request(m, flag)) /\ LeavesStack(m, _errorexit(m))
<1>1. LeavesStack(m, m)
  BY LeavesAlike
<1>2. LeavesStack(m, _jump(m, ea))
  BY PcLeaves DEF _jump
<1>3. LeavesStack(m, Branch(m, opc, ea))
  BY <1>1, <1>2 DEF Branch
<1>4. LeavesStack(m, Request(m, flag))
  <2>1. "irq" \notin Preserved
    BY DEF Preserved
  <2> QED BY <2>1, PreservedThere, FieldLeaves DEF Request
<1>5. LeavesStack(m, _errorexit(m))
  <2>1. /\ _errorexit(m).s = m.s /\ _errorexit(m).cc = m.cc /\ _errorexit(m).mem = m.mem
    BY PreservedThere DEF _errorexit, Preserved
  <2> QED BY <2>1, LeavesAlike
<1> QED BY <1>1, <1>2, <1>3, <1>4, <1>5

LEMMA ExecCcLeaves ==
  ASSUME NEW m, IsMachine(m), NEW opc, NEW ea, opc = 28 => cc_e \in Bits(mem_rd8(m, ea))
  PROVE  LeavesStack(m, ExecCc(m, opc, ea))
<1> DEFINE mask  == Bits(mem_rd8(m, ea))
           k     == AfterRd8(m, ea)
           codes == IF opc = 28 THEN m.cc \cap mask ELSE m.cc \cup mask
<1>1. cc_e \in m.cc => cc_e \in codes
  OBVIOUS
<1>2. Preserved \subseteq DOMAIN k /\ LeavesStack(m, k) /\ k.cc = m.cc
  BY ReadTypes, PreservedThere, ReadLeaves
<1>3. ExecCc(m, opc, ea) = [k EXCEPT !.cc = codes]
  BY DEF ExecCc, WithCc
<1> HIDE DEF k, codes
<1>4. LeavesStack(k, [k EXCEPT !.cc = codes])
  BY <1>1, <1>2, CcLeaves
<1> QED BY <1>2, <1>3, <1>4, LeavesAgain

LEMMA TransferLeaves ==
  ASSUME NEW m, IsMachine(m), NEW post, NEW swap \in BOOLEAN,
         {_register(post \div 16), _register(post % 16)} \cap {"s", "cc"} = {}
  PROVE  LeavesStack(m, _transfer(m, post, swap))
<1> DEFINE src  == _register(post \div 16)
           dst  == _register(post % 16)
           back == IF swap THEN PutNarrowed(m, src, Widened(m, dst)) ELSE m
<1>1. src \notin Preserved /\ dst \notin Preserved
  <2>1. ASSUME NEW nr PROVE _register(nr) # "mem"
    BY DEF _register
  <2> QED BY <2>1 DEF Preserved
<1>2. \/ _transfer(m, post, swap) = [_errorexit(m) EXCEPT !.crashed = TRUE]
      \/ _transfer(m, post, swap) = PutNarrowed(back, dst, Widened(m, src))
  BY DEF _transfer
<1>3. LeavesStack(m, [_errorexit(m) EXCEPT !.crashed = TRUE])
  <2> DEFINE n == [_errorexit(m) EXCEPT !.crashed = TRUE]
  <2>1. n.s = m.s /\ n.cc = m.cc /\ n.mem = m.mem
    BY PreservedThere DEF _errorexit, Preserved
  <2> HIDE DEF n
  <2> QED BY <2>1, LeavesAlike DEF n
<1> HIDE DEF src, dst
<1>4. ASSUME NEW k, Preserved \subseteq DOMAIN k, NEW reg \in {src, dst}, NEW value
      PROVE  /\ LeavesStack(k, PutNarrowed(k, reg, value))
             /\ Preserved \subseteq DOMAIN PutNarrowed(k, reg, value)
  <2>1. reg \notin Preserved
    BY <1>1
  <2>2. ASSUME NEW to PROVE LeavesStack(k, Put(k, reg, to)) /\ Preserved \subseteq DOMAIN Put(k, reg, to)
    <3>1. LeavesStack(k, Put(k, reg, to))
      BY <1>4, <2>1, PutLeaves
    <3>2. DOMAIN Put(k, reg, to) = DOMAIN k
      BY DEF Put
    <3> QED BY <1>4, <3>1, <3>2
  <2> QED BY <2>2 DEF PutNarrowed
<1>5. LeavesStack(m, back) /\ Preserved \subseteq DOMAIN back
  BY <1>4, PreservedThere, LeavesAlike
<1> HIDE DEF back
<1>6. LeavesStack(m, PutNarrowed(back, dst, Widened(m, src)))
  BY <1>4, <1>5, LeavesAgain
<1> QED BY <1>2, <1>3, <1>6

-----------------------------------------------------------------------------
(* The three pages. *)
LEMMA StoresWrite ==
  ASSUME NEW opc \in Byte
  PROVE  /\ opc >= 128 /\ Nibble(opc) = 7 /\ ~IsImmediate(opc) => Writes(opc)
         /\ \A page \in {1, 2} : IsStore16(page, opc) => Writes(opc)
<1>1. opc >= 128 /\ Nibble(opc) = 7 /\ ~IsImmediate(opc) => opc \in Stores
  BY RowsOfOpcode DEF Stores
<1>2. ASSUME NEW page \in {1, 2}, IsStore16(page, opc) PROVE opc \in Stores
  <2>1. opc >= 128 /\ Row(opc) \in {143, 205, 207} /\ ~IsImmediate(opc)
    BY <1>2 DEF IsStore16, Store16
  <2>2. opc \in {159, 175, 191} \/ opc \in {221, 237, 253} \/ opc \in {223, 239, 255}
    BY <2>1, RowsOfOpcode
  <2> QED BY <2>2 DEF Stores
<1> QED BY <1>1, <1>2 DEF Writes

LEMMA Page1Leaves ==
  ASSUME NEW m, IsMachine(m), NEW opc \in Byte, NEW ea \in Word,
         opc \notin StackOpcodes, Writes(opc) => Beside(m, ea),
         opc = 28 => cc_e \in Bits(mem_rd8(m, ea)),
         opc \in {30, 31} =>
           {_register(mem_rd8(m, ea) \div 16), _register(mem_rd8(m, ea) % 16)} \cap {"s", "cc"} = {}
  PROVE  LeavesStack(m, ExecPage1(m, opc, ea))
<1> DEFINE n == ExecPage1(m, opc, ea)
           L(to) == LeavesStack(m, to)
<1>1. CASE opc \notin Opcodes1
  BY <1>1, NoInstruction1, PlainLeaves
<1>2. CASE opc \in {30, 31}
  <2>1. n = _transfer(AfterRd8(m, ea), mem_rd8(m, ea), opc = 30)
    BY <1>2, LowOpcode DEF ExecPage1
  <2>2. IsMachine(AfterRd8(m, ea)) /\ LeavesStack(m, AfterRd8(m, ea))
    BY ReadTypes, ReadLeaves
  <2>3. (opc = 30) \in BOOLEAN
    OBVIOUS
  <2>4. LeavesStack(AfterRd8(m, ea), _transfer(AfterRd8(m, ea), mem_rd8(m, ea), opc = 30))
    BY <1>2, <2>2, <2>3, TransferLeaves
  <2> QED BY <2>1, <2>2, <2>4, LeavesAgain
<1>3. CASE opc \in Opcodes1 \ {30, 31}
  <2>1. /\ L(m) /\ L(_jump(m, ea)) /\ L(Branch(m, opc, ea)) /\ L(Request(m, irq_swi))
    BY PlainLeaves
  <2>2. /\ opc \div 16 \in {0, 6, 7} /\ Nibble(opc) \in Modifications => L(ExecModifyMem(m, opc, ea))
        /\ Nibble(opc) \in Modifications => L(ExecModifyReg(m, opc))
    BY ModifyMemLeaves, ModifyRegLeaves DEF Writes
  <2>3. opc \in {18, 25, 29, 58, 61} => L(ExecRegister(m, opc))
    BY RegisterLeaves
  <2>4. L(ExecCc(m, opc, ea))
    BY ExecCcLeaves
  <2>5. opc \in {48, 49, 51} => L(ExecLea(m, opc, ea))
    BY LeaLeaves
  <2>6. /\ Nibble(opc) \in Operations8 => L(ExecOperation8(m, opc, ea))
        /\ Writes(opc) => L(ExecStore8(m, opc, ea))
    BY Operation8Leaves, Store8Leaves
  <2>7. /\ L(PutOut(m, "d", _subf16(m.cc, Get(m, "d"), mem_rd16(m, ea))))
        /\ L(PutOut(m, "d", _addf16(m.cc, Get(m, "d"), mem_rd16(m, ea))))
    BY ArithmeticLeaves
  <2>8. /\ IsLoad16(1, opc) => L(ExecLoad16(m, Load16(1, Row(opc)), ea))
        /\ IsStore16(1, opc) => L(ExecStore16(m, Store16(1, Row(opc)), ea))
        /\ IsCmp16(1, opc) => L(ExecCmp16(m, Cmp16(1, Row(opc)), ea))
    <3>1. IsLoad16(1, opc) => Load16(1, Row(opc)) # "s"
      BY DEF IsLoad16, Load16
    <3>2. IsStore16(1, opc) => Beside(m, ea)
      BY StoresWrite
    <3> QED BY <3>1, <3>2, WideLeaves, WideRegisters DEF IsLoad16, IsStore16, IsCmp16
  <2>9. opc >= 128 /\ Nibble(opc) = 7 /\ ~IsImmediate(opc) => Writes(opc)
    BY StoresWrite
  <2>10. \/ opc \div 16 \in {0, 6, 7} /\ Nibble(opc) \in Modifications \ {6, 9}
         \/ opc \div 16 \in {4, 5} /\ Nibble(opc) \in Modifications
         \/ opc = 13 \/ opc \in {14, 110, 126} \/ opc \in {18, 25, 29, 58, 61} \/ opc = 22
         \/ opc \in {26, 28} \/ opc \div 16 = 2
         \/ opc \in {48, 49, 51} \/ opc = 63
         \/ opc >= 128 /\ Nibble(opc) \in Operations8
         \/ opc >= 128 /\ Nibble(opc) = 7 /\ ~IsImmediate(opc)
         \/ opc >= 128 /\ Row(opc) = 131
         \/ opc >= 128 /\ Row(opc) = 195
         \/ IsLoad16(1, opc) \/ IsStore16(1, opc) \/ IsCmp16(1, opc)
    <3>1. opc \in 48..55 => opc \in {48, 49, 51} \/ opc \in StackOpcodes
      BY ByteRange DEF StackOpcodes
    <3>2. opc < 128 \/ opc >= 128
      BY ByteRange
    <3>3. opc \notin {23, 57, 59, 141, 157, 173, 189}
      BY DEF StackOpcodes
    <3>4. CASE opc < 128
      BY <1>3, <3>1, <3>3, <3>4, LowerOpcodes
    <3>5. CASE opc >= 128
      <4>1. \/ Nibble(opc) \in Operations8
            \/ Nibble(opc) = 7 /\ ~IsImmediate(opc)
            \/ Row(opc) \in {131, 195}
            \/ IsLoad16(1, opc) \/ IsStore16(1, opc) \/ IsCmp16(1, opc)
        BY <1>3, <3>3, <3>5, UpperOpcodes
      <4> QED BY <3>5, <4>1
    <3> QED BY <3>2, <3>4, <3>5
  <2>11. /\ opc \notin {30, 31} /\ opc \notin {23, 141, 157, 173, 189} /\ opc # 57 /\ opc # 59
         /\ opc \notin 52..55 /\ (opc \in 48..51 => opc \in {48, 49, 51})
    BY <1>3, ByteRange DEF StackOpcodes
  <2> HIDE DEF n, L
  <2> QED BY <2>1, <2>2, <2>3, <2>4, <2>5, <2>6, <2>7, <2>8, <2>9, <2>10, <2>11
          DEF ExecPage1, n, L
<1> QED BY <1>1, <1>2, <1>3

LEMMA LatePagesLeave ==
  ASSUME NEW m, IsMachine(m), NEW opc \in Byte, NEW ea \in Word, Writes(opc) => Beside(m, ea)
  PROVE  /\ opc \notin LoadsStack => LeavesStack(m, _execop_page2(m, opc, ea))
         /\ LeavesStack(m, _execop_page3(m, opc, ea))
<1> DEFINE L(to) == LeavesStack(m, to)
<1>1. /\ L(Branch(m, opc, ea)) /\ L(Request(m, irq_swi2)) /\ L(Request(m, irq_swi3))
      /\ L(_errorexit(m))
  BY PlainLeaves
<1>2. opc \notin LoadsStack /\ IsLoad16(2, opc) => L(ExecLoad16(m, Load16(2, Row(opc)), ea))
  <2>1. IsLoad16(2, opc) /\ Load16(2, Row(opc)) = "s" => opc >= 128 /\ Row(opc) = 206
    BY DEF IsLoad16, Load16
  <2>2. opc \notin LoadsStack /\ IsLoad16(2, opc) => Load16(2, Row(opc)) # "s"
    BY <2>1, RowsOfOpcode DEF LoadsStack
  <2> QED BY <2>2, WideLeaves, WideRegisters DEF IsLoad16
<1>3. IsStore16(2, opc) => L(ExecStore16(m, Store16(2, Row(opc)), ea))
  BY StoresWrite, WideLeaves, WideRegisters DEF IsStore16
<1>4. ASSUME NEW page, IsCmp16(page, opc) PROVE L(ExecCmp16(m, Cmp16(page, Row(opc)), ea))
  BY <1>4, WideLeaves, WideRegisters DEF IsCmp16
<1> HIDE DEF L
<1>5. opc \notin LoadsStack => L(_execop_page2(m, opc, ea))
  BY <1>1, <1>2, <1>3, <1>4 DEF _execop_page2
<1>6. L(_execop_page3(m, opc, ea))
  BY <1>1, <1>4 DEF _execop_page3
<1> QED BY <1>5, <1>6 DEF L

(* An instruction that spares the stack leaves it as it is. *)
THEOREM SparingInstructionsLeaveStack ==
  \A m : IsMachine(m) /\ SparesStack(m) => LeavesStack(m, cpu_execop(m))
<1> SUFFICES ASSUME NEW m, IsMachine(m), SparesStack(m) PROVE LeavesStack(m, cpu_execop(m))
  OBVIOUS
<1> DEFINE first  == Fetch(m)
           second == Fetch(first.m)
<1>1. IsMachine(first.m) /\ first.val \in Byte /\ LeavesStack(m, first.m)
  <2>1. first.val = mem_rd8(m, m.pc)
    BY DEF Fetch
  <2> QED BY <2>1, FetchTypes, ReadTypes, FetchLeaves
<1> HIDE DEF first
<1>2. IsMachine(second.m) /\ second.val \in Byte /\ LeavesStack(m, second.m)
  <2>1. second.val = mem_rd8(first.m, first.m.pc)
    BY DEF Fetch
  <2>2. LeavesStack(first.m, second.m)
    BY <1>1, FetchLeaves
  <2> QED BY <1>1, <2>1, <2>2, FetchTypes, ReadTypes, LeavesAgain
<1> HIDE DEF second
<1>3. ASSUME NEW k, IsMachine(k), NEW opc \in Byte, IsTame(k, opc)
      PROVE  LET ea == _eafromopc(k, opc)
             IN  /\ LeavesStack(k, ea.m) /\ IsMachine(ea.m) /\ ea.val \in Word
                 /\ Writes(opc) => Beside(ea.m, ea.val)
  <2> DEFINE ea == _eafromopc(k, opc)
  <2>1. LeavesStack(k, ea.m)
    BY <1>3, OperandLeaves DEF IsTame
  <2>2. IsMachine(ea.m) /\ ea.val \in Word
    BY <1>3, AddressTypes DEF IsOperand
  <2>3. Writes(opc) => Beside(ea.m, ea.val)
    <3>1. ea.m.s = k.s
      BY <2>1 DEF LeavesStack
    <3> HIDE DEF ea
    <3> QED BY <1>3, <3>1 DEF IsTame, Beside, ea
  <2> QED BY <2>1, <2>2, <2>3
<1>4. CASE first.val = op_page2
  <2> DEFINE ea == _eafromopc(second.m, second.val)
  <2>1. cpu_execop(m) = _execop_page2(ea.m, second.val, ea.val)
    BY <1>4 DEF cpu_execop, first, second, op_page2, op_page3
  <2>2. IsTame(second.m, second.val) /\ second.val \notin LoadsStack
    BY <1>4 DEF SparesStack, first, second, op_page2, op_page3
  <2>3. /\ LeavesStack(second.m, ea.m) /\ IsMachine(ea.m) /\ ea.val \in Word
        /\ Writes(second.val) => Beside(ea.m, ea.val)
    BY <1>2, <1>3, <2>2
  <2> HIDE DEF ea
  <2>4. LeavesStack(ea.m, _execop_page2(ea.m, second.val, ea.val))
    BY <1>2, <2>2, <2>3, LatePagesLeave
  <2> QED BY <1>2, <2>1, <2>3, <2>4, LeavesAgain
<1>5. CASE first.val = op_page3
  <2> DEFINE ea == _eafromopc(second.m, second.val)
  <2>1. cpu_execop(m) = _execop_page3(ea.m, second.val, ea.val)
    BY <1>5 DEF cpu_execop, first, second, op_page2, op_page3
  <2>2. IsTame(second.m, second.val)
    BY <1>5 DEF SparesStack, first, second, op_page2, op_page3
  <2>3. /\ LeavesStack(second.m, ea.m) /\ IsMachine(ea.m) /\ ea.val \in Word
        /\ Writes(second.val) => Beside(ea.m, ea.val)
    BY <1>2, <1>3, <2>2
  <2> HIDE DEF ea
  <2>4. LeavesStack(ea.m, _execop_page3(ea.m, second.val, ea.val))
    BY <1>2, <2>3, LatePagesLeave
  <2> QED BY <1>2, <2>1, <2>3, <2>4, LeavesAgain
<1>6. CASE first.val # op_page2 /\ first.val # op_page3
  <2> DEFINE opc == first.val
             ea == _eafromopc(first.m, opc)
             post == mem_rd8(first.m, first.m.pc)
  <2>1. cpu_execop(m) = ExecPage1(ea.m, opc, ea.val)
    BY <1>6 DEF cpu_execop, first, op_page2, op_page3
  <2>2. /\ IsTame(first.m, opc) /\ opc \notin StackOpcodes
        /\ opc = 28 => cc_e \in Bits(post)
        /\ opc \in {30, 31} => {_register(post \div 16), _register(post % 16)} \cap {"s", "cc"} = {}
    BY <1>6 DEF SparesStack, first, op_page2, op_page3
  <2>3. /\ LeavesStack(first.m, ea.m) /\ IsMachine(ea.m) /\ ea.val \in Word
        /\ Writes(opc) => Beside(ea.m, ea.val)
    BY <1>1, <1>3, <2>2
  <2>4. opc \in {28, 30, 31} => mem_rd8(ea.m, ea.val) = post
    <3>1. opc \in {28, 30, 31} => ea = _eaimmediate(first.m, 1)
      BY DEF _eafromopc
    <3>2. opc \in {28, 30, 31} => ea.val = first.m.pc /\ ea.m = [first.m EXCEPT !.pc = Wrap(@ + 1)]
      BY <3>1 DEF _eaimmediate
    <3>3. ASSUME NEW k, IsMachine(k), NEW to, NEW addr
          PROVE  mem_rd8([k EXCEPT !.pc = to], addr) = mem_rd8(k, addr)
      BY <3>3 DEF mem_rd8, Cell, IsMachine
    <3> QED BY <1>1, <3>2, <3>3
  <2> HIDE DEF ea, post
  <2>5. LeavesStack(ea.m, ExecPage1(ea.m, opc, ea.val))
    BY <1>1, <2>2, <2>3, <2>4, Page1Leaves
  <2> QED BY <1>1, <2>1, <2>3, <2>5, LeavesAgain
<1> QED BY <1>4, <1>5, <1>6
=============================================================================

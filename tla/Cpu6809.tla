------------------------------ MODULE Cpu6809 ------------------------------
(***************************************************************************)
(* The CPU (vm6809.c): cpu_execop and cpu_execirq as functions from one    *)
(* state of the machine to the next.  To what Memory6809 says, the machine *)
(* m adds the registers a, b, dp (8 bits), x, y, u, s, pc (16 bits) and    *)
(* the sets cc, irq and trap; m.ok, false after an error (cpu_status.code  *)
(* other than sc_ok); and m.crashed, true once the program has run into a  *)
(* null pointer.                                                           *)
(*                                                                         *)
(* An operator that reads memory on its way returns the value val and the  *)
(* machine m after it, in one record.                                      *)
(***************************************************************************)
EXTENDS Memory6809

(* Mutant: addresses are not cut to 16 bits. *)
WrapNot(value) == value

Wrap(value) == value % 65536

Register8  == {"a", "b", "dp"}
Register16 == {"x", "y", "u", "s", "pc"}

(* A machine whose registers have values of their widths. *)
IsMachine(m) ==
  /\ m \in [a : Byte, b : Byte, dp : Byte, x : Word, y : Word, u : Word, s : Word,
            pc : Word, cc : SUBSET CcFlag, irq : SUBSET IrqFlag, trap : SUBSET TrapFlag,
            ok : BOOLEAN, crashed : BOOLEAN, mem : {m.mem}, rbr : Byte, thr : Byte,
            lcr : Byte, lsr : SUBSET Weight, ier : SUBSET Weight, iir : SUBSET Weight]
  /\ IsMemory(m.mem)

(* Mutant: an error halts the machine by itself. *)
ErrorHalts(m) == [m EXCEPT !.ok = FALSE, !.trap = {tc_halt}]

_errorexit(m) == [m EXCEPT !.ok = FALSE, !.trap = {tc_trap}]

(* Reads the byte, or the two bytes, at pc and moves pc. *)
Fetch(m) ==
  [val |-> mem_rd8(m, m.pc), m |-> [AfterRd8(m, m.pc) EXCEPT !.pc = Wrap(@ + 1)]]
Fetch16(m) ==
  [val |-> mem_rd16(m, m.pc), m |-> [m EXCEPT !.pc = Wrap(@ + 2)]]

(* Registers by name; d is a and b together. *)
Get(m, reg) ==
  IF reg = "d" THEN 256 * m.a + m.b ELSE IF reg = "cc" THEN ByteOf(m.cc) ELSE m[reg]
Put(m, reg, value) ==
  IF reg = "d" THEN [m EXCEPT !.a = value \div 256, !.b = value % 256]
  ELSE IF reg = "cc" THEN [m EXCEPT !.cc = Bits(value)]
  ELSE [m EXCEPT ![reg] = value]

-----------------------------------------------------------------------------
(***************************************************************************)
(* The stack.  st is the stack register, other the one that can be stacked.*)
(***************************************************************************)
Weighed == {"cc", "a", "b", "dp", "x", "y", "us", "pc"}
rn(reg) == [cc |-> 1, a |-> 2, b |-> 4, dp |-> 8, x |-> 16, y |-> 32, us |-> 64,
            pc |-> 128][reg]
rn_entire == {rn(reg) : reg \in Weighed}
rn_fast   == {rn("pc"), rn("cc")}
FrameSize == 12  \* all registers, in bytes
IsWide(reg) == reg \in {"x", "y", "u", "s", "us", "pc", "d"}

Named(reg, other) == IF reg = "us" THEN other ELSE reg

Push(m, st, reg) ==
  IF IsWide(reg)
  THEN LET sp == Wrap(m[st] - 2) IN mem_wr16([m EXCEPT ![st] = sp], sp, Get(m, reg))
  ELSE LET sp == Wrap(m[st] - 1) IN mem_wr8([m EXCEPT ![st] = sp], sp, Get(m, reg))

Pull(m, st, reg) ==
  IF IsWide(reg)
  THEN LET n == Put(m, reg, mem_rd16(m, m[st]))
       IN  [n EXCEPT ![st] = Wrap(@ + 2)]
  ELSE LET n == Put(AfterRd8(m, m[st]), reg, mem_rd8(m, m[st]))
       IN  [n EXCEPT ![st] = Wrap(@ + 1)]

(* The register, if its bit is in the mask. *)
PushOne(m, mask, st, reg, other) ==
  IF rn(reg) \in mask THEN Push(m, st, Named(reg, other)) ELSE m
PullOne(m, mask, st, reg, other) ==
  IF rn(reg) \in mask THEN Pull(m, st, Named(reg, other)) ELSE m

_pushregs(m, mask, st, other) ==
  LET then(n, reg) == PushOne(n, mask, st, reg, other)
  IN  then(then(then(then(then(then(then(then(m,
        "pc"), "us"), "y"), "x"), "dp"), "b"), "a"), "cc")

_pullregs(m, mask, st, other) ==
  LET then(n, reg) == PullOne(n, mask, st, reg, other)
  IN  then(then(then(then(then(then(then(then(m,
        "cc"), "a"), "b"), "dp"), "x"), "y"), "us"), "pc")

(* Mutant: E is not set on the way into the handler. *)
PushWithoutE(m) == _pushregs(m, rn_entire, "s", "u")

_pushfast(m)  == _pushregs([m EXCEPT !.cc = @ \ {cc_e}], rn_fast, "s", "u")
_pushstate(m) == _pushregs([m EXCEPT !.cc = @ \cup {cc_e}], rn_entire, "s", "u")

(* What is pulled depends on E as it is now, not on the E to be pulled. *)
_pullstate(m) ==
  _pullregs(m, IF cc_e \in m.cc THEN rn_entire ELSE rn_fast, "s", "u")

(* JSR, BSR, LBSR *)
Call(m, ea) == [Push(m, "s", "pc") EXCEPT !.pc = ea]

-----------------------------------------------------------------------------
(***************************************************************************)
(* EXG and TFR.  8 bits widen by being doubled, 16 bits narrow by losing   *)
(* the high ones.  A number that names no register is an error and a null  *)
(* pointer.                                                                *)
(***************************************************************************)
_register(nr) ==
  CASE nr = 0 -> "d" [] nr = 1 -> "x" [] nr = 2 -> "y" [] nr = 3 -> "u" [] nr = 4 -> "s"
    [] nr = 5 -> "pc" [] nr = 8 -> "a" [] nr = 9 -> "b" [] nr = 10 -> "cc"
    [] nr = 11 -> "dp" [] OTHER -> "none"

Widened(m, reg) == IF IsWide(reg) THEN Get(m, reg) ELSE 257 * Get(m, reg)
PutNarrowed(m, reg, value) == Put(m, reg, IF IsWide(reg) THEN value ELSE value % 256)

_transfer(m, post, swap) ==
  LET src  == _register(post \div 16)
      dst  == _register(post % 16)
      back == IF swap THEN PutNarrowed(m, src, Widened(m, dst)) ELSE m
  IN  IF "none" \in {src, dst}
      THEN [_errorexit(m) EXCEPT !.crashed = TRUE]
      ELSE PutNarrowed(back, dst, Widened(m, src))

-----------------------------------------------------------------------------
(***************************************************************************)
(* Effective addresses.                                                    *)
(***************************************************************************)
EYECATCHER_16 == 21845
Inherent(m) == [val |-> EYECATCHER_16, m |-> m]

_eadirect(m) == LET low == Fetch(m) IN [low EXCEPT !.val = 256 * m.dp + @]

(* The address before indirection.  After ,R+16bit only one of the two     *)
(* bytes of the offset is skipped.                                         *)
IndexedBase(m, post) ==
  LET reg    == <<"x", "y", "u", "s">>[((post \div 32) % 4) + 1]
      at(ofs)   == [val |-> Wrap(m[reg] + ofs), m |-> m]
      step(by)  == [m EXCEPT ![reg] = Wrap(@ + by)]
      byte   == Fetch(m)
      word   == Fetch16(m)
      mode   == post % 16
  IN  IF post < 128 THEN at(_sext816(_sext58(post)))
      ELSE CASE mode = 0  -> [val |-> m[reg], m |-> step(1)]
             [] mode = 1  -> [val |-> m[reg], m |-> step(2)]
             [] mode = 2  -> [val |-> step(-1)[reg], m |-> step(-1)]
             [] mode = 3  -> [val |-> step(-2)[reg], m |-> step(-2)]
             [] mode = 4  -> at(0)
             [] mode = 5  -> at(_sext816(m.b))
             [] mode = 6  -> at(_sext816(m.a))
             [] mode = 8  -> [val |-> Wrap(m[reg] + _sext816(byte.val)), m |-> byte.m]
             [] mode = 9  -> [val |-> Wrap(m[reg] + word.val), m |-> [m EXCEPT !.pc = Wrap(@ + 1)]]
             [] mode = 11 -> at(Get(m, "d"))
             [] mode = 12 -> [val |-> Wrap(byte.m.pc + _sext816(byte.val)), m |-> byte.m]
             [] mode = 13 -> [val |-> Wrap(word.m.pc + word.val), m |-> word.m]
             [] mode = 15 -> word
             [] OTHER     -> Inherent([m EXCEPT !.ok = FALSE])

_eaindexed(m) ==
  LET post == Fetch(m)
      base == IndexedBase(post.m, post.val)
  IN  IF post.val >= 128 /\ (post.val \div 16) % 2 = 1 /\ base.m.ok
      THEN [base EXCEPT !.val = mem_rd16(base.m, @)]
      ELSE base

_earelative(m, nbyte) ==
  LET ofs == IF nbyte > 1 THEN mem_rd16(m, m.pc) ELSE _sext816(mem_rd8(m, m.pc))
      n   == IF nbyte > 1 THEN m ELSE AfterRd8(m, m.pc)
  IN  [val |-> Wrap(m.pc + nbyte + ofs), m |-> [n EXCEPT !.pc = Wrap(@ + nbyte)]]

_eaextended(m) == Fetch16(m)

(* Mutant: the immediate operand is not skipped. *)
ImmediateUnskipped(m, nbyte) == [val |-> m.pc, m |-> m]

_eaimmediate(m, nbyte) == [val |-> m.pc, m |-> [m EXCEPT !.pc = Wrap(@ + nbyte)]]

(* The same for all three pages of opcodes: by the high nibble and, in     *)
(* some rows, the low one.                                                 *)
_eafromopc(m, opc) ==
  LET high == opc \div 16
      low  == opc % 16
  IN  CASE high \in {0, 9, 13} -> _eadirect(m)
        [] high = 1 /\ low \in {2, 3, 9, 13} -> Inherent(m)
        [] high = 1 /\ low \in {6, 7} -> _earelative(m, 2)
        [] high = 2 -> _earelative(m, 1)
        [] high = 3 /\ low \in 0..3 -> _eaindexed(m)
        [] high \in {4, 5} \/ (high = 3 /\ low > 7) -> Inherent(m)
        [] high \in {6, 10, 14} -> _eaindexed(m)
        [] high \in {7, 11, 15} -> _eaextended(m)
        [] high \in {8, 12} /\ low \in {3, 12, 14} -> _eaimmediate(m, 2)
        [] OTHER -> _eaimmediate(m, 1)

-----------------------------------------------------------------------------
(***************************************************************************)
(* Instructions, by groups of opcodes.  In the upper half of a page an     *)
(* opcode is a row (its operation) and a mode: immediate, direct, indexed  *)
(* or extended.                                                            *)
(***************************************************************************)
op_page2 == 16
op_page3 == 17

Nibble(opc)      == opc % 16
Mode(opc)        == (opc \div 16) % 4
IsImmediate(opc) == Mode(opc) = 0
Row(opc)         == opc - 16 * Mode(opc)
Accumulator(opc) == IF opc < 192 THEN "a" ELSE "b"

(* Gives the register the value and the machine the flags of out. *)
PutOut(m, reg, out) == Put([m EXCEPT !.cc = out.cc], reg, out.val)
WithCc(m, codes) == [m EXCEPT !.cc = codes]

(* SUB CMP SBC AND BIT LD EOR ADC OR ADD with A or B. *)
Operations8 == {0, 1, 2, 4, 5, 6, 8, 9, 10, 11}
Operate8(nibble, cc, a, b) ==
  CASE nibble \in {0, 1} -> _subf8(cc, a, b)
    [] nibble = 2 -> _subcf8(cc, a, b)
    [] nibble \in {4, 5} -> lo_and(cc, a, b)
    [] nibble = 6 -> Logic(cc, b)
    [] nibble = 8 -> lo_xor(cc, a, b)
    [] nibble = 9 -> _addcf8(cc, a, b)
    [] nibble = 10 -> lo_or(cc, a, b)
    [] nibble = 11 -> _addf8(cc, a, b)

ExecOperation8(m, opc, ea) ==
  LET reg == Accumulator(opc)
      n   == AfterRd8(m, ea)
      out == Operate8(Nibble(opc), m.cc, m[reg], mem_rd8(m, ea))
  IN  IF Nibble(opc) \in {1, 5} THEN WithCc(n, out.cc) ELSE PutOut(n, reg, out)

(* STA, STB *)
ExecStore8(m, opc, ea) ==
  LET reg == Accumulator(opc)
  IN  WithCc(mem_wr8(m, ea, m[reg]), _flags_nz_v8(m.cc, m[reg]))

(* NEG COM LSR ROR ASR LSL ROL DEC INC CLR; shifts leave the flags alone.  *)
(* There is no ROR and ROL on memory.                                      *)
Modifications == {0, 3, 4, 6, 7, 8, 9, 10, 12, 15}
Modify(nibble, cc, value) ==
  CASE nibble = 0 -> _subf8(cc, 0, value)
    [] nibble = 3 -> lo_com(cc, value)
    [] nibble = 4 -> [val |-> sh_right(value), cc |-> cc]
    [] nibble = 6 -> [val |-> rot_right(cc, value), cc |-> cc]
    [] nibble = 7 -> [val |-> sh_aright(value), cc |-> cc]
    [] nibble = 8 -> [val |-> sh_left(value), cc |-> cc]
    [] nibble = 9 -> [val |-> rot_left(cc, value), cc |-> cc]
    [] nibble = 10 -> _decf8(cc, value)
    [] nibble = 12 -> _incf8(cc, value)
    [] nibble = 15 -> [val |-> 0, cc |-> Affect(cc, {cc_n, cc_z, cc_v, cc_c}, {cc_z})]

ExecModifyReg(m, opc) ==
  LET reg == IF opc \div 16 = 4 THEN "a" ELSE "b"
  IN  PutOut(m, reg, Modify(Nibble(opc), m.cc, m[reg]))

(* CLR is the one that does not read first. *)
ExecModifyMem(m, opc, ea) ==
  LET n   == IF Nibble(opc) = 15 THEN m ELSE AfterRd8(m, ea)
      out == Modify(Nibble(opc), m.cc, mem_rd8(m, ea))
  IN  WithCc(mem_wr8(n, ea, out.val), out.cc)

(* The register of 16 bits that an opcode of this page and row loads, *)
(* stores or compares, if it is one that does.                        *)
Load16(page, row) ==
  CASE page = 1 /\ row = 204 -> "d" [] page = 1 /\ row = 142 -> "x"
    [] page = 1 /\ row = 206 -> "u" [] page = 2 /\ row = 142 -> "y"
    [] page = 2 /\ row = 206 -> "s" [] OTHER -> "none"
Store16(page, row) ==
  CASE page = 1 /\ row = 205 -> "d" [] page = 1 /\ row = 143 -> "x"
    [] page = 1 /\ row = 207 -> "u" [] page = 2 /\ row = 143 -> "y"
    [] page = 2 /\ row = 207 -> "s" [] OTHER -> "none"
Cmp16(page, row) ==
  CASE page = 1 /\ row = 140 -> "x" [] page = 2 /\ row = 131 -> "d"
    [] page = 2 /\ row = 140 -> "y" [] page = 3 /\ row = 131 -> "u"
    [] page = 3 /\ row = 140 -> "s" [] OTHER -> "none"

IsLoad16(page, opc)  == opc >= 128 /\ Load16(page, Row(opc)) # "none"
IsStore16(page, opc) ==
  opc >= 128 /\ Store16(page, Row(opc)) # "none" /\ ~IsImmediate(opc)
IsCmp16(page, opc)   == opc >= 128 /\ Cmp16(page, Row(opc)) # "none"

ExecLoad16(m, reg, ea) ==
  LET value == mem_rd16(m, ea) IN WithCc(Put(m, reg, value), _flags_nz_v16(m.cc, value))
ExecStore16(m, reg, ea) ==
  WithCc(mem_wr16(m, ea, Get(m, reg)), _flags_nz_v16(m.cc, Get(m, reg)))
ExecCmp16(m, reg, ea) ==
  WithCc(m, _subf16(m.cc, Get(m, reg), mem_rd16(m, ea)).cc)

(* LEAX, LEAY, LEAS, LEAU *)
ExecLea(m, opc, ea) ==
  LET reg == <<"x", "y", "s", "u">>[Nibble(opc) + 1]
      n   == [m EXCEPT ![reg] = ea]
  IN  IF reg \in {"x", "y"} THEN WithCc(n, _flags_z16(m.cc, ea)) ELSE n

(* PSHS, PULS, PSHU, PULU *)
ExecStack(m, opc, ea) ==
  LET mask == Bits(mem_rd8(m, ea))
      n    == AfterRd8(m, ea)
  IN  CASE opc = 52 -> _pushregs(n, mask, "s", "u")
        [] opc = 53 -> _pullregs(n, mask, "s", "u")
        [] opc = 54 -> _pushregs(n, mask, "u", "s")
        [] opc = 55 -> _pullregs(n, mask, "u", "s")

(* A software interrupt is a request that the next cpu_execirq finds. *)
Request(m, flag) == [m EXCEPT !.irq = @ \cup {flag}]

_jump(m, ea) == [m EXCEPT !.pc = ea]
Branch(m, opc, ea) == IF Taken(m.cc, Nibble(opc)) THEN _jump(m, ea) ELSE m

(* ANDCC and ORCC *)
ExecCc(m, opc, ea) ==
  LET mask == Bits(mem_rd8(m, ea))
      n    == AfterRd8(m, ea)
  IN  WithCc(n, IF opc = 28 THEN m.cc \cap mask ELSE m.cc \cup mask)

(* NOP DAA SEX ABX MUL; SEX extends A, ABX adds A. *)
ExecRegister(m, opc) ==
  CASE opc = 18 -> m
    [] opc = 25 -> PutOut(m, "a", _decadja(m.cc, m.a))
    [] opc = 29 -> LET d == _sext816(m.a)
                   IN  WithCc(Put(m, "d", d), _flags_nz_v16(m.cc, d))
    [] opc = 58 -> [m EXCEPT !.x = Wrap(@ + m.a)]
    [] opc = 61 -> Put(m, "d", _mulf8(m.a, m.b))

-----------------------------------------------------------------------------
(***************************************************************************)
(* The three pages.  m is the machine after the effective address ea of    *)
(* the opcode has been determined.                                         *)
(***************************************************************************)
ExecPage1(m, opc, ea) ==
  CASE opc \div 16 \in {0, 6, 7} /\ Nibble(opc) \in Modifications \ {6, 9}
         -> ExecModifyMem(m, opc, ea)
    [] opc \div 16 \in {4, 5} /\ Nibble(opc) \in Modifications -> ExecModifyReg(m, opc)
    [] opc = 13 -> m
    [] opc \in {14, 110, 126} -> _jump(m, ea)
    [] opc \in {18, 25, 29, 58, 61} -> ExecRegister(m, opc)
    [] opc = 22 -> _jump(m, ea)
    [] opc \in {23, 141, 157, 173, 189} -> Call(m, ea)
    [] opc \in {26, 28} -> ExecCc(m, opc, ea)
    [] opc \in {30, 31} -> _transfer(AfterRd8(m, ea), mem_rd8(m, ea), opc = 30)
    [] opc \div 16 = 2 -> Branch(m, opc, ea)
    [] opc \in 48..51 -> ExecLea(m, opc, ea)
    [] opc \in 52..55 -> ExecStack(m, opc, ea)
    [] opc = 57 -> Pull(m, "s", "pc")
    [] opc = 59 -> _pullstate(m)
    [] opc = 63 -> Request(m, irq_swi)
    [] opc >= 128 /\ Nibble(opc) \in Operations8 -> ExecOperation8(m, opc, ea)
    [] opc >= 128 /\ Nibble(opc) = 7 /\ ~IsImmediate(opc) -> ExecStore8(m, opc, ea)
    [] opc >= 128 /\ Row(opc) = 131 -> PutOut(m, "d", _subf16(m.cc, Get(m, "d"), mem_rd16(m, ea)))
    [] opc >= 128 /\ Row(opc) = 195 -> PutOut(m, "d", _addf16(m.cc, Get(m, "d"), mem_rd16(m, ea)))
    [] IsLoad16(1, opc) -> ExecLoad16(m, Load16(1, Row(opc)), ea)
    [] IsStore16(1, opc) -> ExecStore16(m, Store16(1, Row(opc)), ea)
    [] IsCmp16(1, opc) -> ExecCmp16(m, Cmp16(1, Row(opc)), ea)
    [] OTHER -> _errorexit(m)

_execop_page2(m, opc, ea) ==
  CASE IsLoad16(2, opc) -> ExecLoad16(m, Load16(2, Row(opc)), ea)
    [] IsStore16(2, opc) -> ExecStore16(m, Store16(2, Row(opc)), ea)
    [] IsCmp16(2, opc) -> ExecCmp16(m, Cmp16(2, Row(opc)), ea)
    [] opc \in 33..47 -> Branch(m, opc, ea)
    [] opc = 63 -> Request(m, irq_swi2)
    [] OTHER -> _errorexit(m)

_execop_page3(m, opc, ea) ==
  CASE IsCmp16(3, opc) -> ExecCmp16(m, Cmp16(3, Row(opc)), ea)
    [] opc = 63 -> Request(m, irq_swi3)
    [] OTHER -> _errorexit(m)

cpu_execop(m) ==
  LET first  == Fetch(m)
      second == Fetch(first.m)
      ea1    == _eafromopc(first.m, first.val)
      ea2    == _eafromopc(second.m, second.val)
  IN  CASE first.val = op_page2 -> _execop_page2(ea2.m, second.val, ea2.val)
        [] first.val = op_page3 -> _execop_page3(ea2.m, second.val, ea2.val)
        [] OTHER -> ExecPage1(ea1.m, first.val, ea1.val)

-----------------------------------------------------------------------------
(***************************************************************************)
(* cpu_execirq: the request that is served, if any, stacks the registers   *)
(* (FIRQ only pc and cc) and goes through its vector.  Neither I nor F is  *)
(* set, and the reset keeps all registers but dp and pc.                   *)
(***************************************************************************)
Vector(flag) ==
  CASE flag = irq_rst -> 65534 [] flag = irq_nmi -> 65532 [] flag = irq_swi -> 65530
    [] flag = irq_irq -> 65528 [] flag = irq_firq -> 65526 [] flag = irq_swi2 -> 65524
    [] flag = irq_swi3 -> 65522

cpu_execirq(m) ==
  LET flag == Serviced(m.irq, m.cc)
      n    == [m EXCEPT !.irq = IrqAfterService(m.irq, m.cc)]
      into(machine) == [machine EXCEPT !.pc = mem_rd16(machine, Vector(flag))]
  IN  IF Deliverable(m.irq, m.cc) = {} THEN m
      ELSE IF flag = irq_rst THEN into([n EXCEPT !.dp = 0])
      ELSE IF flag = irq_firq THEN into(_pushfast(n))
      ELSE into(_pushstate(n))
=============================================================================

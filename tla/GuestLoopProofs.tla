--------------------------- MODULE GuestLoopProofs ---------------------------
(***************************************************************************)
(* Proofs about GuestLoop: the programs echo, hellow and echoirq,          *)
(* instruction by instruction, on the whole machine.  One invariant for    *)
(* each program; the machine implements VmLoop, echo and hellow print in   *)
(* order, echoirq keeps its stack and loses nothing that it has read.      *)
(* At the end, any program: the machine that runs it implements VmLoop.    *)
(***************************************************************************)
EXTENDS GuestLoop, InstructionProofs, VmLoopProofs, FiniteSetTheorems

-----------------------------------------------------------------------------
(***************************************************************************)
(* The inductive invariant.                                                *)
(***************************************************************************)
Boot(name) ==
  Written(Written(Loaded[name], 65534, VM6809_DEFAULT_START \div 256),
          65535, VM6809_DEFAULT_START % 256)

(* Of every program: it stays in its code, interrupts unmasked; a printed  *)
(* character is still in THR only until the next poll.                     *)
Steady ==
  /\ pc \in Line[program] /\ phase # "crash"
  /\ cpu.cc \cap {cc_f, cc_i} = {}
  /\ xxr_thr_empty \notin lsr => phase = "tio" /\ perform_tio
  /\ kbd \in Seq(Key)
  /\ xxr_rbr_full \in lsr => rbr \in CpuChar
  /\ Len(received) + 2 * Len(kbd) <= 2 * typed

(* What echo and hellow never touch. *)
Undisturbed == cpu.mem = Boot(program) /\ ier = {} /\ irq = {}

InRbr == IF xxr_rbr_full \in lsr THEN Echoed(rbr) ELSE <<>>
InB   == IF pc \in {\h400e, \h4011, \h4013, \h4015} THEN Echoed(cpu.b) ELSE <<>>

(* A character is in RBR, then in B, then in THR, and then on the screen;  *)
(* the tests in front of LDB and STB do not let it pass too early.         *)
EchoInv ==
  /\ received = Printed \o (InB \o InRbr)
  /\ pc = \h4007 /\ xxr_rbr_full \in Bits(cpu.a) => xxr_rbr_full \in lsr
  /\ pc = \h4009 /\ cc_z \notin cpu.cc => xxr_rbr_full \in lsr
  /\ pc = \h400b => xxr_rbr_full \in lsr
  /\ pc \in {\h400e, \h4011, \h4013, \h4015} => cpu.b \in CpuChar
  /\ pc = \h4011 => xxr_thr_empty \in Bits(cpu.a)
  /\ pc = \h4013 => cc_z \notin cpu.cc
  /\ ~erred

(* Y walks the greeting; A is ahead of the screen by one character.        *)
Hello == \h4015
Text  == Greeting \o <<0>>
Told(count) == Printed = SubSeq(Greeting, 1, count)
HellowInv ==
  LET count == cpu.y - Hello
  IN  /\ pc = \h4000 => Told(0)
      /\ pc = \h4003 => count \in 0..4 /\ Told(count)
      /\ pc \in {\h4005, \h4007} => count \in 1..5 /\ Told(count - 1) /\ cpu.a = Text[count]
      /\ pc = \h4005 => (cc_z \in cpu.cc <=> cpu.a = 0)
      /\ pc = \h4007 => cpu.a # 0
      /\ pc = \h400a => count \in 1..4 /\ Told(count)
      /\ pc >= \h400d => Told(4)
      /\ erred <=> pc = \h4011

-----------------------------------------------------------------------------
(* echoirq: the lines before its interrupt is enabled and those of its     *)
(* loop; those of the handler up to the one that reads RBR, those behind   *)
(* it, while B holds the character, and its RTI.                           *)
Setup   == {\h4000, \h4004, \h4007, \h400a, \h400c}
Waiting == {\h400f, \h4010, \h4011, \h4012}
Reading == {\h4015, \h4018, \h401a, \h401c}
Holding == {\h401f, \h4022, \h4024, \h4026}
Return  == \h4029

StackTop == \h2000
Depth == IF pc = \h4000 THEN 0 ELSE (StackTop - cpu.s) \div FrameSize
FrameAddr(k) == StackTop - FrameSize * k

(* The program is interrupted Depth times.  Level 0 is its loop, level k   *)
(* the k-th handler; the registers of the last one are those of the CPU,   *)
(* and those of level k before are in the frame k + 1 of the stack.        *)
Top == [cc |-> cpu.cc, a |-> cpu.a, b |-> cpu.b, dp |-> cpu.dp, x |-> cpu.x, y |-> cpu.y,
        u |-> cpu.u, pc |-> pc]
Level(k) == IF k = Depth THEN Top ELSE Stacked(Machine, FrameAddr(k + 1))

Fits(k, depth, regs) ==
  /\ regs.cc \cap {cc_f, cc_i} = {}
  /\ k = 0 <=> regs.pc \in Setup \cup Waiting
  /\ regs.pc \in Setup \cup Waiting \cup Reading \cup Holding \cup {Return}
  /\ k < depth => regs.pc \in Waiting \cup Holding \cup {Return}
  /\ 0 < depth => cc_e \in regs.cc
  /\ regs.pc = \h4018 => xxr_rbr_full \in Bits(regs.a)
  /\ regs.pc = \h4022 => xxr_thr_empty \in Bits(regs.a)
  /\ regs.pc \in {\h401a, \h4024} => cc_z \notin regs.cc
  /\ regs.pc \in Holding => regs.b \in CpuChar

(* How often the characters of a set occur.  What a character puts on the  *)
(* screen has at most one of them, for the sets that are counted.          *)
Counted == {set \in SUBSET Char : ~(CR \in set /\ LF \in set)}
Count(set, seq) == Cardinality({i \in DOMAIN seq : seq[i] \in set})
Marks(set, cc)  == ToSet(Echoed(cc)) \cap set # {}

(* The levels that hold such a character, and RBR. *)
InHand(set, regs) == regs.pc \in Holding /\ Marks(set, regs.b)
Holders(set) == {k \in 0..Depth : InHand(set, Level(k))}
Unread(set)  == IF xxr_rbr_full \in lsr /\ Marks(set, rbr) THEN 1 ELSE 0

(* echoirq changes the vector and its stack, never its own code. *)
InMemory(m) == \A addr \in DOMAIN echoirq : Cell(m, addr) = echoirq[addr]

(* The interrupt is enabled when its vector is set, and requested and      *)
(* answered only while RBR is full.                                        *)
Wired ==
  /\ InMemory(Machine)
  /\ pc \notin {\h4000, \h4004, \h4007} => mem_rd16(Machine, 65528) = \h4015
  /\ pc = \h4007 => cpu.a = \h40 /\ cpu.b = \h15
  /\ pc = \h400c => cpu.a = \h80
  /\ ier = IF pc \in Setup THEN {} ELSE {xxr_rbr_full}
  /\ irq \subseteq {irq_irq}
  /\ irq # {} => phase = "irq" /\ pc \notin Setup \cup Reading
                  /\ xxr_rbr_full \in lsr /\ xxr_rbr_full \in iir
  /\ pc \in Reading => xxr_rbr_full \in lsr /\ xxr_rbr_full \in iir
  /\ ~erred

(* Each level has its frame, and each answers one of the typed characters. *)
Waits == IF xxr_rbr_full \in lsr /\ pc \notin Reading THEN 1 ELSE 0
Nesting ==
  /\ Depth \in Nat
  /\ pc # \h4000 => cpu.s = FrameAddr(Depth)
  /\ Depth + Len(kbd) + Waits <= typed
  /\ \A k \in 0..Depth : Fits(k, Depth, Level(k))

Balance ==
  \A set \in Counted :
    Count(set, received) = Count(set, Printed) + Cardinality(Holders(set)) + Unread(set)

EchoIrqInv == Wired /\ Nesting /\ Balance

GuestInv ==
  /\ Steady
  /\ program = "echo" => Undisturbed /\ EchoInv
  /\ program = "hellow" => Undisturbed /\ HellowInv
  /\ program = "echoirq" => EchoIrqInv

-----------------------------------------------------------------------------
(***************************************************************************)
(* The programs in memory.                                                 *)
(***************************************************************************)
LEMMA BootCells ==
  ASSUME NEW name, NEW m, m.mem = Boot(name), NEW addr \in DOMAIN Loaded[name], addr < 65534
  PROVE  Cell(m, addr) = Loaded[name][addr]
BY DEF Boot, Cell, Written

LEMMA EchoImage ==
  /\ DOMAIN echo = 16384..16410
  /\ echo[16384] = 16 /\ echo[16385] = 206 /\ echo[16386] = 32 /\ echo[16387] = 0
  /\ echo[16388] = 182 /\ echo[16389] = 255 /\ echo[16390] = 1 /\ echo[16391] = 132
  /\ echo[16392] = 128 /\ echo[16393] = 39 /\ echo[16394] = 249 /\ echo[16395] = 246
  /\ echo[16396] = 255 /\ echo[16397] = 0 /\ echo[16398] = 182 /\ echo[16399] = 255
  /\ echo[16400] = 1 /\ echo[16401] = 132 /\ echo[16402] = 64 /\ echo[16403] = 39
  /\ echo[16404] = 239 /\ echo[16405] = 247 /\ echo[16406] = 255 /\ echo[16407] = 0
  /\ echo[16408] = 126 /\ echo[16409] = 64 /\ echo[16410] = 4
BY DEF echo, Image, Greeting, VM6809_DEFAULT_START

LEMMA EchoBytes ==
  ASSUME NEW m, m.mem = Boot("echo")
  PROVE
  /\ Cell(m, 16384) = 16 /\ Cell(m, 16385) = 206 /\ Cell(m, 16386) = 32 /\ Cell(m, 16387) = 0
  /\ Cell(m, 16388) = 182 /\ Cell(m, 16389) = 255 /\ Cell(m, 16390) = 1 /\ Cell(m, 16391) = 132
  /\ Cell(m, 16392) = 128 /\ Cell(m, 16393) = 39 /\ Cell(m, 16394) = 249 /\ Cell(m, 16395) = 246
  /\ Cell(m, 16396) = 255 /\ Cell(m, 16397) = 0 /\ Cell(m, 16398) = 182 /\ Cell(m, 16399) = 255
  /\ Cell(m, 16400) = 1 /\ Cell(m, 16401) = 132 /\ Cell(m, 16402) = 64 /\ Cell(m, 16403) = 39
  /\ Cell(m, 16404) = 239 /\ Cell(m, 16405) = 247 /\ Cell(m, 16406) = 255 /\ Cell(m, 16407) = 0
  /\ Cell(m, 16408) = 126 /\ Cell(m, 16409) = 64 /\ Cell(m, 16410) = 4
<1>1. Loaded["echo"] = echo
  BY DEF Loaded
<1>2. \A addr \in 16384..16410 : Cell(m, addr) = echo[addr]
  BY <1>1, BootCells, EchoImage
<1> QED BY <1>2, EchoImage

LEMMA HellowImage ==
  /\ DOMAIN hellow = 16384..16409
  /\ hellow[16384] = 49 /\ hellow[16385] = 140 /\ hellow[16386] = 18 /\ hellow[16387] = 166
  /\ hellow[16388] = 160 /\ hellow[16389] = 39 /\ hellow[16390] = 6 /\ hellow[16391] = 183
  /\ hellow[16392] = 255 /\ hellow[16393] = 0 /\ hellow[16394] = 126 /\ hellow[16395] = 64
  /\ hellow[16396] = 3 /\ hellow[16397] = 18 /\ hellow[16398] = 18 /\ hellow[16399] = 1
  /\ hellow[16400] = 0 /\ hellow[16401] = 0 /\ hellow[16402] = 126 /\ hellow[16403] = 64
  /\ hellow[16404] = 15 /\ hellow[16405] = 72 /\ hellow[16406] = 69 /\ hellow[16407] = 108
  /\ hellow[16408] = 33 /\ hellow[16409] = 0
BY DEF hellow, Image, Greeting, VM6809_DEFAULT_START

LEMMA HellowBytes ==
  ASSUME NEW m, m.mem = Boot("hellow")
  PROVE
  /\ Cell(m, 16384) = 49 /\ Cell(m, 16385) = 140 /\ Cell(m, 16386) = 18 /\ Cell(m, 16387) = 166
  /\ Cell(m, 16388) = 160 /\ Cell(m, 16389) = 39 /\ Cell(m, 16390) = 6 /\ Cell(m, 16391) = 183
  /\ Cell(m, 16392) = 255 /\ Cell(m, 16393) = 0 /\ Cell(m, 16394) = 126 /\ Cell(m, 16395) = 64
  /\ Cell(m, 16396) = 3 /\ Cell(m, 16397) = 18 /\ Cell(m, 16398) = 18 /\ Cell(m, 16399) = 1
  /\ Cell(m, 16400) = 0 /\ Cell(m, 16401) = 0 /\ Cell(m, 16402) = 126 /\ Cell(m, 16403) = 64
  /\ Cell(m, 16404) = 15 /\ Cell(m, 16405) = 72 /\ Cell(m, 16406) = 69 /\ Cell(m, 16407) = 108
  /\ Cell(m, 16408) = 33 /\ Cell(m, 16409) = 0
<1>1. Loaded["hellow"] = hellow
  BY DEF Loaded
<1>2. \A addr \in 16384..16409 : Cell(m, addr) = hellow[addr]
  BY <1>1, BootCells, HellowImage
<1> QED BY <1>2, HellowImage

-----------------------------------------------------------------------------
(***************************************************************************)
(* What the two programs compute with.                                     *)
(***************************************************************************)

(* The flags of a loaded value: Z tells zero, E and the mask bits stay.    *)
Held == {cc_e, cc_f, cc_i}

LEMMA FlagsOfValue ==
  ASSUME NEW codes, NEW value
  PROVE  /\ \A flags \in {_flags_nz_v8(codes, value), _flags_nz_v16(codes, value),
                         _flags_z16(codes, value)} :
              /\ cc_z \in flags <=> value = 0
              /\ flags \cap Held = codes \cap Held
BY DEF _flags_nz_v8, _flags_nz_v16, _flags_z16, Affect, _setclrf, When,
       Held, cc_n, cc_z, cc_v, cc_e, cc_f, cc_i

(* Testing one bit of the line status. *)
LEMMA TestedBit ==
  ASSUME NEW bits
  PROVE  /\ ByteOf(bits \cap Bits(64)) = IF 64 \in bits THEN 64 ELSE 0
         /\ ByteOf(bits \cap Bits(128)) = IF 128 \in bits THEN 128 ELSE 0
<1>1. Bits(64) = {64} /\ Bits(128) = {128}
  BY DEF Bits, Weight
<1> QED BY <1>1 DEF ByteOf

LEMMA UartReads ==
  ASSUME NEW m
  PROVE  /\ mem_rd8(m, 65281) = ByteOf(m.lsr) /\ AfterRd8(m, 65281) = m
         /\ mem_rd8(m, 65283) = ByteOf(m.iir) /\ AfterRd8(m, 65283) = m
         /\ mem_rd8(m, 65280) = m.rbr
         /\ AfterRd8(m, 65280) = With(m, "lsr", tio_read_rbr(m.lsr))
BY DEF mem_rd8, AfterRd8, With, TIO_ADDR_RBR_THR, TIO_ADDR_LSR, TIO_ADDR_IER, TIO_ADDR_IIR,
       TIO_ADDR_LCR, TIO_BASE_ADDRESS

(* LDA of the line status, the test of one of its bits, and BEQ getdata.   *)
LoadsA(m, next, v) == Done(m, next, _flags_nz_v8(m.cc, v), "a", v)
BitOf(m, weight) == IF weight \in Bits(m.a) THEN weight ELSE 0
GetData(m, next) == With(m, "pc", IF cc_z \in m.cc THEN 16388 ELSE next)

(* echo, one instruction after the other. *)
LEMMA EchoSteps ==
  ASSUME NEW m, IsMachine(m), m.mem = Boot("echo")
  PROVE  LET n == cpu_execop(m)
         IN  /\ m.pc = 16384 => n = Done(m, 16388, _flags_nz_v16(m.cc, 8192), "s", 8192)
             /\ m.pc = 16388 => n = LoadsA(m, 16391, ByteOf(m.lsr))
             /\ m.pc = 16391 => n = LoadsA(m, 16393, BitOf(m, 128))
             /\ m.pc = 16393 => n = GetData(m, 16395)
             /\ m.pc = 16395 => n = Done(With(m, "lsr", tio_read_rbr(m.lsr)), 16398,
                                         _flags_nz_v8(m.cc, m.rbr), "b", m.rbr)
             /\ m.pc = 16398 => n = LoadsA(m, 16401, ByteOf(m.lsr))
             /\ m.pc = 16401 => n = LoadsA(m, 16403, BitOf(m, 64))
             /\ m.pc = 16403 => n = GetData(m, 16405)
             /\ m.pc = 16405 => n = Done(With(m, "lsr", tio_write_thr(m.lsr)), 16408,
                                         _flags_nz_v8(m.cc, m.b), "thr", m.b)
             /\ m.pc = 16408 => n = With(m, "pc", 16388)
<1> DEFINE n == cpu_execop(m)
<1>1. ASSUME m.pc \in 16384..16408 PROVE InCode(m, 3) /\ InCode(m, 2) /\ InCode(m, 4)
  BY <1>1 DEF InCode, TIO_BASE_ADDRESS
<1>2. ASSUME m.pc = 16384
      PROVE  n = Done(m, 16388, _flags_nz_v16(m.cc, 8192), "s", 8192)
  <2>1. mem_rd16(m, m.pc + 2) = 8192
    BY <1>2, EchoBytes DEF mem_rd16
  <2>2. Cell(m, m.pc) = 16 /\ Cell(m, m.pc + 1) = 206
    BY <1>2, EchoBytes
  <2>3. InCode(m, 4) /\ m.pc + 4 = 16388
    BY <1>1, <1>2
  <2> QED BY <2>1, <2>2, <2>3, LoadStackPointer
<1>3. ASSUME NEW at \in {16388, 16398}, m.pc = at PROVE n = LoadsA(m, at + 3, ByteOf(m.lsr))
  <2>1. Operand16(m) = 65281 /\ Cell(m, m.pc) = 182
    BY <1>3, EchoBytes DEF mem_rd16, Operand16
  <2>2. Accumulator(182) = "a" /\ InCode(m, 3)
    BY <1>1, <1>3 DEF Accumulator
  <2> QED BY <1>3, <2>1, <2>2, LoadExtended, UartReads DEF LoadsA
<1>4. ASSUME m.pc = 16395
      PROVE  n = Done(With(m, "lsr", tio_read_rbr(m.lsr)), 16398,
                      _flags_nz_v8(m.cc, m.rbr), "b", m.rbr)
  <2>1. Operand16(m) = 65280 /\ Cell(m, m.pc) = 246
    BY <1>4, EchoBytes DEF mem_rd16, Operand16
  <2>2. Accumulator(246) = "b" /\ InCode(m, 3) /\ m.pc + 3 = 16398
    BY <1>1, <1>4 DEF Accumulator
  <2> QED BY <2>1, <2>2, LoadExtended, UartReads
<1>5. /\ m.pc = 16391 => n = LoadsA(m, 16393, BitOf(m, 128))
      /\ m.pc = 16401 => n = LoadsA(m, 16403, BitOf(m, 64))
  <2>1. ASSUME m.pc \in {16391, 16401}
        PROVE  /\ Operand8(m) = IF m.pc = 16391 THEN 128 ELSE 64
               /\ Cell(m, m.pc) = 132 /\ InCode(m, 2)
    BY <1>1, <2>1, EchoBytes DEF Operand8
  <2>2. /\ ByteOf(Bits(m.a) \cap Bits(128)) = BitOf(m, 128)
        /\ ByteOf(Bits(m.a) \cap Bits(64)) = BitOf(m, 64)
    BY TestedBit DEF BitOf
  <2>3. ASSUME m.pc \in {16391, 16401}
        PROVE  n = LoadsA(m, m.pc + 2, ByteOf(Bits(m.a) \cap Bits(Operand8(m))))
    BY <2>1, <2>3, AndImmediate DEF LoadsA
  <2>4. ASSUME m.pc = 16391 PROVE n = LoadsA(m, 16393, BitOf(m, 128))
    <3>1. Operand8(m) = 128 /\ m.pc + 2 = 16393
      BY <2>1, <2>4
    <3> QED BY <2>2, <2>3, <2>4, <3>1
  <2>5. ASSUME m.pc = 16401 PROVE n = LoadsA(m, 16403, BitOf(m, 64))
    <3>1. Operand8(m) = 64 /\ m.pc + 2 = 16403
      BY <2>1, <2>5
    <3> QED BY <2>2, <2>3, <2>5, <3>1
  <2> QED BY <2>4, <2>5
<1>6. ASSUME NEW at \in {16393, 16403}, m.pc = at PROVE n = GetData(m, at + 2)
  <2>1. Operand8(m) = IF m.pc = 16393 THEN 249 ELSE 239
    BY <1>6, EchoBytes DEF Operand8
  <2>2. Cell(m, m.pc) = 39 /\ InCode(m, 2)
    BY <1>1, <1>6, EchoBytes
  <2>3. Wrap(m.pc + 2 + _sext816(Operand8(m))) = 16388
    BY <1>6, <2>1 DEF Wrap, _sext816
  <2> QED BY <1>6, <2>2, <2>3, BranchIfEqual DEF GetData
<1>7. ASSUME m.pc = 16405
      PROVE  n = Done(With(m, "lsr", tio_write_thr(m.lsr)), 16408,
                      _flags_nz_v8(m.cc, m.b), "thr", m.b)
  <2>1. Operand16(m) = TIO_ADDR_RBR_THR
    BY <1>7, EchoBytes DEF mem_rd16, Operand16, TIO_ADDR_RBR_THR, TIO_BASE_ADDRESS
  <2>2. Cell(m, m.pc) = 247 /\ InCode(m, 3) /\ m.pc + 3 = 16408
    BY <1>1, <1>7, EchoBytes
  <2>3. Accumulator(247) = "b"
    BY DEF Accumulator
  <2> QED BY <2>1, <2>2, <2>3, StoreThr
<1>8. ASSUME m.pc = 16408 PROVE n = With(m, "pc", 16388)
  <2>1. Operand16(m) = 16388
    BY <1>8, EchoBytes DEF mem_rd16, Operand16
  <2>2. Cell(m, m.pc) = 126 /\ InCode(m, 3)
    BY <1>1, <1>8, EchoBytes
  <2> QED BY <2>1, <2>2, JumpExtended
<1> QED BY <1>2, <1>3, <1>4, <1>5, <1>6, <1>7, <1>8

(* hellow, up to the byte that is no instruction. *)
LEMMA HellowSteps ==
  ASSUME NEW m, IsMachine(m), m.mem = Boot("hellow")
  PROVE  LET n == cpu_execop(m)
         IN  /\ m.pc = 16384 => n = Done(m, 16387, _flags_z16(m.cc, 16405), "y", 16405)
             /\ m.pc = 16387 /\ m.y \in 16405..16409 =>
                  n = LoadsA(With(m, "y", m.y + 1), 16389, Text[m.y - 16404])
             /\ m.pc = 16389 => n = With(m, "pc", IF cc_z \in m.cc THEN 16397 ELSE 16391)
             /\ m.pc = 16391 => n = Done(With(m, "lsr", tio_write_thr(m.lsr)), 16394,
                                         _flags_nz_v8(m.cc, m.a), "thr", m.a)
             /\ m.pc = 16394 => n = With(m, "pc", 16387)
             /\ m.pc = 16397 => n = With(m, "pc", 16398)
             /\ m.pc = 16398 => n = With(m, "pc", 16399)
             /\ m.pc = 16399 => n = Failed(m, 16401)
<1> DEFINE n == cpu_execop(m)
<1>1. ASSUME m.pc \in 16384..16401
      PROVE  InCode(m, 1) /\ InCode(m, 3) /\ InCode(m, 2)
  BY <1>1 DEF InCode, TIO_BASE_ADDRESS
<1>2. ASSUME m.pc = 16384
      PROVE  n = Done(m, 16387, _flags_z16(m.cc, 16405), "y", 16405)
  <2>1. Cell(m, m.pc) = 49 /\ Operand8(m) = 140 /\ Cell(m, m.pc + 2) = 18 /\ InCode(m, 3)
    BY <1>1, <1>2, HellowBytes DEF Operand8
  <2>2. Wrap(m.pc + 3 + _sext816(Cell(m, m.pc + 2))) = 16405 /\ m.pc + 3 = 16387
    BY <1>2, <2>1 DEF Wrap, _sext816
  <2> QED BY <2>1, <2>2, LoadAddressY
<1>3. ASSUME m.pc = 16387, m.y \in 16405..16409
      PROVE  n = LoadsA(With(m, "y", m.y + 1), 16389, Text[m.y - 16404])
  <2>1. Cell(m, m.pc) = 166 /\ Operand8(m) = 160 /\ InCode(m, 2) /\ m.pc + 2 = 16389
    BY <1>1, <1>3, HellowBytes DEF Operand8
  <2>2. Cell(m, m.y) = Text[m.y - 16404]
    BY <1>3, HellowBytes DEF Text, Greeting
  <2>3. m.y < TIO_BASE_ADDRESS /\ Wrap(m.y + 1) = m.y + 1
    BY <1>3 DEF Wrap, TIO_BASE_ADDRESS
  <2>4. With(m, "y", m.y + 1).cc = m.cc
    BY DEF With, IsMachine
  <2> QED BY <2>1, <2>2, <2>3, <2>4, LoadNext DEF LoadsA
<1>4. ASSUME m.pc = 16389
      PROVE  n = With(m, "pc", IF cc_z \in m.cc THEN 16397 ELSE 16391)
  <2>1. Operand8(m) = 6 /\ Cell(m, m.pc) = 39 /\ InCode(m, 2) /\ m.pc + 2 = 16391
    BY <1>1, <1>4, HellowBytes DEF Operand8
  <2>2. Wrap(m.pc + 2 + _sext816(Operand8(m))) = 16397
    BY <1>4, <2>1 DEF Wrap, _sext816
  <2> QED BY <2>1, <2>2, BranchIfEqual
<1>5. ASSUME m.pc = 16391
      PROVE  n = Done(With(m, "lsr", tio_write_thr(m.lsr)), 16394,
                      _flags_nz_v8(m.cc, m.a), "thr", m.a)
  <2>1. Operand16(m) = TIO_ADDR_RBR_THR
    BY <1>5, HellowBytes DEF mem_rd16, Operand16, TIO_ADDR_RBR_THR, TIO_BASE_ADDRESS
  <2>2. Cell(m, m.pc) = 183 /\ InCode(m, 3) /\ m.pc + 3 = 16394
    BY <1>1, <1>5, HellowBytes
  <2>3. Accumulator(183) = "a"
    BY DEF Accumulator
  <2> QED BY <2>1, <2>2, <2>3, StoreThr
<1>6. ASSUME m.pc = 16394 PROVE n = With(m, "pc", 16387)
  <2>1. Operand16(m) = 16387
    BY <1>6, HellowBytes DEF mem_rd16, Operand16
  <2>2. Cell(m, m.pc) = 126 /\ InCode(m, 3)
    BY <1>1, <1>6, HellowBytes
  <2> QED BY <2>1, <2>2, JumpExtended
<1>7. ASSUME NEW at \in {16397, 16398}, m.pc = at PROVE n = With(m, "pc", at + 1)
  <2>1. Cell(m, m.pc) = 18 /\ InCode(m, 1) /\ m.pc + 1 = at + 1
    BY <1>1, <1>7, HellowBytes
  <2> QED BY <2>1, Nop
<1>8. ASSUME m.pc = 16399
      PROVE  n = Failed(m, 16401)
  <2>1. Cell(m, m.pc) = 1 /\ InCode(m, 2) /\ m.pc + 2 = 16401
    BY <1>1, <1>8, HellowBytes
  <2> QED BY <2>1, NoInstruction
<1> QED BY <1>2, <1>3, <1>4, <1>5, <1>6, <1>7, <1>8

LEMMA EchoIrqImage ==
  /\ DOMAIN echoirq = 16384..16425
  /\ echoirq[16384] = 16 /\ echoirq[16385] = 206 /\ echoirq[16386] = 32 /\ echoirq[16387] = 0
  /\ echoirq[16388] = 204 /\ echoirq[16389] = 64 /\ echoirq[16390] = 21 /\ echoirq[16391] = 253
  /\ echoirq[16392] = 255 /\ echoirq[16393] = 248 /\ echoirq[16394] = 134 /\ echoirq[16395] = 128
  /\ echoirq[16396] = 183 /\ echoirq[16397] = 255 /\ echoirq[16398] = 2 /\ echoirq[16399] = 18
  /\ echoirq[16400] = 18 /\ echoirq[16401] = 18 /\ echoirq[16402] = 126 /\ echoirq[16403] = 64
  /\ echoirq[16404] = 15 /\ echoirq[16405] = 182 /\ echoirq[16406] = 255 /\ echoirq[16407] = 3
  /\ echoirq[16408] = 132 /\ echoirq[16409] = 128 /\ echoirq[16410] = 39 /\ echoirq[16411] = 13
  /\ echoirq[16412] = 246 /\ echoirq[16413] = 255 /\ echoirq[16414] = 0 /\ echoirq[16415] = 182
  /\ echoirq[16416] = 255 /\ echoirq[16417] = 1 /\ echoirq[16418] = 132 /\ echoirq[16419] = 64
  /\ echoirq[16420] = 39 /\ echoirq[16421] = 3 /\ echoirq[16422] = 247 /\ echoirq[16423] = 255
  /\ echoirq[16424] = 0 /\ echoirq[16425] = 59
BY DEF echoirq, Image, VM6809_DEFAULT_START

LEMMA EchoIrqBytes ==
  ASSUME NEW m, InMemory(m)
  PROVE
  /\ Cell(m, 16384) = 16 /\ Cell(m, 16385) = 206 /\ Cell(m, 16386) = 32 /\ Cell(m, 16387) = 0
  /\ Cell(m, 16388) = 204 /\ Cell(m, 16389) = 64 /\ Cell(m, 16390) = 21 /\ Cell(m, 16391) = 253
  /\ Cell(m, 16392) = 255 /\ Cell(m, 16393) = 248 /\ Cell(m, 16394) = 134 /\ Cell(m, 16395) = 128
  /\ Cell(m, 16396) = 183 /\ Cell(m, 16397) = 255 /\ Cell(m, 16398) = 2 /\ Cell(m, 16399) = 18
  /\ Cell(m, 16400) = 18 /\ Cell(m, 16401) = 18 /\ Cell(m, 16402) = 126 /\ Cell(m, 16403) = 64
  /\ Cell(m, 16404) = 15 /\ Cell(m, 16405) = 182 /\ Cell(m, 16406) = 255 /\ Cell(m, 16407) = 3
  /\ Cell(m, 16408) = 132 /\ Cell(m, 16409) = 128 /\ Cell(m, 16410) = 39 /\ Cell(m, 16411) = 13
  /\ Cell(m, 16412) = 246 /\ Cell(m, 16413) = 255 /\ Cell(m, 16414) = 0 /\ Cell(m, 16415) = 182
  /\ Cell(m, 16416) = 255 /\ Cell(m, 16417) = 1 /\ Cell(m, 16418) = 132 /\ Cell(m, 16419) = 64
  /\ Cell(m, 16420) = 39 /\ Cell(m, 16421) = 3 /\ Cell(m, 16422) = 247 /\ Cell(m, 16423) = 255
  /\ Cell(m, 16424) = 0 /\ Cell(m, 16425) = 59
<1>1. \A addr \in 16384..16425 : Cell(m, addr) = echoirq[addr]
  BY EchoIrqImage DEF InMemory
<1> QED BY <1>1, EchoIrqImage

(* echoirq: its setup, its loop, and the handler up to the RTI. *)
SkipEcho(m, next) == With(m, "pc", IF cc_z \in m.cc THEN 16425 ELSE next)

LEMMA EchoIrqSteps ==
  ASSUME NEW m, IsMachine(m), InMemory(m)
  PROVE  LET n == cpu_execop(m)
         IN  /\ m.pc = 16384 => n = Done(m, 16388, _flags_nz_v16(m.cc, 8192), "s", 8192)
             /\ m.pc = 16388 => n = Done(With(m, "b", 21), 16391,
                                         _flags_nz_v16(m.cc, 16405), "a", 64)
             /\ m.pc = 16391 => n = Done(m, 16394, _flags_nz_v16(m.cc, Get(m, "d")), "mem",
                                         Written(Written(m.mem, 65528, m.a), 65529, m.b))
             /\ m.pc = 16394 => n = LoadsA(m, 16396, 128)
             /\ m.pc = 16396 => n = Done(m, 16399, _flags_nz_v8(m.cc, m.a), "ier", Bits(m.a))
             /\ m.pc = 16399 => n = With(m, "pc", 16400)
             /\ m.pc = 16400 => n = With(m, "pc", 16401)
             /\ m.pc = 16401 => n = With(m, "pc", 16402)
             /\ m.pc = 16402 => n = With(m, "pc", 16399)
             /\ m.pc = 16405 => n = LoadsA(m, 16408, ByteOf(m.iir))
             /\ m.pc = 16408 => n = LoadsA(m, 16410, BitOf(m, 128))
             /\ m.pc = 16410 => n = SkipEcho(m, 16412)
             /\ m.pc = 16412 => n = Done(With(m, "lsr", tio_read_rbr(m.lsr)), 16415,
                                         _flags_nz_v8(m.cc, m.rbr), "b", m.rbr)
             /\ m.pc = 16415 => n = LoadsA(m, 16418, ByteOf(m.lsr))
             /\ m.pc = 16418 => n = LoadsA(m, 16420, BitOf(m, 64))
             /\ m.pc = 16420 => n = SkipEcho(m, 16422)
             /\ m.pc = 16422 => n = Done(With(m, "lsr", tio_write_thr(m.lsr)), 16425,
                                         _flags_nz_v8(m.cc, m.b), "thr", m.b)
<1> DEFINE n == cpu_execop(m)
<1>1. ASSUME m.pc \in 16384..16425
      PROVE  InCode(m, 1) /\ InCode(m, 3) /\ InCode(m, 2) /\ InCode(m, 4)
  BY <1>1 DEF InCode, TIO_BASE_ADDRESS
<1>2. ASSUME m.pc = 16384
      PROVE  n = Done(m, 16388, _flags_nz_v16(m.cc, 8192), "s", 8192)
  <2>1. mem_rd16(m, m.pc + 2) = 8192
    BY <1>2, EchoIrqBytes DEF mem_rd16
  <2>2. Cell(m, m.pc) = 16 /\ Cell(m, m.pc + 1) = 206
    BY <1>2, EchoIrqBytes
  <2>3. InCode(m, 4) /\ m.pc + 4 = 16388
    BY <1>1, <1>2
  <2> QED BY <2>1, <2>2, <2>3, LoadStackPointer
<1>3. ASSUME m.pc = 16388
      PROVE  n = Done(With(m, "b", 21), 16391, _flags_nz_v16(m.cc, 16405), "a", 64)
  <2>1. Operand16(m) = 16405 /\ Cell(m, m.pc) = 204
    BY <1>3, EchoIrqBytes DEF mem_rd16, Operand16
  <2>2. InCode(m, 3) /\ m.pc + 3 = 16391 /\ 16405 % 256 = 21 /\ 16405 \div 256 = 64
    BY <1>1, <1>3
  <2> QED BY <2>1, <2>2, LoadD
<1>4. ASSUME m.pc = 16391
      PROVE  n = Done(m, 16394, _flags_nz_v16(m.cc, Get(m, "d")), "mem",
                      Written(Written(m.mem, 65528, m.a), 65529, m.b))
  <2>1. Operand16(m) = 65528 /\ Cell(m, m.pc) = 253
    BY <1>4, EchoIrqBytes DEF mem_rd16, Operand16
  <2>2. InCode(m, 3) /\ m.pc + 3 = 16394 /\ 65528 + 1 = 65529
    BY <1>1, <1>4
  <2> QED BY <2>1, <2>2, StoreD
<1>5. ASSUME m.pc = 16394 PROVE n = LoadsA(m, 16396, 128)
  <2>1. Operand8(m) = 128 /\ Cell(m, m.pc) = 134 /\ InCode(m, 2) /\ m.pc + 2 = 16396
    BY <1>1, <1>5, EchoIrqBytes DEF Operand8
  <2> QED BY <2>1, LoadImmediate DEF LoadsA
<1>6. ASSUME m.pc = 16396
      PROVE  n = Done(m, 16399, _flags_nz_v8(m.cc, m.a), "ier", Bits(m.a))
  <2>1. Operand16(m) = TIO_ADDR_IER
    BY <1>6, EchoIrqBytes DEF mem_rd16, Operand16, TIO_ADDR_IER, TIO_BASE_ADDRESS
  <2>2. Cell(m, m.pc) = 183 /\ InCode(m, 3) /\ m.pc + 3 = 16399
    BY <1>1, <1>6, EchoIrqBytes
  <2> QED BY <2>1, <2>2, StoreIer
<1>7. ASSUME NEW at \in {16399, 16400, 16401}, m.pc = at PROVE n = With(m, "pc", at + 1)
  <2>1. Cell(m, m.pc) = 18 /\ InCode(m, 1) /\ m.pc + 1 = at + 1
    BY <1>1, <1>7, EchoIrqBytes
  <2> QED BY <2>1, Nop
<1>8. ASSUME m.pc = 16402 PROVE n = With(m, "pc", 16399)
  <2>1. Operand16(m) = 16399
    BY <1>8, EchoIrqBytes DEF mem_rd16, Operand16
  <2>2. Cell(m, m.pc) = 126 /\ InCode(m, 3)
    BY <1>1, <1>8, EchoIrqBytes
  <2> QED BY <2>1, <2>2, JumpExtended
<1>9. ASSUME m.pc = 16405 PROVE n = LoadsA(m, 16408, ByteOf(m.iir))
  <2>1. Operand16(m) = 65283 /\ Cell(m, m.pc) = 182
    BY <1>9, EchoIrqBytes DEF mem_rd16, Operand16
  <2>2. Accumulator(182) = "a" /\ InCode(m, 3) /\ m.pc + 3 = 16408
    BY <1>1, <1>9 DEF Accumulator
  <2> QED BY <2>1, <2>2, LoadExtended, UartReads DEF LoadsA
<1>10. /\ m.pc = 16408 => n = LoadsA(m, 16410, BitOf(m, 128))
       /\ m.pc = 16418 => n = LoadsA(m, 16420, BitOf(m, 64))
  <2>1. ASSUME m.pc \in {16408, 16418}
        PROVE  /\ Operand8(m) = IF m.pc = 16408 THEN 128 ELSE 64
               /\ Cell(m, m.pc) = 132 /\ InCode(m, 2)
    BY <1>1, <2>1, EchoIrqBytes DEF Operand8
  <2>2. /\ ByteOf(Bits(m.a) \cap Bits(128)) = BitOf(m, 128)
        /\ ByteOf(Bits(m.a) \cap Bits(64)) = BitOf(m, 64)
    BY TestedBit DEF BitOf
  <2>3. ASSUME m.pc \in {16408, 16418}
        PROVE  n = LoadsA(m, m.pc + 2, ByteOf(Bits(m.a) \cap Bits(Operand8(m))))
    BY <2>1, <2>3, AndImmediate DEF LoadsA
  <2>4. ASSUME m.pc = 16408 PROVE n = LoadsA(m, 16410, BitOf(m, 128))
    <3>1. Operand8(m) = 128 /\ m.pc + 2 = 16410
      BY <2>1, <2>4
    <3> QED BY <2>2, <2>3, <2>4, <3>1
  <2>5. ASSUME m.pc = 16418 PROVE n = LoadsA(m, 16420, BitOf(m, 64))
    <3>1. Operand8(m) = 64 /\ m.pc + 2 = 16420
      BY <2>1, <2>5
    <3> QED BY <2>2, <2>3, <2>5, <3>1
  <2> QED BY <2>4, <2>5
<1>11. ASSUME NEW at \in {16410, 16420}, m.pc = at PROVE n = SkipEcho(m, at + 2)
  <2>1. Operand8(m) = IF m.pc = 16410 THEN 13 ELSE 3
    BY <1>11, EchoIrqBytes DEF Operand8
  <2>2. Cell(m, m.pc) = 39 /\ InCode(m, 2)
    BY <1>1, <1>11, EchoIrqBytes
  <2>3. Wrap(m.pc + 2 + _sext816(Operand8(m))) = 16425
    BY <1>11, <2>1 DEF Wrap, _sext816
  <2> QED BY <1>11, <2>2, <2>3, BranchIfEqual DEF SkipEcho
<1>12. ASSUME m.pc = 16412
       PROVE  n = Done(With(m, "lsr", tio_read_rbr(m.lsr)), 16415,
                       _flags_nz_v8(m.cc, m.rbr), "b", m.rbr)
  <2>1. Operand16(m) = 65280 /\ Cell(m, m.pc) = 246
    BY <1>12, EchoIrqBytes DEF mem_rd16, Operand16
  <2>2. Accumulator(246) = "b" /\ InCode(m, 3) /\ m.pc + 3 = 16415
    BY <1>1, <1>12 DEF Accumulator
  <2> QED BY <2>1, <2>2, LoadExtended, UartReads
<1>13. ASSUME m.pc = 16415 PROVE n = LoadsA(m, 16418, ByteOf(m.lsr))
  <2>1. Operand16(m) = 65281 /\ Cell(m, m.pc) = 182
    BY <1>13, EchoIrqBytes DEF mem_rd16, Operand16
  <2>2. Accumulator(182) = "a" /\ InCode(m, 3) /\ m.pc + 3 = 16418
    BY <1>1, <1>13 DEF Accumulator
  <2> QED BY <2>1, <2>2, LoadExtended, UartReads DEF LoadsA
<1>14. ASSUME m.pc = 16422
       PROVE  n = Done(With(m, "lsr", tio_write_thr(m.lsr)), 16425,
                       _flags_nz_v8(m.cc, m.b), "thr", m.b)
  <2>1. Operand16(m) = TIO_ADDR_RBR_THR
    BY <1>14, EchoIrqBytes DEF mem_rd16, Operand16, TIO_ADDR_RBR_THR, TIO_BASE_ADDRESS
  <2>2. Cell(m, m.pc) = 247 /\ InCode(m, 3) /\ m.pc + 3 = 16425
    BY <1>1, <1>14, EchoIrqBytes
  <2>3. Accumulator(247) = "b"
    BY DEF Accumulator
  <2> QED BY <2>1, <2>2, <2>3, StoreThr
<1> QED BY <1>2, <1>3, <1>4, <1>5, <1>6, <1>7, <1>8, <1>9, <1>10, <1>11, <1>12, <1>13, <1>14

-----------------------------------------------------------------------------
(***************************************************************************)
(* From the machine of an instruction to the variables of the loop.        *)
(***************************************************************************)

(* What is the same in two machines. *)
Keeps(n, m, changed) == \A field \in DOMAIN m \ changed : n[field] = m[field]

LEMMA WithFields ==
  ASSUME NEW m, NEW field \in DOMAIN m, NEW value
  PROVE  /\ DOMAIN With(m, field, value) = DOMAIN m
         /\ With(m, field, value)[field] = value
         /\ Keeps(With(m, field, value), m, {field})
BY DEF With, Keeps

LEMMA DoneFields ==
  ASSUME NEW m, {"pc", "cc"} \subseteq DOMAIN m, NEW next, NEW codes,
         NEW field \in DOMAIN m \ {"pc", "cc"}, NEW value
  PROVE  LET n == Done(m, next, codes, field, value)
         IN  /\ n.pc = next /\ n.cc = codes /\ n[field] = value
             /\ Keeps(n, m, {"pc", "cc", field})
<1> DEFINE k == With(m, "pc", next)
           l == With(k, "cc", codes)
           n == With(l, field, value)
<1>1. DOMAIN k = DOMAIN m /\ k.pc = next /\ Keeps(k, m, {"pc"})
  BY WithFields
<1> HIDE DEF k
<1>2. DOMAIN l = DOMAIN m /\ l.cc = codes /\ Keeps(l, k, {"cc"})
  BY <1>1, WithFields
<1> HIDE DEF l
<1>3. n[field] = value /\ Keeps(n, l, {field})
  BY <1>2, WithFields
<1>4. Done(m, next, codes, field, value) = n
  BY DEF Done, k, l
<1> HIDE DEF n
<1> QED BY <1>1, <1>2, <1>3, <1>4 DEF Keeps

(* The fields of the machine are the variables, in this state and in the   *)
(* next.                                                                   *)
LEMMA FieldsAreVariables ==
  /\ Machine.a = cpu.a /\ Machine.b = cpu.b /\ Machine.dp = cpu.dp /\ Machine.x = cpu.x
  /\ Machine.y = cpu.y /\ Machine.u = cpu.u /\ Machine.s = cpu.s /\ Machine.cc = cpu.cc
  /\ Machine.lcr = cpu.lcr /\ Machine.mem = cpu.mem /\ Machine.pc = pc
  /\ Machine.irq = irq /\ Machine.trap = trap /\ Machine.ok = ~fault
  /\ Machine.crashed = FALSE /\ Machine.rbr = rbr /\ Machine.thr = thr
  /\ Machine.lsr = lsr /\ Machine.ier = ier /\ Machine.iir = iir
  /\ DOMAIN Machine = {"a", "b", "dp", "x", "y", "u", "s", "cc", "lcr", "mem", "pc", "irq",
                       "trap", "ok", "crashed", "rbr", "thr", "lsr", "ier", "iir"}
BY DEF Machine

LEMMA Becoming ==
  ASSUME NEW n, IsMachine(n), n.crashed = FALSE, Becomes(n), fault \in BOOLEAN
  PROVE  /\ Machine' = n /\ IsMachine(Machine)'
         /\ mask' = cpu'.cc \cap {cc_f, cc_i}
         /\ cpu'.a = n.a /\ cpu'.b = n.b /\ cpu'.y = n.y /\ cpu'.s = n.s /\ cpu'.cc = n.cc
         /\ cpu'.mem = n.mem /\ pc' = n.pc /\ irq' = n.irq /\ trap' = n.trap
         /\ fault' = ~n.ok /\ rbr' = n.rbr /\ thr' = n.thr /\ lsr' = n.lsr /\ ier' = n.ier
         /\ iir' = n.iir
         /\ UNCHANGED <<kbd, shown, perform_tio, term, sigint, armed, resume>>
<1>1. /\ cpu'.a = n.a /\ cpu'.b = n.b /\ cpu'.dp = n.dp /\ cpu'.x = n.x /\ cpu'.y = n.y
      /\ cpu'.u = n.u /\ cpu'.s = n.s /\ cpu'.cc = n.cc /\ cpu'.lcr = n.lcr
      /\ cpu'.mem = n.mem
  BY DEF Becomes
<1>2. Machine' = n
  <2>1. n.ok = ~fault'
    BY DEF Becomes, IsMachine
  <2>2. Machine' = [a |-> n.a, b |-> n.b, dp |-> n.dp, x |-> n.x, y |-> n.y, u |-> n.u,
          s |-> n.s, cc |-> n.cc, lcr |-> n.lcr, mem |-> n.mem,
          pc |-> n.pc, irq |-> n.irq, trap |-> n.trap, ok |-> n.ok, crashed |-> n.crashed,
          rbr |-> n.rbr, thr |-> n.thr, lsr |-> n.lsr, ier |-> n.ier, iir |-> n.iir]
    BY <1>1, <2>1 DEF Machine, Becomes
  <2> QED BY <2>2 DEF IsMachine
<1>3. IsMachine(Machine)'
  BY <1>2 DEF IsMachine
<1> QED BY <1>1, <1>2, <1>3 DEF Becomes

LEMMA Turned ==
  ASSUME IsMachine(Machine), fault \in BOOLEAN, NEW n, IsMachine(n), Becomes(n),
         NEW changed, Keeps(n, Machine, changed), "crashed" \notin changed
  PROVE  /\ n.crashed = FALSE
         /\ "a" \notin changed => cpu'.a = cpu.a
         /\ "b" \notin changed => cpu'.b = cpu.b
         /\ "y" \notin changed => cpu'.y = cpu.y
         /\ "s" \notin changed => cpu'.s = cpu.s
         /\ "cc" \notin changed => cpu'.cc = cpu.cc
         /\ "mem" \notin changed => cpu'.mem = cpu.mem
         /\ "pc" \notin changed => pc' = pc
         /\ "irq" \notin changed => irq' = irq
         /\ "trap" \notin changed => trap' = trap
         /\ "ok" \notin changed => fault' = fault
         /\ "rbr" \notin changed => rbr' = rbr
         /\ "thr" \notin changed => thr' = thr
         /\ "lsr" \notin changed => lsr' = lsr
         /\ "ier" \notin changed => ier' = ier
         /\ "iir" \notin changed => iir' = iir
<1>1. \A field \in DOMAIN Machine : field \notin changed => n[field] = Machine[field]
  BY DEF Keeps
<1>2. n.crashed = FALSE
  BY <1>1, FieldsAreVariables
<1>3. /\ "a" \notin changed => n.a = Machine.a
      /\ "b" \notin changed => n.b = Machine.b
      /\ "y" \notin changed => n.y = Machine.y
      /\ "s" \notin changed => n.s = Machine.s
      /\ "cc" \notin changed => n.cc = Machine.cc
      /\ "mem" \notin changed => n.mem = Machine.mem
      /\ "pc" \notin changed => n.pc = Machine.pc
      /\ "irq" \notin changed => n.irq = Machine.irq
      /\ "trap" \notin changed => n.trap = Machine.trap
      /\ "ok" \notin changed => n.ok = Machine.ok
      /\ "rbr" \notin changed => n.rbr = Machine.rbr
      /\ "thr" \notin changed => n.thr = Machine.thr
      /\ "lsr" \notin changed => n.lsr = Machine.lsr
      /\ "ier" \notin changed => n.ier = Machine.ier
      /\ "iir" \notin changed => n.iir = Machine.iir
  BY <1>1, FieldsAreVariables
<1>4. /\ cpu'.a = n.a /\ cpu'.b = n.b /\ cpu'.y = n.y /\ cpu'.s = n.s /\ cpu'.cc = n.cc
      /\ cpu'.mem = n.mem /\ pc' = n.pc /\ irq' = n.irq /\ trap' = n.trap
      /\ rbr' = n.rbr /\ thr' = n.thr /\ lsr' = n.lsr /\ ier' = n.ier /\ iir' = n.iir
  BY <1>2, Becoming
<1>5. "ok" \notin changed => fault' = fault
  <2>1. fault' = ~n.ok
    BY <1>2, Becoming
  <2> QED BY <1>3, <2>1, FieldsAreVariables
<1>6. /\ Machine.a = cpu.a /\ Machine.b = cpu.b /\ Machine.y = cpu.y /\ Machine.s = cpu.s
      /\ Machine.cc = cpu.cc /\ Machine.mem = cpu.mem /\ Machine.pc = pc
      /\ Machine.irq = irq /\ Machine.trap = trap /\ Machine.rbr = rbr
      /\ Machine.thr = thr /\ Machine.lsr = lsr /\ Machine.ier = ier /\ Machine.iir = iir
  BY FieldsAreVariables
<1> HIDE DEF Machine
<1> QED BY <1>2, <1>3, <1>4, <1>5, <1>6

(* A turn of the loop in which an instruction is due.                      *)
Turn == GuestTypeOK /\ LoopInv /\ GuestInv /\ GuestInstruction

LEMMA TurnStarts ==
  ASSUME Turn
  PROVE  /\ IsMachine(Machine) /\ IsMachine(cpu_execop(Machine)) /\ Becomes(cpu_execop(Machine))
         /\ fault = FALSE /\ erred = FALSE /\ perform_tio /\ xxr_thr_empty \in lsr
         /\ Printed = shown /\ shown \in Seq(Char)
<1>1. IsMachine(Machine) /\ Becomes(cpu_execop(Machine)) /\ phase = "op"
  BY DEF Turn, GuestTypeOK, GuestInstruction
<1>2. fault = FALSE /\ erred = FALSE /\ perform_tio
  BY <1>1 DEF Turn, LoopInv, FaultSeen, HaltGate, RawWhileRunning, Running,
              GuestTypeOK, TypeOK
<1>3. xxr_thr_empty \in lsr
  BY <1>1 DEF Turn, GuestInv, Steady
<1>4. shown \in Seq(Char) /\ Printed = shown \o <<>>
  BY <1>3 DEF Turn, GuestTypeOK, TypeOK, UartTypeOK, Printed
<1> QED BY <1>1, <1>2, <1>3, <1>4, InstructionsKeepMachine, ConcatEmptySeq

(* What is the same for every instruction of the programs. *)
Turns ==
  /\ phase' = "tio" /\ erred' = fault'
  /\ ran' = IF ran < 2 THEN ran + 1 ELSE 2
  /\ UNCHANGED <<kbd, shown, rbr, iir, irq, perform_tio, term, sigint, armed, resume,
                 program, received, typed>>
  /\ IsMachine(Machine)' /\ mask' = cpu'.cc \cap {cc_f, cc_i}
  /\ cpu'.cc \cap Held = cpu.cc \cap Held

LEMMA Turning ==
  ASSUME Turn, NEW changed \in SUBSET {"pc", "cc", "a", "b", "dp", "x", "y", "u", "s", "mem",
                                       "thr", "lsr", "ier", "ok", "trap"},
         Keeps(cpu_execop(Machine), Machine, changed),
         cpu_execop(Machine).cc \cap Held = cpu.cc \cap Held
  PROVE  Turns
<1> DEFINE n == cpu_execop(Machine)
<1>1. IsMachine(Machine) /\ IsMachine(n) /\ Becomes(n) /\ fault \in BOOLEAN /\ erred = FALSE
  BY TurnStarts
<1>2. n.crashed = FALSE /\ rbr' = rbr /\ iir' = iir /\ irq' = irq
  <2>1. /\ "crashed" \notin changed /\ "rbr" \notin changed /\ "iir" \notin changed
        /\ "irq" \notin changed /\ Keeps(n, Machine, changed)
    OBVIOUS
  <2> HIDE DEF n
  <2> QED BY <1>1, <2>1, Turned
<1>3. /\ IsMachine(Machine)' /\ mask' = cpu'.cc \cap {cc_f, cc_i} /\ cpu'.cc = n.cc
      /\ UNCHANGED <<kbd, shown, perform_tio, term, sigint, armed, resume>>
  BY <1>1, <1>2, Becoming
<1>4. fault' = ~n.ok
  BY <1>1, <1>2, Becoming
<1>5. /\ phase' = IF n.crashed THEN "crash" ELSE "tio"
      /\ erred' = (erred \/ ~n.ok)
      /\ ran' = IF ran < 2 THEN ran + 1 ELSE 2
      /\ UNCHANGED <<program, received, typed>>
  BY DEF Turn, GuestInstruction
<1> HIDE DEF n
<1>6. phase' = "tio"
  BY <1>2, <1>5
<1>7. erred' = fault'
  BY <1>1, <1>4, <1>5
<1> QED BY <1>2, <1>3, <1>5, <1>6, <1>7 DEF Turns, n

(* An instruction in terms of the variables: one that only moves pc, and   *)
(* one that also sets the condition codes and a field, of a machine that   *)
(* differs from the one before in a register that it has loaded or moved,  *)
(* or in the line status.                                                  *)
LEMMA PcTurn ==
  ASSUME Turn, NEW next, cpu_execop(Machine) = With(Machine, "pc", next)
  PROVE  /\ Turns /\ pc' = next /\ UNCHANGED <<fault, trap, thr, lsr, ier>>
         /\ cpu'.a = cpu.a /\ cpu'.b = cpu.b /\ cpu'.y = cpu.y /\ cpu'.s = cpu.s
         /\ cpu'.cc = cpu.cc /\ cpu'.mem = cpu.mem
<1> DEFINE n == cpu_execop(Machine)
<1>1. IsMachine(Machine) /\ IsMachine(n) /\ Becomes(n) /\ fault \in BOOLEAN
  BY TurnStarts
<1>2. n.pc = next /\ Keeps(n, Machine, {"pc"})
  BY WithFields, FieldsAreVariables
<1>3. n.cc = cpu.cc
  BY <1>2, FieldsAreVariables DEF Keeps
<1>4. Turns
  BY <1>2, <1>3, Turning
<1> HIDE DEF n
<1>5. /\ n.crashed = FALSE /\ UNCHANGED <<fault, trap, thr, lsr, ier>>
      /\ cpu'.a = cpu.a /\ cpu'.b = cpu.b /\ cpu'.y = cpu.y /\ cpu'.s = cpu.s
      /\ cpu'.cc = cpu.cc /\ cpu'.mem = cpu.mem
  <2> DEFINE changed == {"pc"}
  <2>1. /\ "crashed" \notin changed /\ "ok" \notin changed /\ "trap" \notin changed
        /\ "thr" \notin changed /\ "lsr" \notin changed /\ "ier" \notin changed
        /\ "a" \notin changed /\ "b" \notin changed /\ "y" \notin changed
        /\ "s" \notin changed /\ "cc" \notin changed /\ "mem" \notin changed
    OBVIOUS
  <2>2. Keeps(n, Machine, changed)
    BY <1>2
  <2> HIDE DEF changed
  <2> QED BY <1>1, <2>1, <2>2, Turned
<1>6. pc' = n.pc
  BY <1>1, <1>5, Becoming
<1> QED BY <1>2, <1>4, <1>5, <1>6

Loaded8 == {"a", "b", "y", "lsr"}
Result  == {"a", "b", "y", "s", "mem", "thr", "ier"}

LEMMA DoneTurn ==
  ASSUME Turn, NEW m, DOMAIN m = DOMAIN Machine, NEW loaded \in Loaded8,
         Keeps(m, Machine, {loaded}),
         NEW next, NEW codes, codes \cap Held = cpu.cc \cap Held,
         NEW field \in Result, NEW value,
         cpu_execop(Machine) = Done(m, next, codes, field, value)
  PROVE  /\ Turns /\ pc' = next /\ cpu'.cc = codes /\ UNCHANGED <<fault, trap>>
         /\ cpu'.a = (IF field = "a" THEN value ELSE m.a)
         /\ cpu'.b = (IF field = "b" THEN value ELSE m.b)
         /\ cpu'.y = (IF field = "y" THEN value ELSE m.y)
         /\ cpu'.s = (IF field = "s" THEN value ELSE cpu.s)
         /\ cpu'.mem = (IF field = "mem" THEN value ELSE cpu.mem)
         /\ thr' = (IF field = "thr" THEN value ELSE thr)
         /\ ier' = (IF field = "ier" THEN value ELSE ier)
         /\ lsr' = m.lsr
<1> DEFINE n == cpu_execop(Machine)
           changed == {"pc", "cc", field, loaded}
<1>1. IsMachine(Machine) /\ IsMachine(n) /\ Becomes(n) /\ fault \in BOOLEAN
  BY TurnStarts
<1>2. {"pc", "cc"} \subseteq DOMAIN m /\ field \in DOMAIN m \ {"pc", "cc"}
  BY FieldsAreVariables DEF Result
<1>3. n.pc = next /\ n.cc = codes /\ n[field] = value /\ Keeps(n, m, {"pc", "cc", field})
  BY <1>2, DoneFields
<1>4. Keeps(n, Machine, changed)
  BY <1>3 DEF Keeps
<1>5. Turns
  BY <1>3, <1>4, Turning DEF Loaded8, Result
<1>6. /\ field # "a" => n.a = m.a
      /\ field # "b" => n.b = m.b
      /\ field # "y" => n.y = m.y
      /\ n.lsr = m.lsr
      /\ field # "s" => n.s = m.s
      /\ field # "mem" => n.mem = m.mem
      /\ field # "thr" => n.thr = m.thr
      /\ field # "ier" => n.ier = m.ier
  BY <1>3, FieldsAreVariables DEF Keeps, Result
<1>7. m.s = cpu.s /\ m.mem = cpu.mem /\ m.thr = thr /\ m.ier = ier
  BY FieldsAreVariables DEF Keeps, Loaded8
<1>8. n.crashed = FALSE /\ UNCHANGED <<fault, trap>>
  <2>1. "crashed" \notin changed /\ "ok" \notin changed /\ "trap" \notin changed
    BY DEF Loaded8, Result
  <2> HIDE DEF changed, n
  <2> QED BY <1>1, <1>4, <2>1, Turned
<1> HIDE DEF n
<1>9. /\ cpu'.a = n.a /\ cpu'.b = n.b /\ cpu'.y = n.y /\ cpu'.s = n.s /\ cpu'.cc = n.cc
      /\ cpu'.mem = n.mem /\ pc' = n.pc /\ thr' = n.thr /\ lsr' = n.lsr /\ ier' = n.ier
  BY <1>1, <1>8, Becoming
<1> QED BY <1>3, <1>5, <1>6, <1>7, <1>8, <1>9

(* The same for the two machines it is used with. *)
LEMMA MachineTurn ==
  ASSUME Turn, NEW next, NEW codes, codes \cap Held = cpu.cc \cap Held,
         NEW field \in Result, NEW value,
         cpu_execop(Machine) = Done(Machine, next, codes, field, value)
  PROVE  /\ Turns /\ pc' = next /\ cpu'.cc = codes /\ UNCHANGED <<fault, trap, lsr>>
         /\ cpu'.a = (IF field = "a" THEN value ELSE cpu.a)
         /\ cpu'.b = (IF field = "b" THEN value ELSE cpu.b)
         /\ cpu'.y = (IF field = "y" THEN value ELSE cpu.y)
         /\ cpu'.s = (IF field = "s" THEN value ELSE cpu.s)
         /\ cpu'.mem = (IF field = "mem" THEN value ELSE cpu.mem)
         /\ thr' = (IF field = "thr" THEN value ELSE thr)
         /\ ier' = (IF field = "ier" THEN value ELSE ier)
<1> DEFINE m == Machine
<1>1. /\ DOMAIN m = DOMAIN Machine /\ Keeps(m, Machine, {"lsr"}) /\ "lsr" \in Loaded8
      /\ cpu_execop(Machine) = Done(m, next, codes, field, value)
  BY DEF Keeps, Loaded8
<1>2. m.a = cpu.a /\ m.b = cpu.b /\ m.y = cpu.y /\ m.lsr = lsr
  BY FieldsAreVariables
<1> HIDE DEF m
<1> QED BY <1>1, <1>2, DoneTurn

LEMMA StatusTurn ==
  ASSUME Turn, NEW status, NEW next, NEW codes,
         codes \cap Held = cpu.cc \cap Held,
         NEW field \in Result, NEW value,
         cpu_execop(Machine) = Done(With(Machine, "lsr", status), next, codes, field, value)
  PROVE  /\ Turns /\ pc' = next /\ cpu'.cc = codes /\ UNCHANGED <<fault, trap>>
         /\ cpu'.a = (IF field = "a" THEN value ELSE cpu.a)
         /\ cpu'.b = (IF field = "b" THEN value ELSE cpu.b)
         /\ cpu'.y = (IF field = "y" THEN value ELSE cpu.y)
         /\ cpu'.s = (IF field = "s" THEN value ELSE cpu.s)
         /\ cpu'.mem = (IF field = "mem" THEN value ELSE cpu.mem)
         /\ thr' = (IF field = "thr" THEN value ELSE thr)
         /\ ier' = (IF field = "ier" THEN value ELSE ier)
         /\ lsr' = status
<1> DEFINE m == With(Machine, "lsr", status)
<1>1. /\ DOMAIN m = DOMAIN Machine /\ Keeps(m, Machine, {"lsr"}) /\ "lsr" \in Loaded8
      /\ m.lsr = status
  BY WithFields, FieldsAreVariables DEF Loaded8
<1>2. m.a = cpu.a /\ m.b = cpu.b /\ m.y = cpu.y
  BY <1>1, FieldsAreVariables DEF Keeps
<1>3. cpu_execop(Machine) = Done(m, next, codes, field, value)
  OBVIOUS
<1> HIDE DEF m
<1> QED BY <1>1, <1>2, <1>3, DoneTurn

-----------------------------------------------------------------------------
(***************************************************************************)
(* echo, turn by turn.                                                     *)
(***************************************************************************)
LEMMA EchoTurn ==
  ASSUME Turn, program = "echo"
  PROVE  /\ Turns /\ UNCHANGED <<fault, trap, ier>> /\ cpu'.mem = cpu.mem
         /\ pc = 16384 => pc' = 16388 /\ UNCHANGED <<lsr, thr>>
         /\ pc = 16388 => pc' = 16391 /\ UNCHANGED <<lsr, thr>> /\ cpu'.a = ByteOf(lsr)
         /\ pc = 16391 => pc' = 16393 /\ UNCHANGED <<lsr, thr>>
                          /\ (cc_z \notin cpu'.cc => 128 \in Bits(cpu.a))
         /\ pc = 16393 => pc' = (IF cc_z \in cpu.cc THEN 16388 ELSE 16395)
                          /\ UNCHANGED <<lsr, thr>>
         /\ pc = 16395 => pc' = 16398 /\ lsr' = tio_read_rbr(lsr) /\ thr' = thr
                          /\ cpu'.b = rbr
         /\ pc = 16398 => pc' = 16401 /\ UNCHANGED <<lsr, thr>> /\ cpu'.a = ByteOf(lsr)
                          /\ cpu'.b = cpu.b
         /\ pc = 16401 => pc' = 16403 /\ UNCHANGED <<lsr, thr>> /\ cpu'.b = cpu.b
                          /\ (cc_z \in cpu'.cc => 64 \notin Bits(cpu.a))
         /\ pc = 16403 => pc' = (IF cc_z \in cpu.cc THEN 16388 ELSE 16405)
                          /\ UNCHANGED <<lsr, thr>> /\ cpu'.b = cpu.b
         /\ pc = 16405 => pc' = 16408 /\ lsr' = tio_write_thr(lsr) /\ thr' = cpu.b
         /\ pc = 16408 => pc' = 16388 /\ UNCHANGED <<lsr, thr>>
<1> DEFINE n == cpu_execop(Machine)
           unmoved == Turns /\ UNCHANGED <<fault, trap, ier>> /\ cpu'.mem = cpu.mem
<1>1. IsMachine(Machine) /\ Machine.mem = Boot("echo") /\ pc \in Line["echo"]
  BY TurnStarts, FieldsAreVariables DEF Turn, GuestInv, Undisturbed, Steady
<1>2. /\ Machine.a = cpu.a /\ Machine.b = cpu.b /\ Machine.cc = cpu.cc
      /\ Machine.rbr = rbr /\ Machine.lsr = lsr /\ Machine.pc = pc
  BY FieldsAreVariables
<1>3. {"a", "b", "s", "thr"} \subseteq Result
  BY DEF Result
<1>4. CASE pc = 16384
  <2>1. n = Done(Machine, 16388, _flags_nz_v16(cpu.cc, 8192), "s", 8192)
    BY <1>1, <1>2, <1>4, EchoSteps
  <2> QED BY <1>3, <1>4, <2>1, MachineTurn, FlagsOfValue
<1>5. ASSUME NEW at \in {16388, 16398}, pc = at
      PROVE  unmoved /\ pc' = at + 3 /\ UNCHANGED <<lsr, thr>> /\ cpu'.a = ByteOf(lsr)
             /\ cpu'.b = cpu.b
  <2>1. n = Done(Machine, at + 3, _flags_nz_v8(cpu.cc, ByteOf(lsr)), "a", ByteOf(lsr))
    BY <1>1, <1>2, <1>5, EchoSteps DEF LoadsA
  <2> QED BY <1>3, <2>1, MachineTurn, FlagsOfValue
<1>6. ASSUME NEW at \in {16391, 16401}, pc = at
      PROVE  LET bit == IF at = 16391 THEN 128 ELSE 64
             IN  unmoved /\ pc' = at + 2 /\ UNCHANGED <<lsr, thr>> /\ cpu'.b = cpu.b
                 /\ (cc_z \in cpu'.cc <=> bit \notin Bits(cpu.a))
  <2> DEFINE bit == IF at = 16391 THEN 128 ELSE 64
             value == IF bit \in Bits(cpu.a) THEN bit ELSE 0
             codes == _flags_nz_v8(cpu.cc, value)
  <2>1. n = Done(Machine, at + 2, codes, "a", value)
    BY <1>1, <1>2, <1>6, EchoSteps DEF LoadsA, BitOf
  <2>2. /\ cc_z \in codes <=> value = 0
        /\ codes \cap Held = cpu.cc \cap Held
    BY FlagsOfValue
  <2>3. value = 0 <=> bit \notin Bits(cpu.a)
    BY <1>6
  <2> HIDE DEF codes, value
  <2>4. unmoved /\ pc' = at + 2 /\ UNCHANGED <<lsr, thr>> /\ cpu'.b = cpu.b /\ cpu'.cc = codes
    BY <1>3, <2>1, <2>2, MachineTurn
  <2> QED BY <2>2, <2>3, <2>4
<1>7. ASSUME NEW at \in {16393, 16403}, pc = at
      PROVE  unmoved /\ pc' = (IF cc_z \in cpu.cc THEN 16388 ELSE at + 2)
             /\ UNCHANGED <<lsr, thr>> /\ cpu'.b = cpu.b
  <2> DEFINE next == IF cc_z \in cpu.cc THEN 16388 ELSE at + 2
  <2>1. n = With(Machine, "pc", next)
    BY <1>1, <1>2, <1>7, EchoSteps DEF GetData
  <2> HIDE DEF next
  <2>2. unmoved /\ pc' = next /\ UNCHANGED <<lsr, thr>> /\ cpu'.b = cpu.b
    BY <2>1, PcTurn
  <2> QED BY <2>2 DEF next
<1>8. CASE pc = 16395
  <2>1. n = Done(With(Machine, "lsr", tio_read_rbr(lsr)), 16398,
                 _flags_nz_v8(cpu.cc, rbr), "b", rbr)
    BY <1>1, <1>2, <1>8, EchoSteps
  <2> QED BY <1>3, <1>8, <2>1, StatusTurn, FlagsOfValue
<1>9. CASE pc = 16405
  <2>1. n = Done(With(Machine, "lsr", tio_write_thr(lsr)), 16408,
                 _flags_nz_v8(cpu.cc, cpu.b), "thr", cpu.b)
    BY <1>1, <1>2, <1>9, EchoSteps
  <2> QED BY <1>3, <1>9, <2>1, StatusTurn, FlagsOfValue
<1>10. CASE pc = 16408
  <2>1. n = With(Machine, "pc", 16388)
    BY <1>1, <1>2, <1>10, EchoSteps
  <2> QED BY <1>10, <2>1, PcTurn
<1>11. pc \in {16384, 16388, 16391, 16393, 16395, 16398, 16401, 16403, 16405, 16408}
  BY <1>1 DEF Line
<1> HIDE DEF n
<1> QED BY <1>4, <1>5, <1>6, <1>7, <1>8, <1>9, <1>10, <1>11

-----------------------------------------------------------------------------
(***************************************************************************)
(* hellow, turn by turn.                                                   *)
(***************************************************************************)
LEMMA FailedTurn ==
  ASSUME Turn, NEW next, cpu_execop(Machine) = Failed(Machine, next)
  PROVE  /\ Turns /\ pc' = next /\ fault' /\ trap' = {tc_trap}
         /\ UNCHANGED <<thr, lsr, ier>> /\ cpu'.mem = cpu.mem /\ cpu'.cc = cpu.cc
<1> DEFINE k == With(Machine, "pc", next)
           l == With(k, "ok", FALSE)
           n == With(l, "trap", {tc_trap})
           changed == {"pc", "ok", "trap"}
<1>1. DOMAIN k = DOMAIN Machine /\ k.pc = next /\ Keeps(k, Machine, {"pc"})
  BY WithFields, FieldsAreVariables
<1> HIDE DEF k
<1>2. DOMAIN l = DOMAIN Machine /\ l.ok = FALSE /\ Keeps(l, k, {"ok"})
  <2>1. "ok" \in DOMAIN k
    BY <1>1, FieldsAreVariables
  <2>2. DOMAIN l = DOMAIN k /\ l["ok"] = FALSE /\ Keeps(l, k, {"ok"})
    BY <2>1, WithFields, Zenon
  <2> QED BY <1>1, <2>2
<1> HIDE DEF l
<1>3. n.trap = {tc_trap} /\ Keeps(n, l, {"trap"})
  BY <1>2, WithFields, FieldsAreVariables
<1>4. n = cpu_execop(Machine)
  BY DEF Failed, k, l
<1> HIDE DEF n
<1>5. n.pc = next /\ n.ok = FALSE /\ Keeps(n, Machine, changed) /\ n.cc = cpu.cc
  BY <1>1, <1>2, <1>3, FieldsAreVariables DEF Keeps
<1>6. IsMachine(Machine) /\ IsMachine(n) /\ Becomes(n) /\ fault \in BOOLEAN
  BY <1>4, TurnStarts
<1>7. Turns
  BY <1>4, <1>5, Turning
<1>8. /\ "crashed" \notin changed /\ "thr" \notin changed /\ "lsr" \notin changed
      /\ "ier" \notin changed /\ "mem" \notin changed
  OBVIOUS
<1> HIDE DEF changed
<1>9. n.crashed = FALSE /\ UNCHANGED <<thr, lsr, ier>> /\ cpu'.mem = cpu.mem
  BY <1>5, <1>6, <1>8, Turned
<1>10. pc' = n.pc /\ fault' = ~n.ok /\ trap' = n.trap /\ cpu'.cc = n.cc
  BY <1>6, <1>9, Becoming
<1> QED BY <1>3, <1>5, <1>7, <1>9, <1>10

LEMMA HellowTurn ==
  ASSUME Turn, program = "hellow"
  PROVE  /\ Turns /\ UNCHANGED ier /\ cpu'.mem = cpu.mem
         /\ pc = 16399 => pc' = 16401 /\ UNCHANGED <<lsr, thr>>
                          /\ fault' /\ trap' = {tc_trap}
         /\ pc # 16399 => UNCHANGED <<fault, trap>>
         /\ pc = 16384 => pc' = 16387 /\ UNCHANGED <<lsr, thr>> /\ cpu'.y = 16405
         /\ pc = 16387 => pc' = 16389 /\ UNCHANGED <<lsr, thr>> /\ cpu'.y = cpu.y + 1
                          /\ cpu'.a = Text[cpu.y - 16404] /\ (cc_z \in cpu'.cc <=> cpu'.a = 0)
         /\ pc = 16389 => pc' = (IF cc_z \in cpu.cc THEN 16397 ELSE 16391)
                          /\ UNCHANGED <<lsr, thr>> /\ cpu'.y = cpu.y /\ cpu'.a = cpu.a
         /\ pc = 16391 => pc' = 16394 /\ lsr' = tio_write_thr(lsr) /\ thr' = cpu.a
                          /\ cpu'.y = cpu.y
         /\ pc = 16394 => pc' = 16387 /\ UNCHANGED <<lsr, thr>> /\ cpu'.y = cpu.y
         /\ pc \in {16397, 16398} => pc' = pc + 1 /\ UNCHANGED <<lsr, thr>>
         /\ pc # 16401
<1> DEFINE n == cpu_execop(Machine)
           unmoved == Turns /\ UNCHANGED <<fault, trap, ier>> /\ cpu'.mem = cpu.mem
<1>1. /\ IsMachine(Machine) /\ Machine.mem = Boot("hellow") /\ pc \in Line["hellow"]
      /\ erred = FALSE
  BY TurnStarts, FieldsAreVariables DEF Turn, GuestInv, Undisturbed, Steady
<1>2. /\ Machine.a = cpu.a /\ Machine.y = cpu.y /\ Machine.cc = cpu.cc
      /\ Machine.lsr = lsr /\ Machine.pc = pc
  BY FieldsAreVariables
<1>3. {"a", "y", "thr"} \subseteq Result
  BY DEF Result
<1>4. CASE pc = 16384
  <2>1. n = Done(Machine, 16387, _flags_z16(cpu.cc, 16405), "y", 16405)
    BY <1>1, <1>2, <1>4, HellowSteps
  <2> QED BY <1>3, <1>4, <2>1, MachineTurn, FlagsOfValue
<1>5. CASE pc = 16387
  <2> DEFINE m == With(Machine, "y", cpu.y + 1)
             value == Text[cpu.y - 16404]
             codes == _flags_nz_v8(cpu.cc, value)
  <2>1. cpu.y \in 16405..16409
    BY <1>5 DEF Turn, GuestInv, HellowInv, Hello
  <2>2. DOMAIN m = DOMAIN Machine /\ m.y = cpu.y + 1 /\ Keeps(m, Machine, {"y"})
    BY WithFields, FieldsAreVariables
  <2>3. m.cc = cpu.cc /\ m.lsr = lsr
    BY <2>2, FieldsAreVariables DEF Keeps
  <2> HIDE DEF value
  <2>4. n = Done(m, 16389, codes, "a", value)
    BY <1>1, <1>2, <1>5, <2>1, <2>3, HellowSteps DEF LoadsA, value
  <2>5. /\ cc_z \in codes <=> value = 0
        /\ codes \cap Held = cpu.cc \cap Held
    BY FlagsOfValue
  <2> HIDE DEF m, codes
  <2>6. /\ unmoved /\ pc' = 16389 /\ cpu'.cc = codes /\ cpu'.a = value /\ cpu'.y = m.y
        /\ lsr' = m.lsr /\ thr' = thr
    BY <1>3, <2>2, <2>4, <2>5, DoneTurn DEF Loaded8
  <2> QED BY <1>5, <2>2, <2>3, <2>5, <2>6 DEF value
<1>6. CASE pc = 16389
  <2> DEFINE next == IF cc_z \in cpu.cc THEN 16397 ELSE 16391
  <2>1. n = With(Machine, "pc", next)
    BY <1>1, <1>2, <1>6, HellowSteps
  <2> HIDE DEF next
  <2>2. unmoved /\ pc' = next /\ UNCHANGED <<lsr, thr>> /\ cpu'.a = cpu.a /\ cpu'.y = cpu.y
    BY <2>1, PcTurn
  <2> QED BY <1>6, <2>2 DEF next
<1>7. CASE pc = 16391
  <2>1. n = Done(With(Machine, "lsr", tio_write_thr(lsr)), 16394,
                 _flags_nz_v8(cpu.cc, cpu.a), "thr", cpu.a)
    BY <1>1, <1>2, <1>7, HellowSteps
  <2> QED BY <1>3, <1>7, <2>1, StatusTurn, FlagsOfValue
<1>8. CASE pc = 16394
  <2>1. n = With(Machine, "pc", 16387)
    BY <1>1, <1>2, <1>8, HellowSteps
  <2> QED BY <1>8, <2>1, PcTurn
<1>9. ASSUME NEW at \in {16397, 16398}, pc = at
      PROVE  unmoved /\ pc' = pc + 1 /\ UNCHANGED <<lsr, thr>>
  <2>1. n = With(Machine, "pc", at + 1)
    BY <1>1, <1>2, <1>9, HellowSteps
  <2> QED BY <1>9, <2>1, PcTurn
<1>10. ASSUME pc = 16399
       PROVE  /\ Turns /\ UNCHANGED ier /\ cpu'.mem = cpu.mem /\ pc' = 16401
              /\ UNCHANGED <<lsr, thr>> /\ fault' /\ trap' = {tc_trap}
  <2>1. n = Failed(Machine, 16401)
    BY <1>1, <1>2, <1>10, HellowSteps
  <2> QED BY <2>1, FailedTurn
<1>11. pc \in {16384, 16387, 16389, 16391, 16394, 16397, 16398, 16399}
  <2>1. pc # 16401
    BY <1>1 DEF Turn, GuestInv, HellowInv
  <2> QED BY <1>1, <2>1 DEF Line
<1> HIDE DEF n
<1> QED BY <1>4, <1>5, <1>6, <1>7, <1>8, <1>9, <1>10, <1>11

-----------------------------------------------------------------------------
(***************************************************************************)
(* Every instruction is of one of the kinds of VmLoop.                     *)
(***************************************************************************)
LEMMA Rooms ==
  ASSUME GuestTypeOK
  PROVE  /\ Line[program] \subseteq Addr /\ {} \in Mask /\ Addr \subseteq Word
         /\ program \in {"echo", "hellow", "echoirq"}
<1>1. program \in ProgramName
  BY GuestLoopAssumption DEF GuestTypeOK
<1> QED BY <1>1, GuestLoopAssumption, LoopAssumption DEF GuestTypeOK, ProgramName

LEMMA Kinds ==
  ASSUME Turn, Turns, pc' \in Line[program]
  PROVE  /\ UNCHANGED <<thr, lsr, ier, fault, trap>> => AnyInstruction
         /\ UNCHANGED <<thr, ier, fault, trap>> /\ lsr' = tio_read_rbr(lsr) => AnyInstruction
         /\ UNCHANGED <<ier, fault, trap>> /\ lsr' = tio_write_thr(lsr)
              /\ thr' \in CpuChar /\ Len(shown) < MaxOut => AnyInstruction
         /\ UNCHANGED <<thr, lsr, fault, trap>> /\ ier' = {xxr_rbr_full} => AnyInstruction
         /\ UNCHANGED <<thr, lsr, ier>> /\ fault' /\ trap' = {tc_trap} => AnyInstruction
<1>1. fault' \in BOOLEAN
  BY Becoming, TurnStarts, FieldsOfMachine, FieldsAreVariables DEF Turn, GuestInstruction, Becomes
<1>2. /\ phase = "op" /\ mask = {} /\ mask' = {} /\ {} \in Mask /\ pc' \in Addr
  BY Rooms DEF Turn, Turns, Held, GuestInstruction, GuestTypeOK, GuestInv, Steady
<1>3. fault = FALSE /\ erred = FALSE
  BY TurnStarts
<1>4. /\ phase' = "tio" /\ erred' = fault' /\ ran' = IF ran < 2 THEN ran + 1 ELSE 2
      /\ UNCHANGED <<kbd, shown, rbr, iir, irq, perform_tio, term, sigint, armed, resume>>
  BY DEF Turns
<1>5. ASSUME NEW kind \in Instr, erred' <=> kind \in {"fault", "badPost", "crash"},
             erred' \in BOOLEAN
      PROVE  Executes(kind)
  <2>1. erred' = (erred \/ kind \in {"fault", "badPost", "crash"})
    BY <1>3, <1>5
  <2> QED BY <1>2, <1>4, <2>1 DEF Executes
<1>6. {"internal", "readRbr", "writeThr", "writeIer", "fault"} \subseteq Instr
  BY RoomAssumption
<1>7. ASSUME UNCHANGED fault
      PROVE  /\ Executes("internal") /\ Executes("readRbr")
             /\ Executes("writeThr") /\ Executes("writeIer")
  <2>1. ~erred' /\ erred' \in BOOLEAN
    BY <1>3, <1>4, <1>7
  <2>2. \A kind \in {"internal", "readRbr", "writeThr", "writeIer"} :
          kind \in Instr /\ kind \notin {"fault", "badPost", "crash"}
    BY <1>6
  <2> QED BY <1>5, <2>1, <2>2
<1>8. fault' => Executes("fault")
  <2>1. erred' \in BOOLEAN /\ (fault' => erred')
    BY <1>1, <1>4
  <2> QED BY <1>5, <1>6, <2>1
<1>9. UNCHANGED <<thr, lsr, ier, fault, trap>> => OpInternal
  BY <1>2, <1>4, <1>7 DEF OpInternal
<1>10. UNCHANGED <<thr, ier, fault, trap>> /\ lsr' = tio_read_rbr(lsr) => OpReadRbr
  BY <1>2, <1>4, <1>7 DEF OpReadRbr
<1>11. ASSUME UNCHANGED <<ier, fault, trap>>, lsr' = tio_write_thr(lsr),
              thr' \in CpuChar, Len(shown) < MaxOut
       PROVE  AnyInstruction
  <2>1. OpWriteThr(thr')
    BY <1>2, <1>4, <1>7, <1>11 DEF OpWriteThr, Prints
  <2> QED BY <1>11, <2>1 DEF AnyInstruction
<1>12. ASSUME UNCHANGED <<thr, lsr, fault, trap>>, ier' = {xxr_rbr_full}
       PROVE  AnyInstruction
  <2>1. OpWriteIer(ier') /\ ier' \in IerValue
    BY <1>2, <1>4, <1>7, <1>12, RoomAssumption DEF OpWriteIer
  <2> QED BY <2>1 DEF AnyInstruction
<1>13. UNCHANGED <<thr, lsr, ier>> /\ fault' /\ trap' = {tc_trap} => OpFault
  BY <1>2, <1>4, <1>8 DEF OpFault
<1> QED BY <1>9, <1>10, <1>11, <1>12, <1>13 DEF AnyInstruction

(* The screen has room for whatever can have been typed, and the greeting. *)
LEMMA RoomToPrint ==
  ASSUME Turn, Len(shown) <= Len(received) \/ Len(shown) <= Len(Greeting)
  PROVE  Len(shown) < MaxOut
<1>1. Len(received) + 2 * Len(kbd) <= 2 * typed /\ typed <= MaxTyped
  BY GuestLoopAssumption DEF Turn, GuestInv, Steady, GuestTypeOK
<1>2. /\ Len(received) \in Nat /\ Len(kbd) \in Nat /\ Len(shown) \in Nat /\ typed \in Nat
      /\ MaxTyped \in Nat /\ MaxOut \in Nat
  BY GuestLoopAssumption, LoopAssumption, LenProperties
     DEF Turn, GuestTypeOK, TypeOK, UartTypeOK
<1>3. MaxOut > 2 * MaxTyped /\ MaxOut > Len(Greeting) /\ Len(Greeting) = 4
  BY RoomAssumption DEF Greeting
<1> QED BY <1>1, <1>2, <1>3

-----------------------------------------------------------------------------
(***************************************************************************)
(* The instructions of echo and hellow keep the invariant.                 *)
(***************************************************************************)
LEMMA EchoedIsSeq == ASSUME NEW cc \in Char PROVE Echoed(cc) \in Seq(Char)
BY UartAssumption DEF Echoed

LEMMA Sizes ==
  ASSUME GuestTypeOK, GuestInv
  PROVE  /\ shown \in Seq(Char) /\ received \in Seq(Char) /\ kbd \in Seq(Key)
         /\ Printed \in Seq(Char) /\ InRbr \in Seq(Char) /\ rbr \in Char /\ thr \in Char
         /\ lsr \subseteq UartFlag
<1>1. /\ shown \in Seq(Char) /\ received \in Seq(Char) /\ rbr \in Char /\ thr \in Char
      /\ lsr \subseteq UartFlag
  BY DEF GuestTypeOK, TypeOK, UartTypeOK
<1>2. Echoed(rbr) \in Seq(Char) /\ Echoed(thr) \in Seq(Char)
  BY <1>1, EchoedIsSeq
<1>3. shown \o Echoed(thr) \in Seq(Char) /\ shown \o <<>> \in Seq(Char)
  BY <1>1, <1>2, ConcatProperties
<1> QED BY <1>1, <1>2, <1>3 DEF GuestInv, Steady, Printed, InRbr

LEMMA SteadyTurn ==
  ASSUME Turn, Turns, pc' \in Line[program], lsr' \subseteq lsr
  PROVE  Steady'
<1>1. /\ phase' = "tio" /\ perform_tio' /\ program' = program /\ kbd' = kbd /\ rbr' = rbr
      /\ received' = received /\ typed' = typed
      /\ cpu'.cc \cap {cc_f, cc_i} = cpu.cc \cap {cc_f, cc_i}
  BY TurnStarts DEF Turns, Held
<1>2. Steady
  BY DEF Turn, GuestInv
<1> QED BY <1>1, <1>2 DEF Steady

LEMMA EchoInstruction ==
  ASSUME Turn, program = "echo"
  PROVE  AnyInstruction /\ Steady' /\ Undisturbed' /\ EchoInv'
<1> USE DEF xxr_rbr_full, xxr_thr_empty, tio_read_rbr, tio_write_thr
<1>1. /\ Turns /\ UNCHANGED <<fault, trap, ier>> /\ cpu'.mem = cpu.mem
      /\ irq' = irq /\ program' = program /\ received' = received /\ shown' = shown
      /\ rbr' = rbr /\ erred' = fault'
  BY EchoTurn DEF Turns
<1>2. /\ fault = FALSE /\ xxr_thr_empty \in lsr /\ Printed = shown
      /\ GuestTypeOK /\ GuestInv /\ Steady /\ EchoInv /\ Undisturbed
      /\ pc \in Line["echo"]
  BY TurnStarts DEF Turn, GuestInv, Steady
<1>3. /\ shown \in Seq(Char) /\ InRbr \in Seq(Char) /\ rbr \in Char /\ CpuChar \subseteq Char
      /\ lsr \subseteq UartFlag
  BY <1>2, Sizes, LoopAssumption
<1>4. Undisturbed'
  BY <1>1, <1>2 DEF Undisturbed
<1>5. ~erred'
  BY <1>1, <1>2
<1>6. received = Printed \o (InB \o InRbr)
  BY <1>2 DEF EchoInv
<1>7. lsr' = lsr /\ thr' = thr => Printed' = Printed /\ InRbr' = InRbr
  BY <1>1 DEF Printed, InRbr
<1>8. Bits(ByteOf(lsr)) = lsr
  BY <1>3, ByteOfBits, FlagsAreWeights
<1>9. ASSUME NEW at \in {16384, 16388, 16391, 16393, 16408}, pc = at
      PROVE  AnyInstruction /\ Steady' /\ EchoInv'
  <2>1. /\ pc' \in {16388, 16391, 16393, 16395} /\ UNCHANGED <<lsr, thr>>
        /\ pc' = 16391 => cpu'.a = ByteOf(lsr)
        /\ pc' = 16393 => pc = 16391 /\ (cc_z \in cpu'.cc \/ xxr_rbr_full \in Bits(cpu.a))
        /\ pc' = 16395 => cc_z \notin cpu.cc /\ pc = 16393
    BY <1>9, EchoTurn
  <2>2. pc' \in Line["echo"] /\ pc' \in Line[program]
    BY <2>1 DEF Line
  <2>3. InB' = <<>> /\ InB = <<>>
    BY <1>9, <2>1 DEF InB
  <2>4. received' = Printed' \o (InB' \o InRbr')
    BY <1>1, <1>6, <1>7, <2>1, <2>3
  <2>5. EchoInv'
    BY <1>2, <1>5, <1>8, <2>1, <2>4 DEF EchoInv
  <2> QED BY <1>1, <2>1, <2>2, <2>5, Kinds, SteadyTurn
<1>10. CASE pc = 16395
  <2>1. /\ pc' = 16398 /\ lsr' = lsr \ {xxr_rbr_full} /\ thr' = thr /\ cpu'.b = rbr
        /\ pc' \in Line[program]
    BY <1>10, EchoTurn DEF Line
  <2>2. xxr_rbr_full \in lsr /\ rbr \in CpuChar
    BY <1>2, <1>10 DEF EchoInv, Steady
  <2>3. /\ InB = <<>> /\ InB' = Echoed(rbr)
        /\ InRbr = Echoed(rbr) /\ InRbr' = <<>>
        /\ Printed' = Printed
    <3>1. InB = <<>> /\ InB' = Echoed(rbr)
      BY <1>10, <2>1 DEF InB
    <3>2. InRbr = Echoed(rbr) /\ InRbr' = <<>>
      BY <2>1, <2>2 DEF InRbr
    <3>3. Printed' = Printed
      <4>1. shown' = shown /\ xxr_thr_empty \in lsr /\ xxr_thr_empty \in lsr'
        BY <1>1, <1>2, <2>1
      <4> QED BY <4>1 DEF Printed
    <3> QED BY <3>1, <3>2, <3>3
  <2>4. received' = Printed' \o (InB' \o InRbr')
    BY <1>6, <1>1, <1>3, <2>3, EchoedIsSeq, ConcatEmptySeq
  <2>5. EchoInv'
    BY <1>5, <2>1, <2>2, <2>4 DEF EchoInv
  <2> QED BY <1>1, <1>4, <2>1, <2>5, Kinds, SteadyTurn
<1>11. ASSUME NEW at \in {16398, 16401, 16403}, pc = at
       PROVE  AnyInstruction /\ Steady' /\ EchoInv'
  <2>1. /\ at = 16398 => pc' = 16401 /\ cpu'.a = ByteOf(lsr)
        /\ at = 16401 => pc' = 16403 /\ (cc_z \in cpu'.cc => xxr_thr_empty \notin Bits(cpu.a))
        /\ at = 16403 => pc' = IF cc_z \in cpu.cc THEN 16388 ELSE 16405
        /\ UNCHANGED <<lsr, thr>> /\ cpu'.b = cpu.b
    BY <1>11, EchoTurn
  <2>2. /\ at = 16401 => xxr_thr_empty \in Bits(cpu.a)
        /\ at = 16403 => cc_z \notin cpu.cc
        /\ cpu.b \in CpuChar
    BY <1>2, <1>11 DEF EchoInv
  <2>3. pc' \in {16401, 16403, 16405} /\ pc' \in Line[program]
    BY <1>1, <2>1, <2>2 DEF Line
  <2>4. InB' = InB
    BY <1>11, <2>1, <2>3 DEF InB
  <2>5. received' = Printed' \o (InB' \o InRbr')
    BY <1>1, <1>6, <1>7, <2>1, <2>4
  <2>6. EchoInv'
    BY <1>2, <1>5, <1>8, <2>1, <2>2, <2>3, <2>5 DEF EchoInv
  <2> QED BY <1>1, <2>1, <2>3, <2>6, Kinds, SteadyTurn
<1>12. CASE pc = 16405
  <2>1. /\ pc' = 16408 /\ lsr' = lsr \ {xxr_thr_empty} /\ thr' = cpu.b
        /\ pc' \in Line[program]
    BY <1>12, EchoTurn DEF Line
  <2>2. cpu.b \in CpuChar
    BY <1>2, <1>12 DEF EchoInv
  <2>3. InB' = <<>> /\ InB = Echoed(cpu.b) /\ InRbr' = InRbr
        /\ Printed' = shown \o Echoed(cpu.b)
    BY <1>1, <1>2, <1>12, <2>1 DEF InB, InRbr, Printed
  <2>4. received = shown \o (InB \o InRbr) /\ InB \in Seq(Char)
    BY <1>2, <1>3, <2>2, <2>3, EchoedIsSeq DEF EchoInv
  <2>5. received' = Printed' \o (InB' \o InRbr')
    BY <1>1, <1>3, <2>3, <2>4, ConcatAssociative, ConcatEmptySeq
  <2>6. EchoInv'
    BY <1>5, <2>1, <2>5 DEF EchoInv
  <2>7. Len(shown) <= Len(received)
    <3>1. InB \o InRbr \in Seq(Char)
      BY <1>3, <2>4, ConcatProperties
    <3>2. Len(received) = Len(shown) + Len(InB \o InRbr)
      BY <1>3, <2>4, <3>1, ConcatProperties
    <3> QED BY <1>3, <3>1, <3>2, LenProperties
  <2> QED BY <1>1, <1>4, <2>1, <2>2, <2>6, <2>7, Kinds, SteadyTurn, RoomToPrint
<1>13. pc \in {16384, 16388, 16391, 16393, 16395, 16398, 16401, 16403, 16405, 16408}
  BY <1>2 DEF Line
<1> QED BY <1>4, <1>9, <1>10, <1>11, <1>12, <1>13

(* The next letter of the greeting. *)
LEMMA NextLetter ==
  ASSUME NEW count \in 1..5, Text[count] # 0
  PROVE  /\ count \in 1..4 /\ Text[count] \in CpuChar /\ Echoed(Text[count]) = <<Text[count]>>
         /\ SubSeq(Greeting, 1, count) = SubSeq(Greeting, 1, count - 1) \o <<Text[count]>>
<1>1. count \in 1..4 /\ Text[count] = Greeting[count]
  BY DEF Text, Greeting
<1>2. Greeting[count] \in ToSet(Greeting) /\ Greeting[count] # 13
  BY <1>1 DEF ToSet, Greeting
<1>3. Text[count] \in CpuChar /\ Echoed(Text[count]) = <<Text[count]>>
  BY <1>1, <1>2, RoomAssumption, GuestLoopAssumption DEF Echoed
<1>4. SubSeq(Greeting, 1, count) = SubSeq(Greeting, 1, count - 1) \o <<Text[count]>>
  BY <1>1 DEF Text, Greeting
<1> QED BY <1>1, <1>3, <1>4

LEMMA HellowInstruction ==
  ASSUME Turn, program = "hellow"
  PROVE  AnyInstruction /\ Steady' /\ Undisturbed' /\ HellowInv'
<1> USE DEF xxr_rbr_full, xxr_thr_empty, tio_read_rbr, tio_write_thr, Hello, Told
<1>1. /\ Turns /\ ier' = ier /\ cpu'.mem = cpu.mem
      /\ irq' = irq /\ program' = program /\ shown' = shown /\ erred' = fault'
  BY HellowTurn DEF Turns
<1>2. /\ fault = FALSE /\ erred = FALSE /\ xxr_thr_empty \in lsr /\ Printed = shown
      /\ GuestTypeOK /\ GuestInv /\ Steady /\ HellowInv /\ Undisturbed
      /\ pc \in Line["hellow"] /\ shown \in Seq(Char)
  BY TurnStarts DEF Turn, GuestInv, Steady
<1>3. Undisturbed'
  BY <1>1, <1>2 DEF Undisturbed
<1>4. lsr' = lsr /\ thr' = thr => Printed' = Printed
  BY <1>1 DEF Printed
<1>5. ASSUME NEW at \in {16384, 16387, 16389, 16394, 16397, 16398}, pc = at
      PROVE  AnyInstruction /\ Steady' /\ HellowInv'
  <2>1. /\ UNCHANGED <<lsr, thr, fault, trap>>
        /\ at = 16384 => pc' = 16387 /\ cpu'.y = 16405
        /\ at = 16387 => pc' = 16389 /\ cpu'.y = cpu.y + 1 /\ cpu'.a = Text[cpu.y - 16404]
                         /\ (cc_z \in cpu'.cc <=> cpu'.a = 0)
        /\ at = 16389 => pc' = (IF cc_z \in cpu.cc THEN 16397 ELSE 16391)
                         /\ cpu'.y = cpu.y /\ cpu'.a = cpu.a
        /\ at = 16394 => pc' = 16387 /\ cpu'.y = cpu.y
        /\ at \in {16397, 16398} => pc' = pc + 1
    BY <1>5, HellowTurn
  <2>2. pc' \in Line[program] /\ pc' \in {16387, 16389, 16391, 16397, 16398, 16399}
    BY <1>5, <2>1 DEF Line
  <2>3. ~erred' /\ Printed' = Printed
    BY <1>1, <1>2, <1>4, <2>1
  <2>4. HellowInv'
    <3>1. CASE at = 16384
      BY <1>2, <1>5, <2>1, <2>3, <3>1 DEF HellowInv
    <3>2. CASE at = 16387
      BY <1>2, <1>5, <2>1, <2>3, <3>2 DEF HellowInv
    <3>3. CASE at = 16389
      <4>1. /\ cpu.y - 16405 \in 1..5 /\ Printed = SubSeq(Greeting, 1, (cpu.y - 16405) - 1)
            /\ cpu.a = Text[cpu.y - 16405] /\ (cc_z \in cpu.cc <=> cpu.a = 0)
        BY <1>2, <1>5, <3>3 DEF HellowInv
      <4>2. cpu.a = 0 => cpu.y - 16405 = 5
        <5> DEFINE count == cpu.y - 16405
        <5>1. count \in 1..5 /\ cpu.a = Text[count]
          BY <4>1
        <5> HIDE DEF count
        <5>2. cpu.a = 0 => count = 5
          BY <5>1 DEF Text, Greeting
        <5> QED BY <5>2 DEF count
      <4>3. pc' = 16397 => Printed = SubSeq(Greeting, 1, 4)
        BY <2>1, <3>3, <4>1, <4>2
      <4>4. /\ pc' = 16397 \/ (pc' = 16391 /\ cpu.a # 0)
            /\ cpu'.y = cpu.y /\ cpu'.a = cpu.a
        BY <2>1, <3>3, <4>1
      <4>5. CASE pc' = 16397
        BY <2>3, <4>3, <4>5 DEF HellowInv
      <4>6. CASE pc' = 16391
        BY <2>3, <4>1, <4>4, <4>6 DEF HellowInv
      <4> QED BY <4>4, <4>5, <4>6
    <3>4. CASE at = 16394
      BY <1>2, <1>5, <2>1, <2>3, <3>4 DEF HellowInv
    <3>5. CASE at \in {16397, 16398}
      BY <1>2, <1>5, <2>1, <2>3, <3>5 DEF HellowInv
    <3> QED BY <3>1, <3>2, <3>3, <3>4, <3>5
  <2> QED BY <1>1, <2>1, <2>2, <2>4, Kinds, SteadyTurn
<1>6. ASSUME pc = 16391
      PROVE  AnyInstruction /\ Steady' /\ HellowInv'
  <2> DEFINE count == cpu.y - 16405
  <2>1. /\ pc' = 16394 /\ lsr' = lsr \ {xxr_thr_empty} /\ thr' = cpu.a /\ cpu'.y = cpu.y
        /\ UNCHANGED <<fault, trap>> /\ pc' \in Line[program]
    BY <1>6, HellowTurn DEF Line
  <2>2. /\ count \in 1..5 /\ Printed = SubSeq(Greeting, 1, count - 1)
        /\ cpu.a = Text[count] /\ cpu.a # 0
    BY <1>2, <1>6 DEF HellowInv
  <2>3. Printed' = shown \o Echoed(cpu.a)
    BY <1>1, <2>1 DEF Printed
  <2> HIDE DEF count
  <2>4. count \in 1..4 /\ cpu.a \in CpuChar /\ Printed' = SubSeq(Greeting, 1, count)
    BY <1>2, <2>2, <2>3, NextLetter
  <2>5. ~erred'
    BY <1>1, <1>2, <2>1
  <2>6. HellowInv'
    BY <2>1, <2>4, <2>5 DEF HellowInv, count
  <2>7. Len(shown) <= Len(Greeting)
    BY <1>2, <2>2 DEF Greeting
  <2> QED BY <1>1, <2>1, <2>4, <2>6, <2>7, Kinds, SteadyTurn, RoomToPrint
<1>7. ASSUME pc = 16399
      PROVE  AnyInstruction /\ Steady' /\ HellowInv'
  <2>1. /\ pc' = 16401 /\ UNCHANGED <<lsr, thr>> /\ fault' /\ trap' = {tc_trap}
        /\ pc' \in Line[program]
    BY <1>7, HellowTurn DEF Line
  <2>2. HellowInv'
    BY <1>1, <1>2, <1>4, <1>7, <2>1 DEF HellowInv
  <2>3. AnyInstruction
    <3>1. /\ Turns /\ UNCHANGED <<thr, lsr, ier>> /\ fault' /\ trap' = {tc_trap}
          /\ pc' \in Line[program]
      BY <1>1, <2>1
    <3> QED BY <3>1, Kinds
  <2> QED BY <1>1, <2>1, <2>2, <2>3, SteadyTurn
<1>8. pc \in {16384, 16387, 16389, 16391, 16394, 16397, 16398, 16399}
  BY <1>2, HellowTurn DEF Line
<1> QED BY <1>3, <1>5, <1>6, <1>7, <1>8

-----------------------------------------------------------------------------
(***************************************************************************)
(* The steps of the loop in between.                                       *)
(***************************************************************************)
Before == GuestTypeOK /\ LoopInv /\ GuestInv

(* A turn without an interrupt leaves the machine as it is. *)
LEMMA QuietInterrupt ==
  ASSUME Before, GuestInterrupt, irq = {}
  PROVE  /\ AnyInterrupt /\ Machine' = Machine /\ IsMachine(Machine)'
         /\ mask' = cpu'.cc \cap {cc_f, cc_i} /\ phase' = "mon"
         /\ UNCHANGED <<kbd, shown, rbr, thr, lsr, ier, iir, irq, pc, perform_tio, erred,
                        program, received, typed>>
<1>1. cpu_execirq(Machine) = Machine
  BY TakesNone, FieldsAreVariables
<1>2. /\ Becomes(Machine) /\ IsMachine(Machine) /\ fault \in BOOLEAN
      /\ mask = cpu.cc \cap {cc_f, cc_i}
  BY <1>1 DEF GuestInterrupt, Before, GuestTypeOK, TypeOK
<1>3. /\ Machine' = Machine /\ IsMachine(Machine)' /\ mask' = cpu'.cc \cap {cc_f, cc_i}
      /\ pc' = pc /\ irq' = irq /\ trap' = trap /\ rbr' = rbr /\ thr' = thr /\ lsr' = lsr
      /\ ier' = ier /\ iir' = iir /\ cpu'.cc = cpu.cc
      /\ UNCHANGED <<kbd, shown, perform_tio, term, sigint, armed, resume>>
  BY <1>2, Becoming, FieldsAreVariables
<1>4. fault' = fault
  BY <1>2, FieldsAreVariables DEF Becomes
<1>5. /\ phase = "irq" /\ phase' = "mon" /\ UNCHANGED <<ran, erred, program, received, typed>>
  BY DEF GuestInterrupt
<1>6. Deliverable(irq, mask) = {} /\ IrqAfterService(irq, mask) = irq
  BY DEF Deliverable, IrqAfterService
<1>7. AnyInterrupt
  BY <1>2, <1>3, <1>4, <1>5, <1>6 DEF AnyInterrupt
<1> QED BY <1>3, <1>5, <1>7

(* The steps outside of the CPU keep the types of the machine. *)
LEMMA CpuAside ==
  ASSUME IsMachine(Machine), mask = cpu.cc \cap {cc_f, cc_i}, TypeOK', UNCHANGED <<cpu, mask>>
  PROVE  IsMachine(Machine)' /\ mask' = cpu'.cc \cap {cc_f, cc_i}
<1> DEFINE n == [a |-> cpu.a, b |-> cpu.b, dp |-> cpu.dp, x |-> cpu.x, y |-> cpu.y,
                 u |-> cpu.u, s |-> cpu.s, cc |-> cpu.cc, lcr |-> cpu.lcr, mem |-> cpu.mem,
                 pc |-> pc', irq |-> irq', trap |-> trap', ok |-> ~fault', crashed |-> FALSE,
                 rbr |-> rbr', thr |-> thr', lsr |-> lsr', ier |-> ier', iir |-> iir']
<1>1. IsMachine(Machine) /\ mask = cpu.cc \cap {cc_f, cc_i}
  OBVIOUS
<1>2. /\ rbr' \in Byte /\ thr' \in Byte /\ irq' \in SUBSET IrqFlag
      /\ lsr' \in SUBSET Weight /\ ier' \in SUBSET Weight /\ iir' \in SUBSET Weight
      /\ pc' \in Word /\ trap' \in SUBSET TrapFlag /\ (~fault') \in BOOLEAN
  BY GuestLoopAssumption, FlagsAreWeights DEF TypeOK, UartTypeOK
<1>3. Machine' = n
  BY DEF Machine
<1>4. /\ cpu.a \in Byte /\ cpu.b \in Byte /\ cpu.dp \in Byte /\ cpu.x \in Word
      /\ cpu.y \in Word /\ cpu.u \in Word /\ cpu.s \in Word
      /\ cpu.cc \in SUBSET CcFlag /\ cpu.lcr \in Byte /\ IsMemory(cpu.mem)
  BY <1>1, FieldsOfMachine, FieldsAreVariables
<1>5. IsMachine(n)
  BY <1>2, <1>4 DEF IsMachine
<1> QED BY <1>1, <1>3, <1>5 DEF IsMachine

(* The poll requests an interrupt only for a program that has enabled one. *)
LEMMA QuietPoll ==
  ASSUME GuestPoll, ier = {}
  PROVE  irq' = irq /\ iir' = iir /\ ier' = ier
BY DEF GuestPoll, PollTerminal, tio_exec, _generate_interrupt, uartVars

(* A poll: what was in THR is on the screen, what was typed may be in RBR. *)
LEMMA PollMoves ==
  ASSUME Before, GuestPoll
  PROVE  /\ Printed' = Printed /\ xxr_thr_empty \in lsr'
         /\ UNCHANGED <<cpu, pc, program, erred, typed>>
         /\ phase' = "irq" /\ kbd' \in Seq(Key)
         /\ \/ /\ UNCHANGED <<received, rbr>> /\ Len(kbd') <= Len(kbd)
               /\ (xxr_rbr_full \in lsr' <=> xxr_rbr_full \in lsr)
            \/ /\ xxr_rbr_full \notin lsr /\ xxr_rbr_full \in lsr' /\ rbr' \in CpuChar
               /\ received' = received \o Echoed(rbr') /\ Len(kbd') = Len(kbd) - 1
<1> USE DEF xxr_rbr_full, xxr_thr_empty
<1>1. /\ GuestTypeOK /\ GuestInv /\ Steady /\ PollTerminal
      /\ UNCHANGED <<cpu, pc, program, erred, typed>> /\ phase' = "irq"
      /\ shown \in Seq(Char) /\ kbd \in Seq(Key) /\ thr \in Char
  BY Sizes DEF Before, GuestInv, GuestPoll, PollTerminal
<1>2. CASE ~perform_tio
  <2>1. UNCHANGED uartVars /\ received' = received
    BY <1>1, <1>2 DEF PollTerminal, GuestPoll
  <2>2. xxr_thr_empty \in lsr
    BY <1>1, <1>2 DEF Steady
  <2> QED BY <1>1, <2>1, <2>2, LenProperties DEF uartVars, Printed
<1>3. CASE perform_tio
  <2>1. tio_exec /\ received' = IF Receives THEN received \o Echoed(rbr') ELSE received
    BY <1>1, <1>3 DEF PollTerminal, GuestPoll
  <2>2. xxr_thr_empty \in lsr' /\ Printed' = Printed
    <3>1. xxr_thr_empty \in lsr'
      BY <2>1 DEF tio_exec, Events, Sends
    <3>2. Echoed(thr) \in Seq(Char) /\ shown \o Echoed(thr) \in Seq(Char)
      BY <1>1, EchoedIsSeq, ConcatProperties
    <3>3. CASE Sends
      <4>1. shown' = shown \o Echoed(thr) /\ Printed = shown \o Echoed(thr)
        BY <2>1, <3>3 DEF tio_exec, Sends, Printed
      <4>2. Printed' = shown' \o <<>>
        BY <3>1 DEF Printed
      <4> QED BY <3>1, <3>2, <4>1, <4>2, ConcatEmptySeq
    <3>4. CASE ~Sends
      BY <2>1, <3>1, <3>4 DEF tio_exec, Sends, Printed
    <3> QED BY <3>1, <3>3, <3>4
  <2>3. CASE Receives
    <3>1. /\ kbd' = Tail(kbd) /\ rbr' = toupper[Head(kbd)] /\ kbd # <<>>
          /\ xxr_rbr_full \notin lsr /\ xxr_rbr_full \in lsr'
          /\ received' = received \o Echoed(rbr')
      BY <2>1, <2>3 DEF tio_exec, Receives, Events
    <3>2. Head(kbd) \in Key /\ Tail(kbd) \in Seq(Key) /\ Len(Tail(kbd)) = Len(kbd) - 1
      BY <1>1, <3>1, HeadTailProperties
    <3>3. rbr' \in CpuChar
      BY <3>1, <3>2, RoomAssumption
    <3> QED BY <1>1, <2>2, <3>1, <3>2, <3>3
  <2>4. CASE ~Receives
    <3>1. /\ rbr' = rbr /\ received' = received
          /\ (xxr_rbr_full \in lsr' <=> xxr_rbr_full \in lsr)
          /\ kbd' = IF kbd = <<>> THEN kbd ELSE Tail(kbd)
      BY <2>1, <2>4 DEF tio_exec, Events
    <3>2. kbd' \in Seq(Key) /\ Len(kbd') <= Len(kbd)
      <4>1. CASE kbd = <<>>
        BY <1>1, <3>1, <4>1, LenProperties
      <4>2. CASE kbd # <<>>
        BY <1>1, <3>1, <4>2, HeadTailProperties, LenProperties
      <4> QED BY <4>1, <4>2
    <3> QED BY <1>1, <2>2, <3>1, <3>2
  <2> QED BY <2>3, <2>4
<1> QED BY <1>2, <1>3

LEMMA SteadyPoll ==
  ASSUME Before, GuestPoll
  PROVE  Steady'
<1>1. /\ Steady /\ typed' = typed /\ program' = program /\ pc' = pc /\ phase' = "irq"
      /\ cpu' = cpu /\ xxr_thr_empty \in lsr' /\ kbd' \in Seq(Key)
  BY PollMoves DEF Before, GuestInv
<1>2. /\ Len(received) + 2 * Len(kbd) <= 2 * typed
      /\ Len(received) \in Nat /\ Len(kbd) \in Nat /\ Len(kbd') \in Nat /\ typed \in Nat
      /\ received \in Seq(Char)
  BY <1>1, Sizes, GuestLoopAssumption, LenProperties DEF Before, Steady, GuestTypeOK
<1>3. \/ /\ UNCHANGED <<received, rbr>> /\ Len(kbd') <= Len(kbd)
         /\ (xxr_rbr_full \in lsr' <=> xxr_rbr_full \in lsr)
      \/ /\ rbr' \in CpuChar
         /\ received' = received \o Echoed(rbr') /\ Len(kbd') = Len(kbd) - 1
  BY PollMoves
<1>4. /\ xxr_rbr_full \in lsr' => rbr' \in CpuChar
      /\ Len(received') + 2 * Len(kbd') <= 2 * typed
  <2>1. CASE UNCHANGED <<received, rbr>> /\ Len(kbd') <= Len(kbd)
             /\ (xxr_rbr_full \in lsr' <=> xxr_rbr_full \in lsr)
    BY <1>1, <1>2, <2>1 DEF Steady
  <2>2. CASE rbr' \in CpuChar /\ received' = received \o Echoed(rbr')
             /\ Len(kbd') = Len(kbd) - 1
    <3>1. Echoed(rbr') \in Seq(Char) /\ Len(Echoed(rbr')) <= 2 /\ Len(Echoed(rbr')) \in Nat
      <4>1. rbr' \in Char
        BY <2>2, LoopAssumption
      <4> QED BY <4>1, EchoedIsSeq, LenProperties DEF Echoed
    <3>2. Len(received') = Len(received) + Len(Echoed(rbr'))
      BY <1>2, <2>2, <3>1, ConcatProperties
    <3> QED BY <1>2, <2>2, <3>1, <3>2
  <2> QED BY <1>3, <2>1, <2>2
<1> QED BY <1>1, <1>4 DEF Steady

(* The monitor, the prompt and the user; and nothing at all. *)
Outside ==
  \/ GuestMonitor \/ Resume \/ Leaves \/ CtrlC
  \/ \E cc \in Key : Types(cc)
  \/ UNCHANGED allVars

LEMMA OutsideMoves ==
  ASSUME Before, Outside
  PROVE  /\ [Next]_vars
         /\ UNCHANGED <<shown, rbr, thr, lsr, ier, iir, irq, pc, mask, cpu, program, received>>
         /\ erred' = erred /\ kbd' \in Seq(Key) /\ phase' # "crash" /\ typed' \in 0..MaxTyped
         /\ Len(kbd') + typed <= Len(kbd) + typed'
         /\ xxr_thr_empty \in lsr \/ (phase' = phase /\ perform_tio' = perform_tio)
         /\ phase = "irq" => phase' = "irq"
<1> USE DEF uartVars, loopVars, vars, guestVars, allVars
<1>1. /\ phase # "crash" /\ kbd \in Seq(Key) /\ typed \in 0..MaxTyped /\ MaxTyped \in Nat
      /\ (phase = "op" => ~erred)
      /\ xxr_thr_empty \notin lsr => phase = "tio"
      /\ Len(kbd) \in Nat /\ erred \in BOOLEAN /\ typed \in Int /\ <<>> \in Seq(Key)
      /\ Len(<<>>) = 0
  BY GuestLoopAssumption, LenProperties
     DEF Before, GuestInv, Steady, GuestTypeOK, TypeOK, LoopInv, HaltGate
<1>2. CASE GuestMonitor
  <2>1. mon_execmon /\ [Next]_vars /\ UNCHANGED guestVars
    BY <1>2 DEF GuestMonitor, Next
  <2>2. /\ UNCHANGED <<shown, rbr, thr, lsr, ier, iir, irq, pc, mask, erred>>
        /\ phase = "mon" /\ phase' \in {"prompt", "op"} /\ (kbd' = kbd \/ kbd' = <<>>)
    BY <2>1 DEF mon_execmon
  <2>3. xxr_thr_empty \in lsr /\ phase' # "crash" /\ phase # "irq"
    BY <1>1, <2>2
  <2>4. kbd' \in Seq(Key) /\ Len(kbd') + typed <= Len(kbd) + typed'
    <3>1. typed' = typed
      BY <2>1
    <3>2. kbd' \in Seq(Key) /\ Len(kbd') <= Len(kbd)
      <4>1. CASE kbd' = kbd
        BY <1>1, <4>1
      <4>2. CASE kbd' = <<>>
        BY <1>1, <4>2
      <4> QED BY <2>2, <4>1, <4>2
    <3>3. Len(kbd') \in Nat
      BY <3>2, LenProperties
    <3> QED BY <1>1, <3>1, <3>2, <3>3
  <2> QED BY <1>1, <2>1, <2>2, <2>3, <2>4
<1>3. CASE Resume
  <2>1. Go \/ Step
    BY <1>3 DEF Resume
  <2>2. [Next]_vars
    BY <2>1 DEF Next, _execcmd
  <2>3. /\ UNCHANGED <<uartVars, mask>> /\ phase = "prompt" /\ phase' = "op"
        /\ pc' = pc /\ UNCHANGED guestVars /\ ~erred /\ ~erred' /\ erred' \in BOOLEAN
    BY <1>3, <2>1 DEF Resume, Go, Step, Leave, AtPrompt
  <2> QED BY <1>1, <2>2, <2>3
<1>4. CASE Leaves
  <2>1. [Next]_vars
    BY <1>4 DEF Leaves, Next, _execcmd
  <2> QED BY <1>1, <1>4, <2>1 DEF Leaves, Bye, AtPrompt
<1>5. CASE CtrlC
  <2>1. [Next]_vars
    BY <1>5 DEF CtrlC, Next
  <2>2. UNCHANGED <<uartVars, pc, mask, phase, perform_tio, erred, guestVars>>
    BY <1>5 DEF CtrlC, _sig_handler
  <2> QED BY <1>1, <2>1, <2>2
<1>6. ASSUME NEW cc \in Key, Types(cc)
      PROVE  /\ [Next]_vars
             /\ UNCHANGED <<shown, rbr, thr, lsr, ier, iir, irq, loopVars, cpu, program, received>>
             /\ kbd' = Append(kbd, cc) /\ typed' = typed + 1 /\ typed < MaxTyped
  BY <1>6 DEF Types, Type, Next
<1>7. CASE \E cc \in Key : Types(cc)
  <2>1. PICK cc \in Key : Types(cc)
    BY <1>7
  <2>2. Append(kbd, cc) \in Seq(Key) /\ Len(Append(kbd, cc)) = Len(kbd) + 1
    BY <1>1, AppendProperties
  <2>3. typed' \in 0..MaxTyped /\ typed' = typed + 1
    BY <1>1, <1>6, <2>1
  <2>4. kbd' = Append(kbd, cc) /\ [Next]_vars
        /\ UNCHANGED <<shown, rbr, thr, lsr, ier, iir, irq, loopVars, cpu, program, received>>
    BY <1>6, <2>1
  <2> QED BY <1>1, <2>2, <2>3, <2>4
<1>8. CASE UNCHANGED allVars
  BY <1>1, <1>8
<1> QED BY <1>2, <1>3, <1>4, <1>5, <1>7, <1>8 DEF Outside

LEMMA SteadyOutside ==
  ASSUME Before, Outside
  PROVE  Steady'
<1>1. /\ UNCHANGED <<rbr, lsr, pc, cpu, program, received>>
      /\ kbd' \in Seq(Key) /\ phase' # "crash" /\ typed' \in 0..MaxTyped
      /\ Len(kbd') + typed <= Len(kbd) + typed'
      /\ xxr_thr_empty \in lsr \/ (phase' = phase /\ perform_tio' = perform_tio)
  BY OutsideMoves
<1>2. Steady /\ typed \in Int /\ MaxTyped \in Nat /\ received \in Seq(Char)
  BY GuestLoopAssumption DEF Before, GuestInv, GuestTypeOK, TypeOK
<1>3. Len(received) + 2 * Len(kbd') <= 2 * typed'
  <2>1. Len(received) + 2 * Len(kbd) <= 2 * typed /\ kbd \in Seq(Key)
    BY <1>2 DEF Steady
  <2>2. Len(received) \in Nat /\ Len(kbd) \in Nat /\ Len(kbd') \in Nat /\ typed' \in Int
    BY <1>1, <1>2, <2>1, LenProperties
  <2> QED BY <1>1, <1>2, <2>1, <2>2
<1> QED BY <1>1, <1>2, <1>3 DEF Steady

LEMMA SteadyInterrupt ==
  ASSUME Before, GuestInterrupt, irq = {}
  PROVE  Steady'
<1>1. /\ UNCHANGED <<rbr, lsr, pc, kbd, perform_tio, program, received, typed>>
      /\ Machine' = Machine /\ phase' = "mon" /\ phase = "irq"
  BY QuietInterrupt DEF GuestInterrupt
<1>2. cpu'.cc = cpu.cc
  BY <1>1 DEF Machine
<1> QED BY <1>1, <1>2 DEF Before, GuestInv, Steady

(* Machine' is Machine: nor has a register of the CPU changed. *)
LEMMA SameRegisters ==
  ASSUME Machine' = Machine
  PROVE  /\ cpu'.a = cpu.a /\ cpu'.b = cpu.b /\ cpu'.y = cpu.y /\ cpu'.s = cpu.s
         /\ cpu'.cc = cpu.cc /\ cpu'.mem = cpu.mem
BY DEF Machine

LEMMA EchoStep ==
  ASSUME Before, [GuestNext]_allVars, program = "echo"
  PROVE  [Next]_vars /\ Steady' /\ Undisturbed' /\ EchoInv'
<1>1. Steady /\ EchoInv /\ Undisturbed
  BY DEF Before, GuestInv
<1>2. ASSUME GuestPoll PROVE Steady' /\ Undisturbed' /\ EchoInv'
  <2>1. /\ Printed' = Printed /\ UNCHANGED <<cpu, pc, program, erred>>
        /\ irq' = irq /\ ier' = ier
    BY <1>1, <1>2, PollMoves, QuietPoll DEF Undisturbed
  <2>2. InB' = InB /\ InB \in Seq(Char) /\ Printed \in Seq(Char)
    <3>1. InB' = InB
      BY <2>1 DEF InB
    <3>2. pc \in {16398, 16401, 16403, 16405} => cpu.b \in Char
      BY <1>1, LoopAssumption DEF EchoInv
    <3>3. InB \in Seq(Char)
      <4>1. CASE pc \in {16398, 16401, 16403, 16405}
        BY <3>2, <4>1, EchoedIsSeq DEF InB
      <4>2. CASE pc \notin {16398, 16401, 16403, 16405}
        BY <4>2 DEF InB
      <4> QED BY <4>1, <4>2
    <3> QED BY <3>1, <3>3, Sizes DEF Before
  <2>3. /\ xxr_rbr_full \in lsr => xxr_rbr_full \in lsr'
        /\ \/ received' = received /\ InRbr' = InRbr
           \/ /\ InRbr = <<>> /\ InRbr' = Echoed(rbr') /\ rbr' \in Char
              /\ received' = received \o Echoed(rbr')
    BY <1>2, PollMoves, LoopAssumption DEF InRbr
  <2>4. received' = Printed' \o (InB' \o InRbr')
    <3>1. received = Printed \o (InB \o InRbr)
      BY <1>1 DEF EchoInv
    <3>2. CASE received' = received /\ InRbr' = InRbr
      BY <2>1, <2>2, <3>1, <3>2
    <3>3. CASE InRbr = <<>> /\ InRbr' = Echoed(rbr') /\ rbr' \in Char
               /\ received' = received \o Echoed(rbr')
      <4>1. received = Printed \o InB
        BY <2>2, <3>1, <3>3, ConcatEmptySeq
      <4>2. Echoed(rbr') \in Seq(Char)
        BY <3>3, EchoedIsSeq
      <4> QED BY <2>1, <2>2, <3>3, <4>1, <4>2, ConcatAssociative
    <3> QED BY <2>3, <3>2, <3>3
  <2>5. Undisturbed'
    BY <1>1, <2>1 DEF Undisturbed
  <2>6. EchoInv'
    BY <1>1, <2>1, <2>3, <2>4 DEF EchoInv
  <2> QED BY <1>2, <2>5, <2>6, SteadyPoll
<1>3. ASSUME GuestInterrupt PROVE AnyInterrupt /\ Steady' /\ Undisturbed' /\ EchoInv'
  <2>1. irq = {}
    BY <1>1 DEF Undisturbed
  <2>2. /\ AnyInterrupt /\ Machine' = Machine
        /\ UNCHANGED <<shown, rbr, thr, lsr, ier, irq, pc, erred, program, received>>
    BY <1>3, <2>1, QuietInterrupt
  <2>3. cpu'.a = cpu.a /\ cpu'.b = cpu.b /\ cpu'.cc = cpu.cc /\ cpu'.mem = cpu.mem
    BY <2>2, SameRegisters
  <2>4. Printed' = Printed /\ InB' = InB /\ InRbr' = InRbr
    BY <2>2, <2>3 DEF Printed, InB, InRbr
  <2>5. Undisturbed'
    BY <1>1, <2>2, <2>3 DEF Undisturbed
  <2>6. EchoInv'
    BY <1>1, <2>2, <2>3, <2>4 DEF EchoInv
  <2> QED BY <1>3, <2>1, <2>2, <2>5, <2>6, SteadyInterrupt
<1>4. ASSUME Outside PROVE [Next]_vars /\ Steady' /\ Undisturbed' /\ EchoInv'
  <2>1. /\ [Next]_vars /\ erred' = erred
        /\ UNCHANGED <<shown, rbr, thr, lsr, ier, iir, irq, pc, cpu, program, received>>
    BY <1>4, OutsideMoves
  <2>2. Printed' = Printed /\ InB' = InB /\ InRbr' = InRbr
    BY <2>1 DEF Printed, InB, InRbr
  <2>3. Undisturbed'
    BY <1>1, <2>1 DEF Undisturbed
  <2>4. EchoInv'
    BY <1>1, <2>1, <2>2 DEF EchoInv
  <2> QED BY <1>4, <2>1, <2>3, <2>4, SteadyOutside
<1>5. ASSUME GuestInstruction PROVE AnyInstruction /\ Steady' /\ Undisturbed' /\ EchoInv'
  BY <1>5, EchoInstruction DEF Before, Turn
<1>6. GuestPoll \/ GuestInterrupt \/ Outside \/ GuestInstruction
  BY DEF GuestNext, Outside, HasEnded
<1> QED BY <1>2, <1>3, <1>4, <1>5, <1>6 DEF GuestPoll, Next

LEMMA HellowStep ==
  ASSUME Before, [GuestNext]_allVars, program = "hellow"
  PROVE  [Next]_vars /\ Steady' /\ Undisturbed' /\ HellowInv'
<1>1. Steady /\ HellowInv /\ Undisturbed
  BY DEF Before, GuestInv
<1>2. ASSUME Printed' = Printed, UNCHANGED <<pc, erred>>, cpu'.a = cpu.a, cpu'.y = cpu.y,
             cpu'.cc = cpu.cc
      PROVE  HellowInv'
  BY <1>1, <1>2 DEF HellowInv, Told
<1>3. ASSUME GuestPoll PROVE Steady' /\ Undisturbed' /\ HellowInv'
  <2>1. /\ Printed' = Printed /\ UNCHANGED <<cpu, pc, program, erred>>
        /\ irq' = irq /\ ier' = ier
    BY <1>1, <1>3, PollMoves, QuietPoll DEF Undisturbed
  <2>2. Undisturbed'
    BY <1>1, <2>1 DEF Undisturbed
  <2> QED BY <1>2, <1>3, <2>1, <2>2, SteadyPoll
<1>4. ASSUME GuestInterrupt PROVE AnyInterrupt /\ Steady' /\ Undisturbed' /\ HellowInv'
  <2>1. irq = {}
    BY <1>1 DEF Undisturbed
  <2>2. /\ AnyInterrupt /\ Machine' = Machine
        /\ UNCHANGED <<shown, thr, lsr, ier, irq, pc, erred, program>>
    BY <1>4, <2>1, QuietInterrupt
  <2>3. cpu'.a = cpu.a /\ cpu'.y = cpu.y /\ cpu'.cc = cpu.cc /\ cpu'.mem = cpu.mem
    BY <2>2, SameRegisters
  <2>4. Printed' = Printed
    BY <2>2 DEF Printed
  <2>5. Undisturbed'
    BY <1>1, <2>2, <2>3 DEF Undisturbed
  <2> QED BY <1>2, <1>4, <2>1, <2>2, <2>3, <2>4, <2>5, SteadyInterrupt
<1>5. ASSUME Outside PROVE [Next]_vars /\ Steady' /\ Undisturbed' /\ HellowInv'
  <2>1. /\ [Next]_vars /\ erred' = erred
        /\ UNCHANGED <<shown, thr, lsr, ier, irq, pc, cpu, program>>
    BY <1>5, OutsideMoves
  <2>2. Printed' = Printed
    BY <2>1 DEF Printed
  <2>3. Undisturbed'
    BY <1>1, <2>1 DEF Undisturbed
  <2> QED BY <1>2, <1>5, <2>1, <2>2, <2>3, SteadyOutside
<1>6. ASSUME GuestInstruction PROVE AnyInstruction /\ Steady' /\ Undisturbed' /\ HellowInv'
  BY <1>6, HellowInstruction DEF Before, Turn
<1>7. GuestPoll \/ GuestInterrupt \/ Outside \/ GuestInstruction
  BY DEF GuestNext, Outside, HasEnded
<1> QED BY <1>3, <1>4, <1>5, <1>6, <1>7 DEF GuestPoll, Next

-----------------------------------------------------------------------------
(***************************************************************************)
(* echoirq, turn by turn.                                                  *)
(***************************************************************************)
LEMMA InMemoryOf ==
  ASSUME EchoIrqInv
  PROVE  InMemory(Machine)
BY DEF EchoIrqInv, Wired

(* All but the first instructions and the RTI. *)
LEMMA EchoIrqTurn ==
  ASSUME Turn, program = "echoirq", pc # 16425
  PROVE  /\ Turns /\ UNCHANGED <<fault, trap>>
         /\ pc # 16384 => cpu'.s = cpu.s
         /\ pc # 16391 => cpu'.mem = cpu.mem
         /\ pc # 16396 => ier' = ier
         /\ pc \notin {16412, 16422} => UNCHANGED <<lsr, thr>>
         /\ pc = 16384 => pc' = 16388 /\ cpu'.s = 8192
         /\ pc = 16388 => pc' = 16391 /\ cpu'.a = 64 /\ cpu'.b = 21
         /\ pc = 16391 => pc' = 16394
                          /\ cpu'.mem = Written(Written(cpu.mem, 65528, cpu.a), 65529, cpu.b)
         /\ pc = 16394 => pc' = 16396 /\ cpu'.a = 128
         /\ pc = 16396 => pc' = 16399 /\ ier' = Bits(cpu.a)
         /\ pc \in {16399, 16400, 16401} => pc' = pc + 1
         /\ pc = 16402 => pc' = 16399
         /\ pc = 16405 => pc' = 16408 /\ cpu'.a = ByteOf(iir)
         /\ pc = 16408 => pc' = 16410 /\ (cc_z \in cpu'.cc => 128 \notin Bits(cpu.a))
         /\ pc = 16410 => pc' = IF cc_z \in cpu.cc THEN 16425 ELSE 16412
         /\ pc = 16412 => pc' = 16415 /\ lsr' = tio_read_rbr(lsr) /\ thr' = thr
                          /\ cpu'.b = rbr
         /\ pc = 16415 => pc' = 16418 /\ cpu'.a = ByteOf(lsr) /\ cpu'.b = cpu.b
         /\ pc = 16418 => pc' = 16420 /\ (cc_z \in cpu'.cc => 64 \notin Bits(cpu.a))
                          /\ cpu'.b = cpu.b
         /\ pc = 16420 => pc' = (IF cc_z \in cpu.cc THEN 16425 ELSE 16422) /\ cpu'.b = cpu.b
         /\ pc = 16422 => pc' = 16425 /\ lsr' = tio_write_thr(lsr) /\ thr' = cpu.b
<1> DEFINE n == cpu_execop(Machine)
           same == UNCHANGED <<fault, trap, ier, lsr, thr>>
           still == cpu'.s = cpu.s /\ cpu'.mem = cpu.mem
<1>1. IsMachine(Machine) /\ InMemory(Machine) /\ pc \in Line["echoirq"]
  <2>1. EchoIrqInv /\ Steady
    BY DEF Turn, GuestInv
  <2>2. pc \in Line["echoirq"]
    BY <2>1 DEF Steady
  <2> QED BY <2>1, <2>2, TurnStarts, InMemoryOf
<1>2. /\ Machine.a = cpu.a /\ Machine.b = cpu.b /\ Machine.cc = cpu.cc /\ Machine.mem = cpu.mem
      /\ Machine.rbr = rbr /\ Machine.lsr = lsr /\ Machine.iir = iir /\ Machine.pc = pc
  BY FieldsAreVariables
<1>3. {"a", "b", "s", "mem", "thr", "ier"} \subseteq Result
  BY DEF Result
<1>4. ASSUME pc = 16384
      PROVE  Turns /\ same /\ cpu'.mem = cpu.mem /\ pc' = 16388 /\ cpu'.s = 8192
  <2>1. n = Done(Machine, 16388, _flags_nz_v16(cpu.cc, 8192), "s", 8192)
    BY <1>1, <1>2, <1>4, EchoIrqSteps
  <2> QED BY <1>3, <2>1, MachineTurn, FlagsOfValue
<1>5. ASSUME pc = 16388
      PROVE  Turns /\ same /\ still /\ pc' = 16391 /\ cpu'.a = 64 /\ cpu'.b = 21
  <2> DEFINE m == With(Machine, "b", 21)
             codes == _flags_nz_v16(cpu.cc, 16405)
  <2>1. DOMAIN m = DOMAIN Machine /\ m.b = 21 /\ Keeps(m, Machine, {"b"})
    BY WithFields, FieldsAreVariables
  <2>2. m.cc = cpu.cc /\ m.lsr = lsr
    BY <2>1, FieldsAreVariables DEF Keeps
  <2>3. n = Done(m, 16391, codes, "a", 64)
    BY <1>1, <1>2, <1>5, EchoIrqSteps
  <2>4. codes \cap Held = cpu.cc \cap Held
    BY FlagsOfValue
  <2> HIDE DEF m, codes
  <2> QED BY <1>3, <2>1, <2>2, <2>3, <2>4, DoneTurn DEF Loaded8
<1>6. ASSUME pc = 16391
      PROVE  Turns /\ same /\ cpu'.s = cpu.s /\ pc' = 16394
             /\ cpu'.mem = Written(Written(cpu.mem, 65528, cpu.a), 65529, cpu.b)
  <2> DEFINE codes == _flags_nz_v16(cpu.cc, Get(Machine, "d"))
             value == Written(Written(cpu.mem, 65528, cpu.a), 65529, cpu.b)
  <2>1. n = Done(Machine, 16394, codes, "mem", value)
    BY <1>1, <1>2, <1>6, EchoIrqSteps
  <2>2. codes \cap Held = cpu.cc \cap Held
    BY FlagsOfValue
  <2> HIDE DEF codes, value
  <2>3. Turns /\ same /\ cpu'.s = cpu.s /\ pc' = 16394 /\ cpu'.mem = value
    BY <1>3, <2>1, <2>2, MachineTurn
  <2> QED BY <2>3 DEF value
<1>7. ASSUME NEW at \in {16394, 16405, 16415}, pc = at
      PROVE  LET value == IF at = 16394 THEN 128 ELSE IF at = 16405 THEN ByteOf(iir)
                          ELSE ByteOf(lsr)
             IN  Turns /\ same /\ still /\ pc' = (IF at = 16394 THEN 16396 ELSE at + 3)
                 /\ cpu'.a = value /\ cpu'.b = cpu.b
  <2> DEFINE value == IF at = 16394 THEN 128 ELSE IF at = 16405 THEN ByteOf(iir)
                      ELSE ByteOf(lsr)
             next == IF at = 16394 THEN 16396 ELSE at + 3
             codes == _flags_nz_v8(cpu.cc, value)
  <2>1. n = Done(Machine, next, codes, "a", value)
    BY <1>1, <1>2, <1>7, EchoIrqSteps DEF LoadsA
  <2>2. codes \cap Held = cpu.cc \cap Held
    BY FlagsOfValue
  <2> HIDE DEF codes, value, next
  <2>3. Turns /\ same /\ still /\ pc' = next /\ cpu'.a = value /\ cpu'.b = cpu.b
    BY <1>3, <2>1, <2>2, MachineTurn
  <2> QED BY <2>3 DEF value, next
<1>8. ASSUME pc = 16396
      PROVE  Turns /\ UNCHANGED <<fault, trap, lsr, thr>> /\ still /\ pc' = 16399
             /\ ier' = Bits(cpu.a)
  <2> DEFINE codes == _flags_nz_v8(cpu.cc, cpu.a)
             value == Bits(cpu.a)
  <2>1. n = Done(Machine, 16399, codes, "ier", value)
    BY <1>1, <1>2, <1>8, EchoIrqSteps
  <2>2. codes \cap Held = cpu.cc \cap Held
    BY FlagsOfValue
  <2> HIDE DEF codes, value
  <2>3. Turns /\ UNCHANGED <<fault, trap, lsr, thr>> /\ still /\ pc' = 16399 /\ ier' = value
    BY <1>3, <2>1, <2>2, MachineTurn
  <2> QED BY <2>3 DEF value
<1>9. ASSUME NEW at \in {16399, 16400, 16401, 16402}, pc = at
      PROVE  Turns /\ same /\ still /\ pc' = IF at = 16402 THEN 16399 ELSE at + 1
  <2> DEFINE next == IF at = 16402 THEN 16399 ELSE at + 1
  <2>1. n = With(Machine, "pc", next)
    BY <1>1, <1>2, <1>9, EchoIrqSteps
  <2> HIDE DEF next
  <2>2. Turns /\ same /\ still /\ pc' = next
    BY <2>1, PcTurn
  <2> QED BY <2>2 DEF next
<1>10. ASSUME NEW at \in {16408, 16418}, pc = at
       PROVE  LET bit == IF at = 16408 THEN 128 ELSE 64
              IN  Turns /\ same /\ still /\ pc' = at + 2 /\ cpu'.b = cpu.b
                  /\ (cc_z \in cpu'.cc => bit \notin Bits(cpu.a))
  <2> DEFINE bit == IF at = 16408 THEN 128 ELSE 64
             value == IF bit \in Bits(cpu.a) THEN bit ELSE 0
             codes == _flags_nz_v8(cpu.cc, value)
  <2>1. n = Done(Machine, at + 2, codes, "a", value)
    BY <1>1, <1>2, <1>10, EchoIrqSteps DEF LoadsA, BitOf
  <2>2. /\ cc_z \in codes <=> value = 0
        /\ codes \cap Held = cpu.cc \cap Held
    BY FlagsOfValue
  <2>3. value = 0 <=> bit \notin Bits(cpu.a)
    BY <1>10
  <2> HIDE DEF codes, value
  <2>4. Turns /\ same /\ still /\ pc' = at + 2 /\ cpu'.b = cpu.b /\ cpu'.cc = codes
    BY <1>3, <2>1, <2>2, MachineTurn
  <2> QED BY <2>2, <2>3, <2>4
<1>11. ASSUME NEW at \in {16410, 16420}, pc = at
       PROVE  Turns /\ same /\ still /\ cpu'.b = cpu.b
              /\ pc' = IF cc_z \in cpu.cc THEN 16425 ELSE at + 2
  <2> DEFINE next == IF cc_z \in cpu.cc THEN 16425 ELSE at + 2
  <2>1. n = With(Machine, "pc", next)
    BY <1>1, <1>2, <1>11, EchoIrqSteps DEF SkipEcho
  <2> HIDE DEF next
  <2>2. Turns /\ same /\ still /\ cpu'.b = cpu.b /\ pc' = next
    BY <2>1, PcTurn
  <2> QED BY <2>2 DEF next
<1>12. ASSUME pc = 16412
       PROVE  Turns /\ UNCHANGED <<fault, trap, ier, thr>> /\ still /\ pc' = 16415
              /\ lsr' = tio_read_rbr(lsr) /\ cpu'.b = rbr
  <2>1. n = Done(With(Machine, "lsr", tio_read_rbr(lsr)), 16415,
                 _flags_nz_v8(cpu.cc, rbr), "b", rbr)
    BY <1>1, <1>2, <1>12, EchoIrqSteps
  <2> QED BY <1>3, <2>1, StatusTurn, FlagsOfValue
<1>13. ASSUME pc = 16422
       PROVE  Turns /\ UNCHANGED <<fault, trap, ier>> /\ still /\ pc' = 16425
              /\ lsr' = tio_write_thr(lsr) /\ thr' = cpu.b
  <2>1. n = Done(With(Machine, "lsr", tio_write_thr(lsr)), 16425,
                 _flags_nz_v8(cpu.cc, cpu.b), "thr", cpu.b)
    BY <1>1, <1>2, <1>13, EchoIrqSteps
  <2> QED BY <1>3, <2>1, StatusTurn, FlagsOfValue
<1>14. pc \in {16384, 16388, 16391, 16394, 16396, 16399, 16400, 16401, 16402, 16405, 16408,
               16410, 16412, 16415, 16418, 16420, 16422}
  BY <1>1 DEF Line
<1> HIDE DEF n
<1> QED BY <1>4, <1>5, <1>6, <1>7, <1>8, <1>9, <1>10, <1>11, <1>12, <1>13, <1>14

-----------------------------------------------------------------------------
(***************************************************************************)
(* Counting characters.                                                    *)
(***************************************************************************)
LEMMA IntervalSize ==
  ASSUME NEW n \in Nat
  PROVE  IsFiniteSet(1..n) /\ Cardinality(1..n) = n
BY FS_Interval

LEMMA TallyTypes ==
  ASSUME NEW seq \in Seq(Char), NEW set
  PROVE  /\ IsFiniteSet({i \in DOMAIN seq : seq[i] \in set})
         /\ Count(set, seq) \in Nat /\ Count(set, seq) <= Len(seq)
<1> DEFINE found == {i \in DOMAIN seq : seq[i] \in set}
<1>1. DOMAIN seq = 1..Len(seq) /\ Len(seq) \in Nat
  BY LenProperties
<1>2. IsFiniteSet(1..Len(seq)) /\ Cardinality(1..Len(seq)) = Len(seq)
  BY <1>1, IntervalSize
<1>3. found \in SUBSET (1..Len(seq))
  BY <1>1
<1>4. IsFiniteSet(found) /\ Cardinality(found) <= Len(seq)
  BY <1>2, <1>3, FS_Subset
<1> QED BY <1>4, FS_CardinalityType DEF Count

LEMMA TallyAppend ==
  ASSUME NEW seq \in Seq(Char), NEW cc \in Char, NEW set
  PROVE  Count(set, Append(seq, cc)) = Count(set, seq) + (IF cc \in set THEN 1 ELSE 0)
<1> DEFINE found == {i \in DOMAIN seq : seq[i] \in set}
           more  == Append(seq, cc)
           next  == {i \in DOMAIN more : more[i] \in set}
           last  == Len(seq) + 1
<1>1. /\ DOMAIN seq = 1..Len(seq) /\ DOMAIN more = 1..last /\ Len(seq) \in Nat
      /\ \A i \in 1..Len(seq) : more[i] = seq[i]
      /\ more[last] = cc
  BY AppendProperties, LenProperties
<1>2. next = IF cc \in set THEN found \cup {last} ELSE found
  <2> HIDE DEF more
  <2>1. 1..last = 1..Len(seq) \cup {last}
    BY <1>1
  <2> QED BY <1>1, <2>1
<1>3. last \notin found /\ IsFiniteSet(found)
  <2>1. last \notin DOMAIN seq
    BY <1>1
  <2> QED BY <2>1, TallyTypes
<1>4. Count(set, seq) = Cardinality(found) /\ Count(set, more) = Cardinality(next)
  BY DEF Count
<1>5. Count(set, seq) \in Nat
  BY TallyTypes
<1> HIDE DEF found, next, more, last
<1>6. Cardinality(found \cup {last}) = Cardinality(found) + 1
  BY <1>3, FS_AddElement
<1> QED BY <1>2, <1>4, <1>5, <1>6 DEF more

LEMMA TallyEchoed ==
  ASSUME NEW seq \in Seq(Char), NEW cc \in Char, NEW set \in Counted
  PROVE  Count(set, seq \o Echoed(cc)) = Count(set, seq) + (IF Marks(set, cc) THEN 1 ELSE 0)
<1>1. CR \in Char /\ LF \in Char /\ Count(set, seq) \in Nat
  BY UartAssumption, TallyTypes
<1>2. CASE cc # CR
  <2>1. Echoed(cc) = <<cc>> /\ seq \o <<cc>> = Append(seq, cc)
    BY <1>2, AppendIsConcat DEF Echoed
  <2>2. Marks(set, cc) <=> cc \in set
    BY <2>1 DEF Marks, ToSet
  <2>3. Count(set, Append(seq, cc)) = Count(set, seq) + (IF cc \in set THEN 1 ELSE 0)
    BY TallyAppend
  <2> QED BY <2>1, <2>2, <2>3
<1>3. CASE cc = CR
  <2>1. Echoed(cc) = <<CR, LF>> /\ Append(seq, CR) \in Seq(Char)
    BY <1>1, <1>3, AppendProperties DEF Echoed
  <2>2. seq \o <<CR, LF>> = Append(Append(seq, CR), LF)
    BY <1>1
  <2>3. Marks(set, cc) <=> CR \in set \/ LF \in set
    BY <2>1 DEF Marks, ToSet
  <2>4. ~(CR \in set /\ LF \in set)
    BY DEF Counted
  <2>5. Count(set, Append(Append(seq, CR), LF))
          = Count(set, Append(seq, CR)) + (IF LF \in set THEN 1 ELSE 0)
    <3> DEFINE more == Append(seq, CR)
    <3>1. more \in Seq(Char) /\ LF \in Char
      BY <1>1, <2>1
    <3> HIDE DEF more
    <3>2. Count(set, Append(more, LF)) = Count(set, more) + (IF LF \in set THEN 1 ELSE 0)
      BY <3>1, TallyAppend
    <3> QED BY <3>2 DEF more
  <2>6. Count(set, Append(seq, CR)) = Count(set, seq) + (IF CR \in set THEN 1 ELSE 0)
    BY <1>1, TallyAppend
  <2>7. Count(set, seq \o Echoed(cc)) = Count(set, Append(Append(seq, CR), LF))
    BY <2>1, <2>2
  <2>8. Count(set, seq \o Echoed(cc))
          = Count(set, seq) + (IF CR \in set THEN 1 ELSE 0) + (IF LF \in set THEN 1 ELSE 0)
    BY <2>5, <2>6, <2>7
  <2> QED BY <1>1, <2>3, <2>4, <2>8
<1> QED BY <1>2, <1>3

(* Every character is LF or not. *)
LEMMA TallyAll ==
  ASSUME NEW seq \in Seq(Char)
  PROVE  Count(Char \ {LF}, seq) = Len(seq) - Count({LF}, seq)
<1> DEFINE feeds == {i \in DOMAIN seq : seq[i] \in {LF}}
           rest  == {i \in DOMAIN seq : seq[i] \in Char \ {LF}}
<1>1. DOMAIN seq = 1..Len(seq) /\ Len(seq) \in Nat /\ \A i \in 1..Len(seq) : seq[i] \in Char
  BY LenProperties, ElementOfSeq
<1>2. feeds \cup rest = 1..Len(seq) /\ feeds \cap rest = {}
  BY <1>1
<1>3. IsFiniteSet(feeds) /\ IsFiniteSet(rest)
  BY TallyTypes
<1>4. Count({LF}, seq) = Cardinality(feeds) /\ Count(Char \ {LF}, seq) = Cardinality(rest)
  BY DEF Count
<1>5. Cardinality(feeds) \in Nat /\ Cardinality(rest) \in Nat
  BY <1>3, FS_CardinalityType
<1>6. Cardinality(1..Len(seq)) = Len(seq)
  <2>1. Len(seq) \in Nat
    BY <1>1
  <2> QED BY <2>1, IntervalSize
<1> HIDE DEF feeds, rest
<1>7. Cardinality(feeds \cup rest) = Cardinality(feeds) + Cardinality(rest)
  <2>1. Cardinality(feeds \cap rest) = 0
    BY <1>2, FS_EmptySet
  <2>2. Cardinality(feeds \cup rest)
          = Cardinality(feeds) + Cardinality(rest) - Cardinality(feeds \cap rest)
    BY <1>3, FS_Union
  <2> QED BY <1>5, <2>1, <2>2
<1>8. Len(seq) = Cardinality(feeds) + Cardinality(rest)
  BY <1>2, <1>6, <1>7
<1> QED BY <1>4, <1>5, <1>8

-----------------------------------------------------------------------------
(***************************************************************************)
(* The levels of echoirq on the stack.                                     *)
(***************************************************************************)
LEMMA SameStack ==
  ASSUME NEW m, NEW n, n.mem = m.mem
  PROVE  \A at : Stacked(n, at) = Stacked(m, at)
<1>1. \A addr : Cell(n, addr) = Cell(m, addr)
  BY DEF Cell
<1> QED BY <1>1 DEF Stacked, mem_rd16

LEMMA SameFrame ==
  ASSUME NEW m, NEW n, NEW at \in Int,
         \A addr \in Int : at <= addr /\ addr < at + FrameSize => Cell(n, addr) = Cell(m, addr)
  PROVE  Stacked(n, at) = Stacked(m, at)
<1>1. /\ Cell(n, at) = Cell(m, at)
      /\ Cell(n, at + 1) = Cell(m, at + 1) /\ Cell(n, at + 2) = Cell(m, at + 2)
      /\ Cell(n, at + 3) = Cell(m, at + 3)
      /\ Cell(n, at + 4) = Cell(m, at + 4) /\ Cell(n, (at + 4) + 1) = Cell(m, (at + 4) + 1)
      /\ Cell(n, at + 6) = Cell(m, at + 6) /\ Cell(n, (at + 6) + 1) = Cell(m, (at + 6) + 1)
      /\ Cell(n, at + 8) = Cell(m, at + 8) /\ Cell(n, (at + 8) + 1) = Cell(m, (at + 8) + 1)
      /\ Cell(n, at + 10) = Cell(m, at + 10) /\ Cell(n, (at + 10) + 1) = Cell(m, (at + 10) + 1)
  BY DEF FrameSize
<1> QED BY <1>1 DEF Stacked, mem_rd16

LEMMA TopOfMachine ==
  /\ Registers(Machine) = Top /\ Registers(Machine') = Top'
  /\ Top.cc = cpu.cc /\ Top.a = cpu.a /\ Top.b = cpu.b /\ Top.pc = pc
  /\ Top'.cc = cpu'.cc /\ Top'.a = cpu'.a /\ Top'.b = cpu'.b /\ Top'.pc = pc'
BY DEF Registers, Machine, Top

LEMMA LevelsAre ==
  /\ \A k : Level(k) = IF k = Depth THEN Top ELSE Stacked(Machine, FrameAddr(k + 1))
  /\ \A k : Level(k)' = IF k = Depth' THEN Top' ELSE Stacked(Machine', FrameAddr(k + 1))
BY DEF Level, FrameAddr

(* How deep a stack pointer is. *)
LEMMA DepthIs ==
  ASSUME NEW d \in Int
  PROVE  /\ pc # 16384 /\ cpu.s = FrameAddr(d) => Depth = d
         /\ pc' # 16384 /\ cpu'.s = FrameAddr(d) => Depth' = d
<1>1. (8192 - (8192 - 12 * d)) \div 12 = d
  <2>1. 8192 - (8192 - 12 * d) = 12 * d
    OBVIOUS
  <2> QED BY <2>1
<1> QED BY <1>1 DEF Depth, FrameAddr, StackTop, FrameSize

LEMMA LevelsNext ==
  ASSUME NEW d, Depth' = d, \A k \in 0..d : Fits(k, d, Level(k)')
  PROVE  \A k \in 0..Depth' : Fits(k, Depth, Level(k))'
BY DEF Fits

LEMMA FitsMore ==
  ASSUME NEW d \in Nat, NEW k \in 0..d, NEW regs, Fits(k, d, regs), k < d
  PROVE  Fits(k, d + 1, regs) /\ Fits(k, d - 1, regs)
BY DEF Fits

LEMMA StackStays ==
  ASSUME NEW d \in Nat, Depth = d, pc' # 16384, cpu'.s = FrameAddr(d),
         d = 0 \/ cpu'.mem = cpu.mem
  PROVE  Depth' = d /\ \A k \in 0..d : k # d => Level(k)' = Level(k)
<1>1. Depth' = d
  BY DepthIs
<1>2. CASE d = 0
  BY <1>1, <1>2
<1>3. CASE cpu'.mem = cpu.mem
  <2>1. Machine'.mem = Machine.mem
    BY <1>3 DEF Machine
  <2>2. \A at : Stacked(Machine', at) = Stacked(Machine, at)
    BY <2>1, SameStack
  <2> QED BY <1>1, <2>2, LevelsAre
<1> QED BY <1>2, <1>3

(* The levels that hold a character when only the top one moves. *)
LEMMA HoldersMove ==
  ASSUME NEW d \in Nat, Depth = d, Depth' = d,
         \A k \in 0..d : k # d => Level(k)' = Level(k),
         NEW set
  PROVE  /\ Cardinality(Holders(set)) \in Nat
         /\ Cardinality(Holders(set)') =
              Cardinality(Holders(set)) - (IF InHand(set, Top) THEN 1 ELSE 0)
                + (IF InHand(set, Top') THEN 1 ELSE 0)
<1> DEFINE now == Holders(set)
           next == Holders(set)'
           rest == now \ {d}
<1>1. now = {k \in 0..d : InHand(set, Level(k))} /\ next = {k \in 0..d : InHand(set, Level(k)')}
  BY DEF Holders, InHand
<1>2. Level(d) = Top /\ Level(d)' = Top'
  BY LevelsAre
<1>3. \A k \in 0..d : k # d => (InHand(set, Level(k)') <=> InHand(set, Level(k)))
  OBVIOUS
<1>4. IsFiniteSet(now)
  <2>1. IsFiniteSet(0..d) /\ now \in SUBSET (0..d)
    BY <1>1, FS_Interval
  <2> QED BY <2>1, FS_Subset
<1>5. /\ d \in now <=> InHand(set, Top)
      /\ next = IF InHand(set, Top') THEN rest \cup {d} ELSE rest
  BY <1>1, <1>2, <1>3
<1> HIDE DEF now, next
<1>6. IsFiniteSet(rest) /\ Cardinality(rest) = Cardinality(now) - (IF d \in now THEN 1 ELSE 0)
  <2>1. Cardinality(rest) = IF d \in now THEN Cardinality(now) - 1 ELSE Cardinality(now)
    BY <1>4, FS_RemoveElement
  <2>2. Cardinality(now) \in Nat /\ IsFiniteSet(rest)
    BY <1>4, FS_CardinalityType, FS_RemoveElement
  <2> QED BY <2>1, <2>2
<1>7. Cardinality(rest \cup {d}) = Cardinality(rest) + 1
  <2>1. d \notin rest
    OBVIOUS
  <2> HIDE DEF rest
  <2> QED BY <1>6, <2>1, FS_AddElement
<1>8. Cardinality(now) \in Nat /\ Cardinality(rest) \in Nat
  BY <1>4, <1>6, FS_CardinalityType
<1> HIDE DEF rest
<1>9. Cardinality(next) = Cardinality(rest) + (IF InHand(set, Top') THEN 1 ELSE 0)
  BY <1>5, <1>7, <1>8
<1> QED BY <1>5, <1>6, <1>8, <1>9 DEF now, next

LEMMA EchoIrqFacts ==
  ASSUME Before, program = "echoirq"
  PROVE  /\ Steady /\ Wired /\ Nesting /\ Balance /\ IsMachine(Machine) /\ GuestTypeOK
         /\ pc \in Setup \cup Waiting \cup Reading \cup Holding \cup {Return}
         /\ Len(kbd) \in Nat /\ typed \in Nat /\ typed <= MaxTyped /\ MaxTyped \in Nat
         /\ Depth \in Nat /\ Depth + Waits <= MaxTyped /\ FrameSize * MaxTyped <= 8192
         /\ Depth = 0 <=> pc \in Setup \cup Waiting
         /\ Fits(Depth, Depth, Top)
<1>1. /\ Steady /\ Wired /\ Nesting /\ Balance /\ IsMachine(Machine) /\ GuestTypeOK
      /\ kbd \in Seq(Key)
  BY DEF Before, GuestInv, EchoIrqInv, GuestTypeOK, Steady
<1>2. Len(kbd) \in Nat /\ typed \in Nat /\ typed <= MaxTyped /\ MaxTyped \in Nat
      /\ FrameSize * MaxTyped <= 8192
  BY <1>1, GuestLoopAssumption, RoomAssumption, LenProperties DEF GuestTypeOK
<1>3. Depth \in Nat /\ Depth + Waits <= MaxTyped
  <2>1. Depth \in Nat /\ Waits \in Nat /\ Depth + Len(kbd) + Waits <= typed
    BY <1>1 DEF Nesting, Waits
  <2> QED BY <1>2, <2>1
<1>4. Fits(Depth, Depth, Top)
  <2>1. Fits(Depth, Depth, Level(Depth)) /\ Level(Depth) = Top
    BY <1>1, <1>3, LevelsAre DEF Nesting
  <2> QED BY <2>1
<1>5. /\ Depth = 0 <=> pc \in Setup \cup Waiting
      /\ pc \in Setup \cup Waiting \cup Reading \cup Holding \cup {Return}
  BY <1>4, TopOfMachine DEF Fits
<1> QED BY <1>1, <1>2, <1>3, <1>4, <1>5

(* An instruction moves the top level only. *)
LEMMA TopTurn ==
  ASSUME Turn, Turns, program = "echoirq", NEW d, d = Depth,
         pc' # 16384, cpu'.s = FrameAddr(d), d = 0 \/ cpu'.mem = cpu.mem,
         Fits(d, d, Top'), Waits' <= Waits
  PROVE  /\ Nesting' /\ Depth' = d /\ d \in Nat
         /\ \A k \in 0..d : k # d => Level(k)' = Level(k)
<1>1. /\ Nesting /\ Len(kbd) \in Nat /\ typed \in Nat /\ d \in Nat
      /\ kbd' = kbd /\ typed' = typed
  BY EchoIrqFacts DEF Turn, Before, Turns
<1>2. Depth' = d /\ \A k \in 0..d : k # d => Level(k)' = Level(k)
  BY <1>1, StackStays
<1>3. Level(d)' = Top'
  BY <1>2, LevelsAre
<1>4. \A k \in 0..d : Fits(k, d, Level(k)')
  <2>1. \A k \in 0..d : Fits(k, d, Level(k))
    BY <1>1 DEF Nesting
  <2> QED BY <1>2, <1>3, <2>1
<1>5. \A k \in 0..Depth' : Fits(k, Depth, Level(k))'
  BY <1>2, <1>4, LevelsNext
<1>6. Depth' + Len(kbd') + Waits' <= typed'
  <2>1. Waits \in Nat /\ Waits' \in Nat
    BY DEF Waits
  <2>2. d + Len(kbd) + Waits <= typed
    BY <1>1 DEF Nesting
  <2>3. Depth' + Len(kbd') + Waits' = d + Len(kbd) + Waits'
    BY <1>1, <1>2
  <2> QED BY <1>1, <2>1, <2>2, <2>3
<1>7. cpu'.s = FrameAddr(Depth')
  BY <1>2
<1>8. Nesting'
  BY <1>1, <1>2, <1>5, <1>6, <1>7 DEF Nesting, FrameAddr
<1> QED BY <1>1, <1>2, <1>8

LEMMA TopBalance ==
  ASSUME Turn, Turns, program = "echoirq", NEW d \in Nat, Depth = d, Depth' = d,
         \A k \in 0..d : k # d => Level(k)' = Level(k),
         \A set \in Counted :
           Count(set, Printed') + (IF InHand(set, Top') THEN 1 ELSE 0) + Unread(set)'
             = Count(set, Printed) + (IF InHand(set, Top) THEN 1 ELSE 0) + Unread(set),
         Printed' \in Seq(Char)
  PROVE  Balance'
<1>1. Balance /\ received' = received /\ Printed \in Seq(Char)
  BY EchoIrqFacts, Sizes DEF Turn, Before, Turns
<1>2. ASSUME NEW set \in Counted
      PROVE  Count(set, received') = Count(set, Printed') + Cardinality(Holders(set)') + Unread(set)'
  <2>1. /\ Cardinality(Holders(set)) \in Nat
        /\ Cardinality(Holders(set)') =
              Cardinality(Holders(set)) - (IF InHand(set, Top) THEN 1 ELSE 0)
                + (IF InHand(set, Top') THEN 1 ELSE 0)
    BY HoldersMove
  <2>2. Count(set, received) = Count(set, Printed) + Cardinality(Holders(set)) + Unread(set)
    BY <1>1 DEF Balance
  <2>3. Count(set, Printed) \in Nat /\ Count(set, Printed') \in Nat
    BY <1>1, TallyTypes
  <2>4. Unread(set) \in Nat /\ Unread(set)' \in Nat
    BY DEF Unread
  <2>5. Count(set, Printed') + (IF InHand(set, Top') THEN 1 ELSE 0) + Unread(set)'
             = Count(set, Printed) + (IF InHand(set, Top) THEN 1 ELSE 0) + Unread(set)
    OBVIOUS
  <2>6. Count(set, received') = Count(set, received)
    BY <1>1
  <2> DEFINE p == Count(set, Printed)  p2 == Count(set, Printed')
             c == Cardinality(Holders(set))  c2 == Cardinality(Holders(set)')
             u == Unread(set)  u2 == Unread(set)'
             h == IF InHand(set, Top) THEN 1 ELSE 0
             h2 == IF InHand(set, Top') THEN 1 ELSE 0
             r == Count(set, received')
  <2>7. h \in Nat /\ h2 \in Nat
    OBVIOUS
  <2>8. c \in Nat /\ c2 = c - h + h2 /\ p \in Nat /\ p2 \in Nat /\ u \in Nat /\ u2 \in Nat
    BY <2>1, <2>3, <2>4
  <2>9. r = p + c + u /\ p2 + h2 + u2 = p + h + u
    BY <2>2, <2>5, <2>6
  <2> HIDE DEF p, p2, c, c2, u, u2, h, h2, r
  <2>10. r = p2 + c2 + u2
    BY <2>7, <2>8, <2>9
  <2> QED BY <2>10 DEF p2, c2, u2, r
<1> QED BY <1>2 DEF Balance, Count, Counted

(* What the registers of a level are good for, after an instruction. *)
LEMMA FitsTurn ==
  ASSUME Turn, Turns, program = "echoirq", NEW d, d = Depth,
         d = 0 <=> pc' \in Setup \cup Waiting,
         pc' \in Setup \cup Waiting \cup Reading \cup Holding \cup {Return},
         pc' = 16408 => xxr_rbr_full \in Bits(cpu'.a),
         pc' = 16418 => xxr_thr_empty \in Bits(cpu'.a),
         pc' \in {16410, 16420} => cc_z \notin cpu'.cc,
         pc' \in Holding => cpu'.b \in CpuChar
  PROVE  Fits(d, d, Top')
<1>1. Fits(d, d, Top) /\ cpu'.cc \cap Held = cpu.cc \cap Held
  BY EchoIrqFacts DEF Turn, Before, Turns
<1>2. /\ cpu.cc \cap {cc_f, cc_i} = {} /\ (0 < d => cc_e \in cpu.cc) /\ ~(d < d)
  BY <1>1, EchoIrqFacts, TopOfMachine DEF Fits, Turn, Before
<1>3. /\ cpu'.cc \cap {cc_f, cc_i} = {} /\ (0 < d => cc_e \in cpu'.cc)
  BY <1>1, <1>2 DEF Held
<1> QED BY <1>2, <1>3, TopOfMachine DEF Fits

(* An instruction that leaves the UART alone, and B while it matters. *)
LEMMA QuietTurn ==
  ASSUME Turn, Turns, program = "echoirq", UNCHANGED <<lsr, thr>>, NEW d, d = Depth,
         pc' # 16384, cpu'.s = FrameAddr(d), d = 0 \/ cpu'.mem = cpu.mem,
         Fits(d, d, Top'),
         pc' \in Reading <=> pc \in Reading,
         pc' \in Holding <=> pc \in Holding,
         pc \in Holding => cpu'.b = cpu.b
  PROVE  Nesting' /\ Balance'
<1>1. shown' = shown /\ rbr' = rbr /\ GuestTypeOK /\ GuestInv
  BY DEF Turns, Turn
<1>2. Waits' = Waits /\ Waits \in Nat
  BY DEF Waits
<1>3. /\ Nesting' /\ Depth' = d /\ d \in Nat
      /\ \A k \in 0..d : k # d => Level(k)' = Level(k)
  <2>1. Waits' <= Waits
    BY <1>2
  <2> QED BY <2>1, TopTurn
<1>4. Printed' = Printed /\ Printed' \in Seq(Char)
  BY <1>1, Sizes DEF Printed
<1>5. \A set \in Counted :
        /\ InHand(set, Top') <=> InHand(set, Top)
        /\ Unread(set)' = Unread(set)
  BY <1>1, TopOfMachine DEF InHand, Unread, Marks
<1>6. \A set \in Counted :
        Count(set, Printed') + (IF InHand(set, Top') THEN 1 ELSE 0) + Unread(set)'
          = Count(set, Printed) + (IF InHand(set, Top) THEN 1 ELSE 0) + Unread(set)
  BY <1>4, <1>5
<1>7. Balance'
  BY <1>3, <1>4, <1>6, TopBalance
<1> QED BY <1>3, <1>7

LEMMA WiredTurn ==
  ASSUME Turn, Turns, program = "echoirq", fault' = fault, cpu'.mem = cpu.mem,
         pc \in {16384, 16388, 16391} => pc' \in {16388, 16391},
         pc' # 16384,
         pc' = 16391 => cpu'.a = 64 /\ cpu'.b = 21,
         pc' = 16396 => cpu'.a = 128,
         ier' = IF pc' \in Setup THEN {} ELSE {xxr_rbr_full},
         pc' \in Reading => xxr_rbr_full \in lsr' /\ xxr_rbr_full \in iir
  PROVE  Wired'
<1>1. /\ Wired /\ phase = "op" /\ fault = FALSE /\ erred' = fault' /\ iir' = iir /\ irq' = irq
  <2>1. Before /\ phase = "op" /\ fault = FALSE
    BY TurnStarts DEF Turn, Before, GuestInstruction
  <2>2. erred' = fault' /\ iir' = iir /\ irq' = irq
    BY DEF Turns
  <2> QED BY <2>1, <2>2, EchoIrqFacts
<1>2. irq' = {} /\ ~erred'
  BY <1>1 DEF Wired
<1>3. Machine'.mem = Machine.mem
  BY DEF Machine
<1>4. \A addr : Cell(Machine', addr) = Cell(Machine, addr)
  BY <1>3 DEF Cell
<1>5. mem_rd16(Machine', 65528) = mem_rd16(Machine, 65528)
  BY <1>4 DEF mem_rd16
<1>6. InMemory(Machine')
  BY <1>1, <1>4 DEF InMemory, Wired
<1>7. pc' \notin {16384, 16388, 16391} => mem_rd16(Machine', 65528) = 16405
  BY <1>1, <1>5 DEF Wired
<1>8. InMemory(Machine)'
  BY <1>6 DEF InMemory
<1>9. (pc \notin {16384, 16388, 16391} => mem_rd16(Machine, 65528) = 16405)'
  BY <1>7 DEF mem_rd16
<1> QED BY <1>1, <1>2, <1>8, <1>9 DEF Wired

LEMMA EchoIrqSetup ==
  ASSUME Turn, program = "echoirq", pc \in Setup
  PROVE  AnyInstruction /\ Steady' /\ EchoIrqInv'
<1> DEFINE d == Depth
<1>1. /\ Turns /\ UNCHANGED <<fault, trap, lsr, thr>>
      /\ pc # 16384 => cpu'.s = cpu.s
      /\ pc # 16391 => cpu'.mem = cpu.mem
      /\ pc # 16396 => ier' = ier
      /\ pc = 16384 => pc' = 16388 /\ cpu'.s = 8192
      /\ pc = 16388 => pc' = 16391 /\ cpu'.a = 64 /\ cpu'.b = 21
      /\ pc = 16391 => pc' = 16394
                       /\ cpu'.mem = Written(Written(cpu.mem, 65528, cpu.a), 65529, cpu.b)
      /\ pc = 16394 => pc' = 16396 /\ cpu'.a = 128
      /\ pc = 16396 => pc' = 16399 /\ ier' = Bits(cpu.a)
  BY EchoIrqTurn DEF Setup
<1>2. /\ Before /\ Wired /\ Nesting /\ d = 0
  BY EchoIrqFacts DEF Turn, Before
<1>3. pc' \in {16388, 16391, 16394, 16396, 16399} /\ pc' \in Line["echoirq"]
      /\ pc' \in Setup \cup Waiting /\ pc' \notin Reading \cup Holding
      /\ pc \notin Reading \cup Holding
  BY <1>1 DEF Setup, Waiting, Reading, Holding, Line
<1>4. cpu'.s = FrameAddr(d)
  <2>1. pc # 16384 => cpu.s = FrameAddr(d)
    BY <1>2 DEF Nesting
  <2> QED BY <1>1, <1>2, <2>1 DEF FrameAddr, StackTop, FrameSize
<1>5. Fits(d, d, Top')
  <2>1. pc' \notin {16408, 16418, 16410, 16420}
    BY <1>3
  <2> HIDE DEF d
  <2> QED BY <1>1, <1>2, <1>3, <2>1, FitsTurn DEF d
<1>6. Nesting' /\ Balance'
  <2> HIDE DEF d
  <2> QED BY <1>1, <1>2, <1>3, <1>4, <1>5, QuietTurn DEF d
<1>7. ier' = IF pc' \in Setup THEN {} ELSE {xxr_rbr_full}
  <2>1. ier = {} /\ (pc = 16396 => cpu.a = 128)
    BY <1>2 DEF Wired, Setup
  <2>2. Bits(128) = {128}
    BY DEF Bits, Weight
  <2> QED BY <1>1, <1>3, <2>1, <2>2 DEF Setup, Waiting, xxr_rbr_full
<1>8. AnyInstruction /\ Steady'
  <2>1. pc' \in Line[program]
    BY <1>3
  <2>2. AnyInstruction
    <3>1. UNCHANGED ier \/ ier' = {xxr_rbr_full}
      <4>1. ier = {}
        BY <1>2, EchoIrqFacts DEF Wired
      <4> QED BY <1>7, <4>1
    <3> QED BY <1>1, <2>1, <3>1, Kinds
  <2> QED BY <1>1, <2>1, <2>2, SteadyTurn
<1>9. CASE pc # 16391
  <2>1. Wired'
    BY <1>1, <1>3, <1>7, <1>9, WiredTurn DEF Setup
  <2> QED BY <1>6, <1>8, <2>1 DEF EchoIrqInv
<1>10. CASE pc = 16391
  <2>1. /\ Machine'.mem = Written(Written(Machine.mem, 65528, 64), 65529, 21)
        /\ pc' = 16394
    <3>1. cpu.a = 64 /\ cpu.b = 21
      BY <1>2, <1>10 DEF Wired
    <3> QED BY <1>1, <1>10, <3>1 DEF Machine
  <2>2. /\ Cell(Machine', 65528) = 64 /\ Cell(Machine', 65529) = 21
        /\ \A addr \in 16384..16425 : Cell(Machine', addr) = Cell(Machine, addr)
    BY <2>1 DEF Cell, Written
  <2>3. InMemory(Machine')
    BY <1>2, <2>2, EchoIrqImage DEF InMemory, Wired
  <2>4. mem_rd16(Machine', 65528) = 16405
    BY <2>2 DEF mem_rd16
  <2>5. InMemory(Machine)' /\ mem_rd16(Machine, 65528)' = 16405
    BY <2>3, <2>4 DEF InMemory, mem_rd16
  <2>6. irq' = {} /\ ~erred'
    <3>1. irq = {} /\ fault = FALSE
      BY <1>2, TurnStarts DEF Wired, Turn, GuestInstruction
    <3> QED BY <1>1, <3>1 DEF Turns
  <2>7. Wired'
    BY <1>3, <1>7, <2>1, <2>5, <2>6 DEF Wired
  <2> QED BY <1>6, <1>8, <2>7 DEF EchoIrqInv
<1> QED BY <1>9, <1>10

(* The loop, and the handler up to LDB and between LDB and STB. *)
LEMMA EchoIrqQuiet ==
  ASSUME Turn, program = "echoirq", pc \in Waiting \cup Reading \cup Holding,
         pc \notin {16412, 16422}
  PROVE  AnyInstruction /\ Steady' /\ EchoIrqInv'
<1> USE DEF xxr_rbr_full, xxr_thr_empty
<1> DEFINE d == Depth
<1>1. /\ Turns /\ UNCHANGED <<fault, trap, lsr, thr, ier>>
      /\ cpu'.s = cpu.s /\ cpu'.mem = cpu.mem
      /\ pc \in {16399, 16400, 16401} => pc' = pc + 1
      /\ pc = 16402 => pc' = 16399
      /\ pc = 16405 => pc' = 16408 /\ cpu'.a = ByteOf(iir)
      /\ pc = 16408 => pc' = 16410 /\ (cc_z \in cpu'.cc => 128 \notin Bits(cpu.a))
      /\ pc = 16410 => pc' = IF cc_z \in cpu.cc THEN 16425 ELSE 16412
      /\ pc = 16415 => pc' = 16418 /\ cpu'.a = ByteOf(lsr) /\ cpu'.b = cpu.b
      /\ pc = 16418 => pc' = 16420 /\ (cc_z \in cpu'.cc => 64 \notin Bits(cpu.a))
                       /\ cpu'.b = cpu.b
      /\ pc = 16420 => pc' = (IF cc_z \in cpu.cc THEN 16425 ELSE 16422) /\ cpu'.b = cpu.b
  <2>1. pc # 16425 /\ pc # 16384 /\ pc # 16391 /\ pc # 16396 /\ pc \notin {16412, 16422}
    BY DEF Waiting, Reading, Holding
  <2> QED BY <2>1, EchoIrqTurn
<1>2. /\ Before /\ Wired /\ Nesting /\ d \in Nat /\ (d = 0 <=> pc \in Waiting)
      /\ pc \notin Setup /\ fault = FALSE
      /\ Fits(d, d, Top) /\ xxr_thr_empty \in lsr
      /\ lsr \in SUBSET Weight /\ iir \in SUBSET Weight
  <2>1. Before /\ fault = FALSE /\ xxr_thr_empty \in lsr
    BY TurnStarts DEF Turn, Before
  <2>2. lsr \in SUBSET Weight /\ iir \in SUBSET Weight
    BY <2>1, FlagsAreWeights DEF Before, GuestTypeOK, TypeOK, UartTypeOK
  <2>3. pc \notin Setup
    BY DEF Setup, Waiting, Reading, Holding
  <2> QED BY <2>1, <2>2, <2>3, EchoIrqFacts
<1>3. /\ pc = 16408 => xxr_rbr_full \in Bits(cpu.a)
      /\ pc = 16418 => xxr_thr_empty \in Bits(cpu.a)
      /\ pc \in {16410, 16420} => cc_z \notin cpu.cc
      /\ pc \in Holding => cpu.b \in CpuChar
  BY <1>2, TopOfMachine DEF Fits
<1>4. /\ pc \in Reading => xxr_rbr_full \in lsr /\ xxr_rbr_full \in iir
      /\ ier = {xxr_rbr_full}
  BY <1>2 DEF Wired
<1>5. Bits(ByteOf(lsr)) = lsr /\ Bits(ByteOf(iir)) = iir
  BY <1>2, ByteOfBits
<1>6. /\ pc \in Waiting => pc' \in Waiting
      /\ pc \in Reading => pc' \in Reading
      /\ pc \in Holding => pc' \in Holding
  BY <1>1, <1>3 DEF Waiting, Reading, Holding
<1>7. /\ pc' \in Waiting \cup Reading \cup Holding /\ pc' \notin Setup
      /\ pc' \in Reading <=> pc \in Reading
      /\ pc' \in Holding <=> pc \in Holding
      /\ pc' \in Waiting <=> pc \in Waiting
      /\ pc' \in Line["echoirq"]
  BY <1>6 DEF Waiting, Reading, Holding, Setup, Line
<1>8. /\ pc' = 16408 => xxr_rbr_full \in Bits(cpu'.a)
      /\ pc' = 16418 => xxr_thr_empty \in Bits(cpu'.a)
      /\ pc' \in {16410, 16420} => cc_z \notin cpu'.cc
      /\ pc' \in Holding => cpu'.b = cpu.b
  <2>1. pc \in {16399, 16400, 16401, 16402, 16405, 16408, 16410, 16415, 16418, 16420}
    BY DEF Waiting, Reading, Holding
  <2>2. CASE pc \in {16399, 16400, 16401, 16402}
    BY <1>1, <1>7, <2>2 DEF Waiting, Reading, Holding
  <2>3. CASE pc = 16405
    BY <1>1, <1>4, <1>5, <2>3 DEF Reading, Holding
  <2>4. CASE pc \in {16408, 16410}
    BY <1>1, <1>3, <1>7, <2>4 DEF Reading, Holding
  <2>5. CASE pc = 16415
    BY <1>1, <1>2, <1>5, <2>5 DEF Reading, Holding
  <2>6. CASE pc \in {16418, 16420}
    BY <1>1, <1>3, <1>7, <2>6 DEF Reading, Holding
  <2> QED BY <2>1, <2>2, <2>3, <2>4, <2>5, <2>6
<1>9. Fits(d, d, Top')
  <2>1. d = 0 <=> pc' \in Setup \cup Waiting
    BY <1>2, <1>7
  <2>2. pc' \in Holding => cpu'.b \in CpuChar
    BY <1>3, <1>7, <1>8
  <2> HIDE DEF d
  <2> QED BY <1>1, <1>7, <1>8, <2>1, <2>2, FitsTurn DEF d
<1>10. Nesting' /\ Balance'
  <2>1. cpu'.s = FrameAddr(d) /\ pc' # 16384
    BY <1>1, <1>2, <1>7 DEF Nesting, Setup
  <2> HIDE DEF d
  <2> QED BY <1>1, <1>7, <1>8, <1>9, <2>1, QuietTurn DEF d
<1>11. Wired'
  <2>1. ier' = IF pc' \in Setup THEN {} ELSE {xxr_rbr_full}
    BY <1>1, <1>4, <1>7
  <2>2. pc \notin {16384, 16388, 16391} /\ pc' \notin {16384, 16391, 16396}
    BY <1>2, <1>7 DEF Setup
  <2>3. pc' \in Reading => xxr_rbr_full \in lsr' /\ xxr_rbr_full \in iir
    BY <1>1, <1>4, <1>7
  <2> QED BY <1>1, <2>1, <2>2, <2>3, WiredTurn
<1>12. AnyInstruction /\ Steady'
  <2>1. pc' \in Line[program]
    BY <1>7
  <2> QED BY <1>1, <2>1, Kinds, SteadyTurn
<1> QED BY <1>10, <1>11, <1>12 DEF EchoIrqInv

LEMMA TallyShown ==
  ASSUME Turn
  PROVE  \A set \in Counted : Count(set, shown) \in Nat
<1>1. shown \in Seq(Char)
  BY TurnStarts
<1>2. ASSUME NEW set \in Counted PROVE Count(set, shown) \in Nat
  BY <1>1, TallyTypes
<1> QED BY <1>2

(* LDB: the character goes from RBR into the hands of the handler. *)
LEMMA EchoIrqReads ==
  ASSUME Turn, program = "echoirq", pc = 16412
  PROVE  AnyInstruction /\ Steady' /\ EchoIrqInv'
<1> USE DEF xxr_rbr_full, xxr_thr_empty, tio_read_rbr
<1> DEFINE d == Depth
<1>1. /\ Turns /\ UNCHANGED <<fault, trap, thr, ier>>
      /\ cpu'.s = cpu.s /\ cpu'.mem = cpu.mem
      /\ pc' = 16415 /\ lsr' = lsr \ {xxr_rbr_full} /\ cpu'.b = rbr
      /\ shown' = shown /\ rbr' = rbr
  BY EchoIrqTurn DEF Turns
<1>2. /\ Before /\ Steady /\ Wired /\ Nesting /\ d \in Nat /\ d # 0
      /\ xxr_thr_empty \in lsr /\ Printed = shown /\ shown \in Seq(Char)
  BY TurnStarts, EchoIrqFacts DEF Turn, Before, Setup, Waiting
<1>3. /\ pc \in Reading /\ pc \notin Holding /\ pc' \in Holding
      /\ pc' \notin Setup \cup Waiting \cup Reading /\ pc' \in Line["echoirq"]
  BY <1>1 DEF Setup, Waiting, Reading, Holding, Line
<1>4. xxr_rbr_full \in lsr /\ rbr \in CpuChar /\ ier = {xxr_rbr_full}
  BY <1>2, <1>3 DEF Wired, Steady, Reading, Setup
<1>5. Fits(d, d, Top')
  <2> HIDE DEF d
  <2> QED BY <1>1, <1>2, <1>3, <1>4, FitsTurn DEF d
<1>6. /\ Nesting' /\ Depth' = d
      /\ \A k \in 0..d : k # d => Level(k)' = Level(k)
  <2>1. Waits' <= Waits
    BY <1>1 DEF Waits
  <2>2. cpu'.s = FrameAddr(d)
    BY <1>1, <1>2, <1>3 DEF Nesting
  <2> HIDE DEF d
  <2> QED BY <1>1, <1>5, <2>1, <2>2, TopTurn DEF d
<1>7. Balance'
  <2>1. Printed' = Printed
    BY <1>1, <1>2 DEF Printed
  <2>2. \A set \in Counted :
          /\ ~InHand(set, Top) /\ (InHand(set, Top') <=> Marks(set, rbr))
          /\ Unread(set) = (IF Marks(set, rbr) THEN 1 ELSE 0) /\ Unread(set)' = 0
    BY <1>1, <1>3, <1>4, TopOfMachine DEF InHand, Unread
  <2>3. \A set \in Counted :
          Count(set, Printed') + (IF InHand(set, Top') THEN 1 ELSE 0) + Unread(set)'
            = Count(set, Printed) + (IF InHand(set, Top) THEN 1 ELSE 0) + Unread(set)
    <3>1. \A set \in Counted : Count(set, shown) \in Nat
      BY TallyShown
    <3> QED BY <1>2, <2>1, <2>2, <3>1
  <2> HIDE DEF d
  <2> QED BY <1>1, <1>2, <1>6, <2>1, <2>3, TopBalance DEF d
<1>8. Wired'
  <2>1. ier' = IF pc' \in Setup THEN {} ELSE {xxr_rbr_full}
    BY <1>1, <1>3, <1>4
  <2> QED BY <1>1, <1>3, <2>1, WiredTurn
<1>9. AnyInstruction /\ Steady'
  <2>1. pc' \in Line[program] /\ lsr' = tio_read_rbr(lsr) /\ lsr' \subseteq lsr
    BY <1>1, <1>3
  <2> QED BY <1>1, <2>1, Kinds, SteadyTurn
<1> QED BY <1>6, <1>7, <1>8, <1>9 DEF EchoIrqInv

(* Every set of characters that is counted is printed at most as often as  *)
(* it was received: the screen is never longer than what was received.     *)
LEMMA EchoIrqRoom ==
  ASSUME Turn, program = "echoirq"
  PROVE  Len(shown) < MaxOut
<1>1. /\ Balance /\ Nesting /\ Printed = shown /\ shown \in Seq(Char) /\ received \in Seq(Char)
      /\ Depth \in Nat
  BY TurnStarts, EchoIrqFacts DEF Turn, Before, GuestTypeOK
<1>2. ASSUME NEW set \in Counted
      PROVE  /\ Count(set, shown) \in Nat /\ Count(set, received) \in Nat
             /\ Count(set, shown) <= Count(set, received)
  <2>1. Count(set, shown) \in Nat
    BY <1>1, TallyTypes
  <2>2. Count(set, received) \in Nat
    BY <1>1, TallyTypes
  <2>3. Cardinality(Holders(set)) \in Nat
    <3>1. IsFiniteSet(0..Depth) /\ Holders(set) \in SUBSET (0..Depth)
      BY <1>1, FS_Interval DEF Holders
    <3>2. IsFiniteSet(Holders(set))
      BY <3>1, FS_Subset
    <3> QED BY <3>2, FS_CardinalityType
  <2>4. Unread(set) \in Nat
    BY DEF Unread
  <2>5. Count(set, received) = Count(set, shown) + Cardinality(Holders(set)) + Unread(set)
    BY <1>1 DEF Balance
  <2> QED BY <2>1, <2>2, <2>3, <2>4, <2>5
<1>3. {LF} \in Counted /\ Char \ {LF} \in Counted
  BY UartAssumption, GuestLoopAssumption DEF Counted
<1>4. /\ Count(Char \ {LF}, shown) = Len(shown) - Count({LF}, shown)
      /\ Count(Char \ {LF}, received) = Len(received) - Count({LF}, received)
  <2>1. Count(Char \ {LF}, shown) = Len(shown) - Count({LF}, shown)
    BY <1>1, TallyAll
  <2>2. Count(Char \ {LF}, received) = Len(received) - Count({LF}, received)
    BY <1>1, TallyAll
  <2> QED BY <2>1, <2>2
<1>5. Len(shown) \in Nat /\ Len(received) \in Nat
  BY <1>1, LenProperties
<1>6. Len(shown) <= Len(received)
  <2> DEFINE lf == {LF}
             nolf == Char \ {LF}
  <2>1. lf \in Counted /\ nolf \in Counted
    BY <1>3
  <2>2. /\ Count(nolf, shown) = Len(shown) - Count(lf, shown)
        /\ Count(nolf, received) = Len(received) - Count(lf, received)
    BY <1>4
  <2> HIDE DEF lf, nolf
  <2>3. /\ Count(lf, shown) \in Nat /\ Count(lf, received) \in Nat
        /\ Count(lf, shown) <= Count(lf, received)
    BY <1>2, <2>1
  <2>4. Count(nolf, shown) <= Count(nolf, received)
    BY <1>2, <2>1
  <2> QED BY <1>5, <2>2, <2>3, <2>4
<1> QED BY <1>6, RoomToPrint

(* STB: it goes on to THR, and the handler is about to return. *)
LEMMA EchoIrqPrints ==
  ASSUME Turn, program = "echoirq", pc = 16422
  PROVE  AnyInstruction /\ Steady' /\ EchoIrqInv'
<1> USE DEF xxr_rbr_full, xxr_thr_empty, tio_write_thr
<1> DEFINE d == Depth
<1>1. /\ Turns /\ UNCHANGED <<fault, trap, ier>>
      /\ cpu'.s = cpu.s /\ cpu'.mem = cpu.mem
      /\ pc' = 16425 /\ lsr' = lsr \ {xxr_thr_empty} /\ thr' = cpu.b
      /\ shown' = shown /\ rbr' = rbr
  BY EchoIrqTurn DEF Turns
<1>2. /\ Before /\ Steady /\ Wired /\ Nesting /\ d \in Nat /\ d # 0 /\ Fits(d, d, Top)
      /\ xxr_thr_empty \in lsr /\ Printed = shown /\ shown \in Seq(Char)
  BY TurnStarts, EchoIrqFacts DEF Turn, Before, Setup, Waiting
<1>3. /\ pc \in Holding /\ pc \notin Setup \cup Reading /\ pc' = Return
      /\ pc' \notin Setup \cup Waiting \cup Reading \cup Holding /\ pc' \in Line["echoirq"]
  BY <1>1 DEF Setup, Waiting, Reading, Holding, Return, Line
<1>4. /\ cpu.b \in CpuChar /\ cpu.b \in Char /\ ier = {xxr_rbr_full}
      /\ xxr_rbr_full \in lsr' <=> xxr_rbr_full \in lsr
  BY <1>1, <1>2, <1>3, TopOfMachine, LoopAssumption DEF Wired, Fits
<1>5. Fits(d, d, Top')
  <2> HIDE DEF d
  <2> QED BY <1>1, <1>2, <1>3, FitsTurn DEF d
<1>6. /\ Nesting' /\ Depth' = d
      /\ \A k \in 0..d : k # d => Level(k)' = Level(k)
  <2>1. Waits' <= Waits
    BY <1>3, <1>4 DEF Waits
  <2>2. cpu'.s = FrameAddr(d)
    BY <1>1, <1>2, <1>3 DEF Nesting, Setup
  <2> HIDE DEF d
  <2> QED BY <1>1, <1>5, <2>1, <2>2, TopTurn DEF d
<1>7. Balance'
  <2>1. Printed' = shown \o Echoed(cpu.b)
    BY <1>1 DEF Printed
  <2>2. \A set \in Counted :
          /\ InHand(set, Top) <=> Marks(set, cpu.b)
          /\ ~InHand(set, Top') /\ Unread(set)' = Unread(set)
    BY <1>1, <1>3, <1>4, TopOfMachine DEF InHand, Unread, Marks
  <2>3. \A set \in Counted :
          Count(set, Printed') = Count(set, shown) + (IF Marks(set, cpu.b) THEN 1 ELSE 0)
    <3>1. ASSUME NEW set \in Counted
          PROVE  Count(set, shown \o Echoed(cpu.b))
                   = Count(set, shown) + (IF Marks(set, cpu.b) THEN 1 ELSE 0)
      <4> DEFINE b == cpu.b
      <4>1. shown \in Seq(Char) /\ b \in Char
        BY <1>2, <1>4
      <4> HIDE DEF b
      <4>2. Count(set, shown \o Echoed(b)) = Count(set, shown) + (IF Marks(set, b) THEN 1 ELSE 0)
        BY <4>1, TallyEchoed
      <4> QED BY <4>2 DEF b
    <3> QED BY <2>1, <3>1
  <2>4. \A set \in Counted :
          Count(set, Printed') + (IF InHand(set, Top') THEN 1 ELSE 0) + Unread(set)'
            = Count(set, Printed) + (IF InHand(set, Top) THEN 1 ELSE 0) + Unread(set)
    <3>1. \A set \in Counted : Count(set, shown) \in Nat
      BY TallyShown
    <3>2. \A set \in Counted : Unread(set) \in Nat
      BY DEF Unread
    <3> QED BY <1>2, <2>2, <2>3, <3>1, <3>2
  <2>5. Printed' \in Seq(Char)
    <3>1. Echoed(cpu.b) \in Seq(Char)
      BY <1>4, EchoedIsSeq
    <3> QED BY <1>2, <2>1, <3>1, ConcatProperties
  <2> HIDE DEF d
  <2> QED BY <1>1, <1>2, <1>6, <2>4, <2>5, TopBalance DEF d
<1>8. Wired'
  <2>1. ier' = IF pc' \in Setup THEN {} ELSE {xxr_rbr_full}
    BY <1>1, <1>3, <1>4
  <2> QED BY <1>1, <1>3, <2>1, WiredTurn
<1>9. AnyInstruction /\ Steady'
  <2>1. /\ pc' \in Line[program] /\ lsr' = tio_write_thr(lsr) /\ lsr' \subseteq lsr
        /\ thr' \in CpuChar /\ Len(shown) < MaxOut
    BY <1>1, <1>3, <1>4, EchoIrqRoom
  <2> QED BY <1>1, <2>1, Kinds, SteadyTurn
<1> QED BY <1>6, <1>7, <1>8, <1>9 DEF EchoIrqInv

(* RTI: the level below goes on where it was interrupted. *)
LEMMA EchoIrqUnstacks ==
  ASSUME Turn, program = "echoirq", pc = Return
  PROVE  /\ Turns /\ UNCHANGED <<fault, trap, thr, lsr, ier>> /\ cpu'.mem = cpu.mem
         /\ Depth \in Nat /\ Depth # 0
         /\ cpu'.s = FrameAddr(Depth - 1) /\ Top' = Level(Depth - 1)
         /\ pc' \in Waiting \cup Holding \cup {Return}
<1> DEFINE d == Depth
           n == cpu_execop(Machine)
           below == Stacked(Machine, cpu.s)
           changed == {"pc", "cc", "a", "b", "dp", "x", "y", "u", "s"}
<1>1. /\ IsMachine(Machine) /\ IsMachine(n) /\ Becomes(n) /\ fault \in BOOLEAN
      /\ Before /\ Wired /\ Nesting /\ d \in Nat /\ d # 0 /\ Fits(d, d, Top)
      /\ cpu.s = FrameAddr(d) /\ d <= MaxTyped /\ MaxTyped \in Nat /\ FrameSize * MaxTyped <= 8192
  <2>1. Before /\ IsMachine(Machine) /\ IsMachine(n) /\ Becomes(n) /\ fault \in BOOLEAN
    BY TurnStarts DEF Turn, Before
  <2>2. /\ Wired /\ Nesting /\ d \in Nat /\ d # 0 /\ Fits(d, d, Top)
        /\ d + Waits <= MaxTyped /\ MaxTyped \in Nat /\ FrameSize * MaxTyped <= 8192
    BY <2>1, EchoIrqFacts DEF Setup, Waiting, Return
  <2>3. Waits \in Nat
    BY DEF Waits
  <2>4. cpu.s = FrameAddr(d)
    BY <2>2 DEF Nesting, Return
  <2> QED BY <2>1, <2>2, <2>3, <2>4
<1>2. /\ Machine.pc = 16425 /\ Machine.s = cpu.s /\ Machine.cc = cpu.cc /\ Machine.mem = cpu.mem
      /\ DOMAIN Machine = {"a", "b", "dp", "x", "y", "u", "s", "cc", "lcr", "mem", "pc", "irq",
                           "trap", "ok", "crashed", "rbr", "thr", "lsr", "ier", "iir"}
  BY FieldsAreVariables DEF Return
<1>3. InCode(Machine, 1) /\ Cell(Machine, Machine.pc) = 59 /\ cc_e \in Machine.cc
  <2>1. InMemory(Machine)
    BY <1>1 DEF Wired
  <2>2. Cell(Machine, 16425) = 59
    BY <2>1, EchoIrqBytes
  <2>3. cc_e \in cpu.cc
    BY <1>1, TopOfMachine DEF Fits
  <2> QED BY <1>2, <2>2, <2>3 DEF InCode, TIO_BASE_ADDRESS
<1>4. Machine.s + FrameSize <= TIO_BASE_ADDRESS /\ cpu.s + FrameSize = FrameAddr(d - 1)
  BY <1>1, <1>2 DEF FrameAddr, StackTop, FrameSize, TIO_BASE_ADDRESS
<1>5. IsMachine(Machine) /\ IsMachine(n) /\ Becomes(n) /\ fault \in BOOLEAN
  BY <1>1
<1>6. /\ n.s = cpu.s + FrameSize /\ n.mem = cpu.mem /\ Registers(n) = below
      /\ \A field \in Aside : n[field] = Machine[field]
  <2> DEFINE m == Machine
  <2>1. /\ IsMachine(m) /\ InCode(m, 1) /\ Cell(m, m.pc) = 59 /\ cc_e \in m.cc
        /\ m.s + FrameSize <= TIO_BASE_ADDRESS
    BY <1>5, <1>3, <1>4
  <2>2. m.s = cpu.s /\ m.mem = cpu.mem
    BY <1>2
  <2> HIDE DEF m
  <2>3. /\ cpu_execop(m).s = m.s + FrameSize /\ cpu_execop(m).mem = m.mem
        /\ Registers(cpu_execop(m)) = Stacked(m, m.s)
        /\ \A field \in Aside : cpu_execop(m)[field] = m[field]
    BY <2>1, ReturnFromInterrupt
  <2> QED BY <2>2, <2>3 DEF m
<1>7. below = Level(d - 1) /\ Fits(d - 1, d, Level(d - 1))
  <2>1. d - 1 \in 0..d /\ d - 1 # d /\ (d - 1) + 1 = d
    BY <1>1
  <2>2. Level(d - 1) = Stacked(Machine, FrameAddr((d - 1) + 1))
    BY <2>1, LevelsAre
  <2>3. Level(d - 1) = Stacked(Machine, FrameAddr(d))
    BY <2>1, <2>2
  <2>4. Fits(d - 1, d, Level(d - 1))
    BY <1>1, <2>1 DEF Nesting
  <2> QED BY <1>1, <2>3, <2>4
<1>8. /\ below.cc \cap {cc_f, cc_i} = {} /\ cc_e \in below.cc
      /\ below.pc \in Waiting \cup Holding \cup {Return}
  BY <1>1, <1>7 DEF Fits
<1>9. n.cc = below.cc /\ n.pc = below.pc
  <2> HIDE DEF n, below
  <2>1. Registers(n).cc = n.cc /\ Registers(n).pc = n.pc
    BY DEF Registers
  <2> QED BY <1>6, <2>1
<1>10. Keeps(n, Machine, changed)
  <2> HIDE DEF n
  <2> QED BY <1>2, <1>6 DEF Keeps, Aside
<1>11. n.cc \cap Held = cpu.cc \cap Held
  <2>1. cpu.cc \cap {cc_f, cc_i} = {} /\ cc_e \in cpu.cc
    BY <1>1, TopOfMachine DEF Fits
  <2> HIDE DEF n, below
  <2> QED BY <1>8, <1>9, <2>1 DEF Held
<1>12. Turns
  BY <1>10, <1>11, Turning
<1>13. /\ n.crashed = FALSE /\ UNCHANGED <<fault, trap, thr, lsr, ier>>
       /\ cpu'.mem = cpu.mem
  <2>1. /\ "crashed" \notin changed /\ "ok" \notin changed /\ "trap" \notin changed
        /\ "thr" \notin changed /\ "lsr" \notin changed /\ "ier" \notin changed
        /\ "mem" \notin changed
    OBVIOUS
  <2> HIDE DEF changed, n
  <2> QED BY <1>5, <1>10, <2>1, Turned
<1> HIDE DEF n, below, d
<1>14. Machine' = n /\ cpu'.s = n.s /\ pc' = n.pc
  BY <1>5, <1>13, Becoming
<1>15. Top' = below
  BY <1>6, <1>14, TopOfMachine
<1> QED BY <1>1, <1>4, <1>6, <1>7, <1>8, <1>9, <1>12, <1>13, <1>14, <1>15 DEF d

LEMMA EchoIrqReturns ==
  ASSUME Turn, program = "echoirq", pc = Return
  PROVE  AnyInstruction /\ Steady' /\ EchoIrqInv'
<1> DEFINE d == Depth
<1>1. /\ Turns /\ UNCHANGED <<fault, trap, thr, lsr, ier>> /\ cpu'.mem = cpu.mem
      /\ d \in Nat /\ d # 0 /\ cpu'.s = FrameAddr(d - 1) /\ Top' = Level(d - 1)
      /\ pc' \in Waiting \cup Holding \cup {Return}
  BY EchoIrqUnstacks
<1>2. /\ Before /\ Wired /\ Nesting /\ Balance /\ Len(kbd) \in Nat /\ typed \in Nat
      /\ pc \notin Setup \cup Reading \cup Holding
  BY EchoIrqFacts DEF Turn, Before, Setup, Reading, Holding, Return
<1>3. UNCHANGED <<kbd, shown, rbr, received, typed>>
  BY <1>1 DEF Turns
<1>4. pc' \notin Setup \cup Reading /\ pc' \in Line["echoirq"]
  BY <1>1 DEF Setup, Waiting, Reading, Holding, Return, Line
<1>5. Depth' = d - 1
  <2>1. d - 1 \in Int /\ pc' # 16384
    BY <1>1, <1>4 DEF Setup
  <2> HIDE DEF d
  <2> QED BY <1>1, <2>1, DepthIs
<1>6. \A k \in 0..(d - 1) : Level(k)' = Level(k)
  <2>1. Machine'.mem = Machine.mem
    BY <1>1 DEF Machine
  <2>2. \A at : Stacked(Machine', at) = Stacked(Machine, at)
    BY <2>1, SameStack
  <2>3. \A k \in 0..(d - 1) : k # d
    BY <1>1
  <2>4. \A k \in 0..(d - 1) : Level(k) = Stacked(Machine, FrameAddr(k + 1))
    BY <2>3, LevelsAre
  <2>5. \A k \in 0..(d - 1) :
          Level(k)' = IF k = d - 1 THEN Top' ELSE Stacked(Machine', FrameAddr(k + 1))
    BY <1>5, LevelsAre
  <2> HIDE DEF d
  <2> QED BY <1>1, <2>2, <2>4, <2>5
<1>7. Nesting'
  <2>1. \A k \in 0..(d - 1) : Fits(k, d - 1, Level(k)')
    <3>1. ASSUME NEW k \in 0..(d - 1)
          PROVE  Fits(k, d - 1, Level(k)')
      <4> DEFINE regs == Level(k)
      <4>1. d \in Nat /\ k \in 0..d /\ k < d /\ Level(k)' = regs
        BY <1>1, <1>6
      <4>2. Fits(k, d, regs)
        BY <1>2, <4>1 DEF Nesting
      <4> HIDE DEF d, regs
      <4> QED BY <4>1, <4>2, FitsMore
    <3> QED BY <3>1
  <2>2. \A k \in 0..Depth' : Fits(k, Depth, Level(k))'
    <3> HIDE DEF d
    <3> QED BY <1>5, <2>1, LevelsNext
  <2>3. Waits' = Waits /\ Waits \in Nat
    BY <1>1, <1>2, <1>4 DEF Waits
  <2>4. d + Len(kbd) + Waits <= typed
    BY <1>2 DEF Nesting
  <2>5. Depth' + Len(kbd') + Waits' <= typed'
    <3> HIDE DEF d
    <3> QED BY <1>1, <1>2, <1>3, <1>5, <2>3, <2>4
  <2>6. Depth' \in Nat /\ cpu'.s = FrameAddr(Depth')
    <3> HIDE DEF d
    <3> QED BY <1>1, <1>5
  <2> QED BY <2>2, <2>5, <2>6 DEF Nesting, FrameAddr
<1>8. Balance'
  <2>1. Printed' = Printed /\ \A set \in Counted : Unread(set)' = Unread(set)
    BY <1>1, <1>3 DEF Printed, Unread, Marks
  <2>2. ASSUME NEW set \in Counted
        PROVE  Holders(set)' = Holders(set)
    <3>1. Level(d) = Top /\ ~InHand(set, Top)
      BY <1>2, LevelsAre, TopOfMachine DEF InHand
    <3>2. /\ Holders(set) = {k \in 0..d : InHand(set, Level(k))}
          /\ Holders(set)' = {k \in 0..(d - 1) : InHand(set, Level(k)')}
      BY <1>5 DEF Holders, InHand
    <3>3. 0..d = 0..(d - 1) \cup {d}
      BY <1>1
    <3> HIDE DEF d
    <3> QED BY <1>6, <3>1, <3>2, <3>3
  <2>3. \A set \in Counted :
          Count(set, received') = Count(set, Printed') + Cardinality(Holders(set)') + Unread(set)'
    BY <1>2, <1>3, <2>1, <2>2 DEF Balance
  <2> QED BY <2>3 DEF Balance, Count, Counted
<1>9. Wired'
  <2>1. ier = {xxr_rbr_full}
    BY <1>2 DEF Wired
  <2>2. pc' \notin {16384, 16391, 16396} /\ pc \notin {16384, 16388, 16391}
    BY <1>2, <1>4 DEF Setup
  <2>3. ier' = IF pc' \in Setup THEN {} ELSE {xxr_rbr_full}
    BY <1>1, <1>4, <2>1
  <2> QED BY <1>1, <1>4, <2>2, <2>3, WiredTurn
<1>10. AnyInstruction /\ Steady'
  <2>1. pc' \in Line[program]
    BY <1>4
  <2> QED BY <1>1, <2>1, Kinds, SteadyTurn
<1> QED BY <1>7, <1>8, <1>9, <1>10 DEF EchoIrqInv

(* What an interrupt leaves in the frame. *)
Frame == [Top EXCEPT !.cc = @ \cup {cc_e}]

(* Between two instructions: an interrupt that is requested is taken.  The *)
(* loop, or the handler that is at work, becomes a level of the stack.     *)
LEMMA EchoIrqTakes ==
  ASSUME Before, GuestInterrupt, program = "echoirq", irq # {}
  PROVE  /\ AnyInterrupt /\ IsMachine(Machine)' /\ mask' = cpu'.cc \cap {cc_f, cc_i}
         /\ UNCHANGED <<kbd, shown, rbr, thr, lsr, ier, iir, perform_tio, erred, program,
                        received, typed>>
         /\ irq' = {} /\ pc' = 16405 /\ phase' = "mon" /\ cpu'.cc = cpu.cc \cup {cc_e}
         /\ cpu'.s = FrameAddr(Depth + 1)
         /\ Stacked(Machine', FrameAddr(Depth + 1)) = Frame
         /\ \A addr \in Int : FrameAddr(Depth) <= addr => Cell(Machine', addr) = Cell(Machine, addr)
         /\ Waits = 1 /\ pc \in Waiting \cup Holding \cup {Return}
<1> DEFINE n == cpu_execirq(Machine)
           d == Depth
<1>1. /\ Steady /\ Wired /\ Nesting /\ IsMachine(Machine) /\ fault \in BOOLEAN
      /\ mask = cpu.cc \cap {cc_f, cc_i} /\ Becomes(n)
      /\ phase = "irq" /\ phase' = "mon" /\ UNCHANGED <<ran, erred, program, received, typed>>
  BY EchoIrqFacts DEF Before, GuestTypeOK, TypeOK, GuestInterrupt
<1>2. /\ d \in Nat /\ d + Waits <= MaxTyped /\ MaxTyped \in Nat /\ FrameSize * MaxTyped <= 8192
      /\ pc \in Setup \cup Waiting \cup Reading \cup Holding \cup {Return}
  BY EchoIrqFacts
<1>3. /\ irq = {irq_irq} /\ pc \notin Setup \cup Reading /\ xxr_rbr_full \in lsr
      /\ mem_rd16(Machine, 65528) = 16405
  BY <1>1 DEF Wired, Setup
<1>4. Waits = 1 /\ pc \in Waiting \cup Holding \cup {Return}
  BY <1>2, <1>3 DEF Waits
<1>5. cpu.s = FrameAddr(d) /\ cpu.s \in Int /\ cpu.s <= 8192 /\ FrameSize <= cpu.s
      /\ cpu.s - FrameSize = FrameAddr(d + 1)
  <2>1. cpu.s = FrameAddr(d)
    BY <1>1, <1>3 DEF Nesting, Setup
  <2> HIDE DEF d
  <2> QED BY <1>2, <1>4, <2>1 DEF FrameAddr, StackTop, FrameSize
<1>6. /\ Machine.s = cpu.s /\ Machine.cc = cpu.cc /\ Machine.irq = irq /\ Machine.pc = pc
      /\ Machine.rbr = rbr /\ Machine.thr = thr /\ Machine.lsr = lsr /\ Machine.ier = ier
      /\ Machine.iir = iir /\ Machine.trap = trap /\ Machine.ok = ~fault
      /\ Machine.crashed = FALSE
  BY FieldsAreVariables
<1>7. cpu.cc \cap {cc_f, cc_i} = {} /\ cc_i \notin cpu.cc
  BY <1>1 DEF Steady
<1>8. /\ IsMachine(n) /\ n.s = cpu.s - FrameSize /\ n.pc = 16405
      /\ Stacked(n, n.s) = Interrupted(Machine)
      /\ n.cc = cpu.cc \cup {cc_e} /\ n.irq = {}
      /\ \A field \in Aside \ {"irq"} : n[field] = Machine[field]
      /\ \A addr \in Int : cpu.s <= addr => Cell(n, addr) = Cell(Machine, addr)
  <2> DEFINE m == Machine
  <2>1. /\ IsMachine(m) /\ m.irq = {irq_irq} /\ cc_i \notin m.cc
        /\ FrameSize <= m.s /\ m.s <= TIO_BASE_ADDRESS
    BY <1>1, <1>3, <1>5, <1>6, <1>7 DEF TIO_BASE_ADDRESS
  <2>2. m.s = cpu.s /\ m.cc = cpu.cc /\ mem_rd16(m, 65528) = 16405
    BY <1>3, <1>6
  <2> HIDE DEF m
  <2> DEFINE k == cpu_execirq(m)
  <2>3. /\ IsMachine(k) /\ k.s = m.s - FrameSize /\ k.pc = mem_rd16(m, 65528)
        /\ k.cc = m.cc \cup {cc_e} /\ k.irq = {}
    BY <2>1, TakesIrq
  <2>4. Stacked(k, k.s) = Interrupted(m)
    BY <2>1, TakesIrq
  <2>5. \A field \in Aside \ {"irq"} : k[field] = m[field]
    BY <2>1, TakesIrq
  <2>6. \A addr \in Int : m.s <= addr => Cell(k, addr) = Cell(m, addr)
    BY <2>1, TakesIrq
  <2> QED BY <2>2, <2>3, <2>4, <2>5, <2>6 DEF m
<1>9. /\ n.crashed = FALSE /\ n.trap = trap /\ n.ok = (~fault) /\ n.rbr = rbr /\ n.thr = thr
      /\ n.lsr = lsr /\ n.ier = ier /\ n.iir = iir
  <2>1. {"crashed", "trap", "ok", "rbr", "thr", "lsr", "ier", "iir"} \subseteq Aside \ {"irq"}
    BY DEF Aside
  <2> HIDE DEF n
  <2> QED BY <1>6, <1>8, <2>1
<1> HIDE DEF n
<1>10. /\ Machine' = n /\ IsMachine(Machine)' /\ mask' = cpu'.cc \cap {cc_f, cc_i}
       /\ cpu'.s = n.s /\ cpu'.cc = n.cc /\ pc' = n.pc /\ irq' = n.irq /\ trap' = n.trap
       /\ fault' = ~n.ok /\ rbr' = n.rbr /\ thr' = n.thr /\ lsr' = n.lsr /\ ier' = n.ier
       /\ iir' = n.iir
       /\ UNCHANGED <<kbd, shown, perform_tio, term, sigint, armed, resume>>
  <2>1. IsMachine(n) /\ n.crashed = FALSE /\ Becomes(n) /\ fault \in BOOLEAN
    BY <1>1, <1>8, <1>9
  <2> QED BY <2>1, Becoming
<1>11. fault' = fault
  BY <1>1, <1>9, <1>10
<1>12. mask' = mask
  BY <1>1, <1>7, <1>8, <1>10 DEF cc_e, cc_f, cc_i
<1>13. Deliverable(irq, mask) # {} /\ IrqAfterService(irq, mask) = {}
  <2>1. cc_i \notin mask
    BY <1>1, <1>7
  <2>2. Deliverable({irq_irq}, mask) = {irq_irq} /\ IrqAfterService({irq_irq}, mask) = {}
    BY <2>1, ServesIrq
  <2> QED BY <1>3, <2>2
<1>14. 16405 \in Addr
  <2>1. Line["echoirq"] \subseteq Addr
    BY Rooms DEF Before
  <2> QED BY <2>1 DEF Line
<1>15. AnyInterrupt
  <2>1. irq' = IrqAfterService(irq, mask)
    BY <1>8, <1>10, <1>13
  <2>2. Deliverable(irq, mask) # {} /\ pc' \in Addr
    BY <1>8, <1>10, <1>13, <1>14
  <2>3. UNCHANGED <<kbd, shown, rbr, thr, lsr, ier, iir, perform_tio, term, trap,
                    fault, sigint, mask, armed, resume, ran, erred>>
    BY <1>1, <1>9, <1>10, <1>11, <1>12
  <2>4. phase = "irq" /\ phase' = "mon"
    BY <1>1
  <2> QED BY <2>1, <2>2, <2>3, <2>4 DEF AnyInterrupt
<1>16. Stacked(Machine', FrameAddr(d + 1)) = Frame
  <2>1. Stacked(Machine', FrameAddr(d + 1)) = Interrupted(Machine)
    BY <1>5, <1>8, <1>10
  <2> QED BY <2>1, TopOfMachine DEF Interrupted, Frame
<1>17. \A addr \in Int : FrameAddr(d) <= addr => Cell(Machine', addr) = Cell(Machine, addr)
  BY <1>5, <1>8, <1>10
<1> QED BY <1>1, <1>4, <1>5, <1>8, <1>9, <1>10, <1>15, <1>16, <1>17

LEMMA FitsInterrupted ==
  ASSUME NEW d \in Nat, Fits(d, d, Top), pc \in Waiting \cup Holding \cup {Return}
  PROVE  Fits(d, d + 1, Frame) /\ Frame.pc = pc /\ Frame.b = cpu.b
<1>1. Frame.pc = pc /\ Frame.b = cpu.b /\ Frame.a = cpu.a /\ Frame.cc = cpu.cc \cup {cc_e}
  BY DEF Top, Frame
<1>2. /\ cpu.cc \cap {cc_f, cc_i} = {} /\ (d = 0 <=> pc \in Setup \cup Waiting)
      /\ pc = 16408 => xxr_rbr_full \in Bits(cpu.a)
      /\ pc = 16418 => xxr_thr_empty \in Bits(cpu.a)
      /\ pc \in {16410, 16420} => cc_z \notin cpu.cc
      /\ pc \in Holding => cpu.b \in CpuChar
  BY TopOfMachine DEF Fits
<1>3. Frame.cc \cap {cc_f, cc_i} = {} /\ cc_e \in Frame.cc /\ (cc_z \in Frame.cc => cc_z \in cpu.cc)
  BY <1>1, <1>2 DEF cc_e, cc_f, cc_i, cc_z
<1> QED BY <1>1, <1>2, <1>3 DEF Fits

LEMMA EchoIrqTaken ==
  ASSUME Before, GuestInterrupt, program = "echoirq", irq # {}
  PROVE  AnyInterrupt /\ Steady' /\ EchoIrqInv'
<1>1. PICK d : d = Depth
  OBVIOUS
<1>2. /\ AnyInterrupt /\ irq' = {} /\ pc' = 16405 /\ phase' = "mon" /\ cpu'.cc = cpu.cc \cup {cc_e}
      /\ UNCHANGED <<kbd, shown, rbr, thr, lsr, ier, iir, perform_tio, erred, program,
                     received, typed>>
      /\ cpu'.s = FrameAddr(d + 1) /\ Stacked(Machine', FrameAddr(d + 1)) = Frame
      /\ \A addr \in Int : FrameAddr(d) <= addr => Cell(Machine', addr) = Cell(Machine, addr)
      /\ Waits = 1 /\ pc \in Waiting \cup Holding \cup {Return}
  BY <1>1, EchoIrqTakes
<1>3. /\ Steady /\ Wired /\ Nesting /\ Balance /\ d \in Nat /\ Fits(d, d, Top)
      /\ Len(kbd) \in Nat /\ typed \in Nat /\ phase = "irq"
  BY <1>1, EchoIrqFacts DEF GuestInterrupt
<1>4. /\ pc \notin Setup \cup Reading /\ pc' \in Reading
      /\ pc' \notin Setup \cup Waiting \cup Holding \cup {Return} /\ pc' \in Line["echoirq"]
  BY <1>2 DEF Setup, Waiting, Reading, Holding, Return, Line
<1>5. cpu.s = FrameAddr(d)
  BY <1>3, <1>4, <1>1 DEF Nesting, Setup
<1>6. Depth' = d + 1
  <2>1. d + 1 \in Int /\ pc' # 16384
    BY <1>2, <1>3
  <2> QED BY <1>2, <2>1, DepthIs
<1>7. /\ \A k \in 0..d : k # d => Level(k)' = Level(k)
      /\ Level(d)' = Frame /\ Level(d + 1)' = Top' /\ Level(d) = Top
  <2>1. \A k \in 0..(d + 1) :
          Level(k)' = IF k = d + 1 THEN Top' ELSE Stacked(Machine', FrameAddr(k + 1))
    BY <1>6, LevelsAre
  <2>2. ASSUME NEW k \in 0..d, k # d
        PROVE  Stacked(Machine', FrameAddr(k + 1)) = Stacked(Machine, FrameAddr(k + 1))
    <3> DEFINE at == FrameAddr(k + 1)
    <3>1. at \in Int /\ FrameAddr(d) <= at /\ FrameAddr(d) \in Int
      BY <1>3, <2>2 DEF FrameAddr, StackTop, FrameSize
    <3>2. \A addr \in Int : at <= addr /\ addr < at + FrameSize
                              => Cell(Machine', addr) = Cell(Machine, addr)
      <4> HIDE DEF at
      <4> QED BY <1>2, <3>1
    <3> HIDE DEF at
    <3>3. Stacked(Machine', at) = Stacked(Machine, at)
      BY <3>1, <3>2, SameFrame
    <3> QED BY <3>3 DEF at
  <2>3. \A k \in 0..d : Level(k) = IF k = d THEN Top ELSE Stacked(Machine, FrameAddr(k + 1))
    BY <1>1, LevelsAre
  <2>4. d \in 0..d /\ d \in 0..(d + 1) /\ d + 1 \in 0..(d + 1) /\ d # d + 1
        /\ \A k \in 0..d : k \in 0..(d + 1) /\ k # d + 1
    BY <1>3
  <2> QED BY <1>2, <2>1, <2>2, <2>3, <2>4
<1>8. Fits(d, d + 1, Frame) /\ Frame.pc = pc /\ Frame.b = cpu.b
  <2> QED BY <1>2, <1>3, FitsInterrupted
<1>9. Fits(d + 1, d + 1, Top')
  <2>1. cpu'.cc \cap {cc_f, cc_i} = {} /\ cc_e \in cpu'.cc
    BY <1>2, <1>3 DEF Steady, cc_e, cc_f, cc_i
  <2>2. d + 1 # 0 /\ ~(d + 1 < d + 1)
    BY <1>3
  <2> QED BY <1>2, <1>4, <2>1, <2>2, TopOfMachine DEF Fits
<1>10. Nesting'
  <2>1. ASSUME NEW k \in 0..(d + 1)
        PROVE  Fits(k, d + 1, Level(k)')
    <3>1. CASE k = d + 1
      BY <1>7, <1>9, <3>1
    <3>2. CASE k = d
      BY <1>7, <1>8, <3>2
    <3>3. CASE k < d
      <4> DEFINE old == Level(k)
      <4>1. d \in Nat /\ k \in 0..d /\ Level(k)' = old
        BY <1>3, <1>7, <3>3
      <4>2. Fits(k, d, old)
        BY <1>3, <1>1, <4>1 DEF Nesting
      <4> HIDE DEF old
      <4> QED BY <3>3, <4>1, <4>2, FitsMore
    <3>4. k = d + 1 \/ k = d \/ k < d
      BY <1>3
    <3> QED BY <3>1, <3>2, <3>3, <3>4
  <2>2. \A k \in 0..Depth' : Fits(k, Depth, Level(k))'
    <3> QED BY <1>6, <2>1, LevelsNext
  <2>3. Waits' = 0
    BY <1>4 DEF Waits
  <2>4. d + Len(kbd) + 1 <= typed
    BY <1>2, <1>3, <1>1 DEF Nesting
  <2>5. Depth' \in Nat /\ cpu'.s = FrameAddr(Depth') /\ Depth' + Len(kbd') + Waits' <= typed'
    <3> QED BY <1>2, <1>3, <1>6, <2>3, <2>4
  <2> QED BY <2>2, <2>5 DEF Nesting, FrameAddr
<1>11. Balance'
  <2>1. Printed' = Printed /\ \A set \in Counted : Unread(set)' = Unread(set)
    BY <1>2 DEF Printed, Unread, Marks
  <2>2. ASSUME NEW set \in Counted
        PROVE  Holders(set)' = Holders(set)
    <3>1. /\ Holders(set) = {k \in 0..d : InHand(set, Level(k))}
          /\ Holders(set)' = {k \in 0..(d + 1) : InHand(set, Level(k)')}
      BY <1>6, <1>1 DEF Holders, InHand
    <3>2. ~InHand(set, Level(d + 1)') /\ (InHand(set, Level(d)') <=> InHand(set, Level(d)))
      BY <1>4, <1>7, <1>8, TopOfMachine DEF InHand
    <3>3. 0..(d + 1) = 0..d \cup {d + 1}
      BY <1>3
    <3>4. \A k \in 0..d : InHand(set, Level(k)') <=> InHand(set, Level(k))
      BY <1>7, <3>2
    <3> QED BY <3>1, <3>2, <3>3, <3>4
  <2>3. \A set \in Counted :
          Count(set, received') = Count(set, Printed') + Cardinality(Holders(set)') + Unread(set)'
    BY <1>2, <1>3, <2>1, <2>2 DEF Balance
  <2> QED BY <2>3 DEF Balance, Count, Counted
<1>12. Wired'
  <2>1. \A addr \in Int : 8192 <= addr => Cell(Machine', addr) = Cell(Machine, addr)
    <3>1. FrameAddr(d) \in Int /\ FrameAddr(d) <= 8192
      BY <1>3 DEF FrameAddr, StackTop, FrameSize
    <3>2. \A addr \in Int : FrameAddr(d) <= addr => Cell(Machine', addr) = Cell(Machine, addr)
      BY <1>2
    <3> QED BY <3>1, <3>2
  <2>2. InMemory(Machine')
    <3>1. InMemory(Machine) /\ DOMAIN echoirq = 16384..16425
      BY <1>3, EchoIrqImage DEF Wired
    <3> QED BY <2>1, <3>1 DEF InMemory
  <2>3. mem_rd16(Machine', 65528) = 16405
    <3>1. Cell(Machine', 65528) = Cell(Machine, 65528) /\ Cell(Machine', 65529) = Cell(Machine, 65529)
      BY <2>1
    <3>2. mem_rd16(Machine, 65528) = 16405
      BY <1>3, <1>4 DEF Wired, Setup
    <3> QED BY <3>1, <3>2 DEF mem_rd16
  <2>4. InMemory(Machine)' /\ mem_rd16(Machine, 65528)' = 16405
    BY <2>2, <2>3 DEF InMemory, mem_rd16
  <2>5. ier' = {xxr_rbr_full} /\ xxr_rbr_full \in lsr' /\ xxr_rbr_full \in iir' /\ ~erred'
    BY <1>2, <1>3, <1>4 DEF Wired
  <2> QED BY <1>2, <1>4, <2>4, <2>5 DEF Wired
<1>13. Steady'
  <2>1. cpu'.cc \cap {cc_f, cc_i} = {}
    BY <1>2, <1>3 DEF Steady, cc_e, cc_f, cc_i
  <2>2. /\ pc' \in Line[program'] /\ phase' = "mon" /\ xxr_thr_empty \in lsr'
        /\ UNCHANGED <<kbd, rbr, lsr, received, typed>>
    BY <1>2, <1>3, <1>4 DEF Steady
  <2>3. Steady
    BY <1>3
  <2> QED BY <2>1, <2>2, <2>3 DEF Steady
<1> QED BY <1>2, <1>10, <1>11, <1>12, <1>13 DEF EchoIrqInv

(* The steps of the loop that leave the CPU as it is. *)
LEMMA LevelsStay ==
  ASSUME cpu'.s = cpu.s, cpu'.mem = cpu.mem, Top' = Top
  PROVE  /\ Depth' = Depth
         /\ \A k : Level(k)' = Level(k)
         /\ \A set : Holders(set)' = Holders(set)
<1>1. pc' = pc
  BY TopOfMachine
<1>2. Depth' = Depth
  BY <1>1 DEF Depth
<1>3. Machine'.mem = Machine.mem
  BY DEF Machine
<1>4. \A at : Stacked(Machine', at) = Stacked(Machine, at)
  BY <1>3, SameStack
<1>5. \A k : Level(k)' = Level(k)
  BY <1>2, <1>4, LevelsAre
<1>6. ASSUME NEW set PROVE Holders(set)' = Holders(set)
  <2>1. /\ Holders(set) = {k \in 0..Depth : InHand(set, Level(k))}
        /\ Holders(set)' = {k \in 0..Depth' : InHand(set, Level(k)')}
    BY DEF Holders, InHand
  <2> QED BY <1>2, <1>5, <2>1
<1> QED BY <1>2, <1>5, <1>6

LEMMA NestingStays ==
  ASSUME Nesting, cpu'.s = cpu.s, cpu'.mem = cpu.mem, Top' = Top,
         Len(kbd) \in Nat, Len(kbd') \in Nat, typed \in Int, typed' \in Int,
         Len(kbd') + Waits' + typed <= Len(kbd) + Waits + typed'
  PROVE  Nesting'
<1>1. pc' = pc
  BY TopOfMachine
<1>2. Depth' = Depth /\ \A k : Level(k)' = Level(k)
  BY LevelsStay
<1>3. PICK d : d = Depth
  OBVIOUS
<1>4. Depth' = d /\ \A k \in 0..d : Fits(k, d, Level(k)')
  BY <1>2, <1>3 DEF Nesting
<1>5. \A k \in 0..Depth' : Fits(k, Depth, Level(k))'
  BY <1>4, LevelsNext
<1>6. pc' # 16384 => cpu'.s = FrameAddr(Depth')
  BY <1>1, <1>2 DEF Nesting
<1>7. Depth' \in Nat /\ Depth' + Len(kbd') + Waits' <= typed'
  <2>1. Depth \in Nat /\ Depth + Len(kbd) + Waits <= typed
    BY DEF Nesting
  <2>2. Waits \in Nat /\ Waits' \in Nat
    BY DEF Waits
  <2> QED BY <1>2, <2>1, <2>2
<1> QED BY <1>5, <1>6, <1>7 DEF Nesting, FrameAddr

LEMMA WiredStays ==
  ASSUME Wired, cpu'.mem = cpu.mem, cpu'.a = cpu.a, cpu'.b = cpu.b,
         UNCHANGED <<pc, ier, erred>>,
         irq' \subseteq {irq_irq},
         irq' # {} => phase' = "irq" /\ pc \notin Setup \cup Reading
                      /\ xxr_rbr_full \in lsr' /\ xxr_rbr_full \in iir',
         pc \in Reading => xxr_rbr_full \in lsr' /\ xxr_rbr_full \in iir'
  PROVE  Wired'
<1>1. Machine'.mem = Machine.mem
  BY DEF Machine
<1>2. \A addr : Cell(Machine', addr) = Cell(Machine, addr)
  BY <1>1 DEF Cell
<1>3. InMemory(Machine') /\ mem_rd16(Machine', 65528) = mem_rd16(Machine, 65528)
  BY <1>2 DEF InMemory, mem_rd16, Wired
<1>4. InMemory(Machine)' /\ mem_rd16(Machine, 65528)' = mem_rd16(Machine, 65528)
  BY <1>3 DEF InMemory, mem_rd16
<1> QED BY <1>4 DEF Wired

LEMMA BalanceStays ==
  ASSUME Balance, cpu'.s = cpu.s, cpu'.mem = cpu.mem, Top' = Top, Printed' = Printed,
         UNCHANGED received,
         \A set \in Counted : Unread(set)' = Unread(set)
  PROVE  Balance'
<1>1. \A set \in Counted : Holders(set)' = Holders(set)
  BY LevelsStay
<1>2. \A set \in Counted :
        Count(set, received') = Count(set, Printed') + Cardinality(Holders(set)') + Unread(set)'
  BY <1>1 DEF Balance
<1> QED BY <1>2 DEF Balance, Count, Counted

LEMMA EchoIrqOutside ==
  ASSUME Before, Outside, program = "echoirq"
  PROVE  [Next]_vars /\ Steady' /\ EchoIrqInv'
<1>1. /\ [Next]_vars /\ erred' = erred /\ kbd' \in Seq(Key) /\ typed' \in 0..MaxTyped
      /\ UNCHANGED <<shown, rbr, thr, lsr, ier, iir, irq, pc, mask, cpu, program, received>>
      /\ Len(kbd') + typed <= Len(kbd) + typed'
      /\ phase = "irq" => phase' = "irq"
  BY OutsideMoves
<1>2. /\ Wired /\ Nesting /\ Balance /\ Len(kbd) \in Nat /\ typed \in Nat /\ MaxTyped \in Nat
  BY EchoIrqFacts
<1>3. Top' = Top
  BY <1>1 DEF Top
<1>4. Len(kbd') \in Nat /\ typed' \in Int
  BY <1>1, <1>2, LenProperties
<1>5. Waits' = Waits /\ Waits \in Nat
  BY <1>1 DEF Waits
<1>6. Len(kbd') + Waits' + typed <= Len(kbd) + Waits + typed'
  BY <1>1, <1>2, <1>4, <1>5
<1>7. Nesting'
  BY <1>1, <1>2, <1>3, <1>4, <1>6, NestingStays
<1>8. Balance'
  <2>1. Printed' = Printed /\ \A set \in Counted : Unread(set)' = Unread(set)
    BY <1>1 DEF Printed, Unread, Marks
  <2> QED BY <1>1, <1>2, <1>3, <2>1, BalanceStays
<1>9. Wired'
  <2>1. /\ irq' \subseteq {irq_irq}
        /\ irq' # {} => phase' = "irq" /\ pc \notin Setup \cup Reading
                        /\ xxr_rbr_full \in lsr' /\ xxr_rbr_full \in iir'
        /\ pc \in Reading => xxr_rbr_full \in lsr' /\ xxr_rbr_full \in iir'
    BY <1>1, <1>2 DEF Wired
  <2> QED BY <1>1, <1>2, <2>1, WiredStays
<1> QED BY <1>1, <1>7, <1>8, <1>9, SteadyOutside DEF EchoIrqInv

(* No interrupt is requested. *)
LEMMA EchoIrqUndisturbed ==
  ASSUME Before, GuestInterrupt, program = "echoirq", irq = {}
  PROVE  AnyInterrupt /\ Steady' /\ EchoIrqInv'
<1>1. /\ AnyInterrupt /\ Machine' = Machine
      /\ UNCHANGED <<kbd, shown, rbr, thr, lsr, ier, iir, irq, pc, erred, received, typed>>
  BY QuietInterrupt
<1>2. Wired /\ Nesting /\ Balance /\ Len(kbd) \in Nat /\ typed \in Nat
  BY EchoIrqFacts
<1>3. /\ cpu'.a = cpu.a /\ cpu'.b = cpu.b /\ cpu'.s = cpu.s /\ cpu'.mem = cpu.mem
  BY <1>1, SameRegisters
<1>4. Top' = Top
  BY <1>1, TopOfMachine
<1>5. Nesting'
  <2>1. Waits' = Waits /\ Waits \in Nat
    BY <1>1 DEF Waits
  <2>2. Len(kbd') + Waits' + typed <= Len(kbd) + Waits + typed' /\ Len(kbd') \in Nat
        /\ typed \in Int /\ typed' \in Int
    BY <1>1, <1>2, <2>1
  <2> QED BY <1>2, <1>3, <1>4, <2>2, NestingStays
<1>6. Balance'
  <2>1. Printed' = Printed /\ \A set \in Counted : Unread(set)' = Unread(set)
    BY <1>1 DEF Printed, Unread, Marks
  <2> QED BY <1>1, <1>2, <1>3, <1>4, <2>1, BalanceStays
<1>7. Wired'
  <2>1. irq' = {} /\ (pc \in Reading => xxr_rbr_full \in lsr' /\ xxr_rbr_full \in iir')
    BY <1>1, <1>2 DEF Wired
  <2> QED BY <1>1, <1>2, <1>3, <2>1, WiredStays
<1> QED BY <1>1, <1>5, <1>6, <1>7, SteadyInterrupt DEF EchoIrqInv

(* The poll requests an interrupt when it fills RBR for a program that has *)
(* enabled it.                                                             *)
LEMMA PollRequests ==
  ASSUME Before, GuestPoll, irq = {}, ier \subseteq {xxr_rbr_full}
  PROVE  /\ ier' = ier /\ iir \subseteq iir'
         /\ \/ irq' = {}
            \/ /\ irq' = {irq_irq} /\ ier = {xxr_rbr_full} /\ xxr_rbr_full \notin lsr
               /\ xxr_rbr_full \in lsr' /\ xxr_rbr_full \in iir'
<1> USE DEF xxr_rbr_full, xxr_thr_empty
<1>1. CASE ~perform_tio
  BY <1>1 DEF GuestPoll, PollTerminal, uartVars
<1>2. CASE perform_tio
  <2>1. tio_exec
    BY <1>2 DEF GuestPoll, PollTerminal
  <2>2. /\ ier' = ier /\ iir' = iir \cup (Events \cap ier) /\ lsr' = lsr \cup Events
        /\ irq' = IF Events \cap ier = {} THEN irq ELSE _irq(irq, irq_irq, TRUE)
    BY <2>1 DEF tio_exec, _generate_interrupt
  <2>3. _irq({}, irq_irq, TRUE) = {irq_irq}
    BY DEF _irq, _setclrf
  <2>4. xxr_rbr_full \in Events => xxr_rbr_full \notin lsr
    BY DEF Events, Receives
  <2>5. CASE xxr_rbr_full \in Events /\ ier = {xxr_rbr_full}
    BY <2>2, <2>3, <2>4, <2>5
  <2>6. CASE Events \cap ier = {}
    BY <2>2, <2>6
  <2> QED BY <2>5, <2>6
<1> QED BY <1>1, <1>2

LEMMA EchoIrqPoll ==
  ASSUME Before, GuestPoll, program = "echoirq"
  PROVE  Steady' /\ EchoIrqInv'
<1>1. /\ Printed' = Printed /\ xxr_thr_empty \in lsr'
      /\ UNCHANGED <<cpu, pc, program, erred, typed>>
      /\ phase' = "irq" /\ kbd' \in Seq(Key)
      /\ \/ /\ UNCHANGED <<received, rbr>> /\ Len(kbd') <= Len(kbd)
            /\ (xxr_rbr_full \in lsr' <=> xxr_rbr_full \in lsr)
         \/ /\ xxr_rbr_full \notin lsr /\ xxr_rbr_full \in lsr' /\ rbr' \in CpuChar
            /\ received' = received \o Echoed(rbr') /\ Len(kbd') = Len(kbd) - 1
  BY PollMoves
<1>2. /\ Wired /\ Nesting /\ Balance /\ Len(kbd) \in Nat /\ typed \in Nat
      /\ received \in Seq(Char) /\ phase = "tio"
      /\ Printed \in Seq(Char)
  BY EchoIrqFacts, Sizes DEF GuestTypeOK, Before, GuestPoll, PollTerminal
<1>3. irq = {} /\ ier \subseteq {xxr_rbr_full} /\ (ier = {xxr_rbr_full} => pc \notin Setup)
  BY <1>2 DEF Wired
<1>4. /\ ier' = ier /\ iir \subseteq iir'
      /\ \/ irq' = {}
         \/ /\ irq' = {irq_irq} /\ ier = {xxr_rbr_full} /\ xxr_rbr_full \notin lsr
            /\ xxr_rbr_full \in lsr' /\ xxr_rbr_full \in iir'
  BY <1>3, PollRequests
<1>5. Top' = Top /\ Len(kbd') \in Nat
  BY <1>1, LenProperties DEF Top
<1>6. Wired'
  <2>1. pc \in Reading => xxr_rbr_full \in lsr /\ xxr_rbr_full \in iir
    BY <1>2 DEF Wired
  <2>2. /\ irq' \subseteq {irq_irq}
        /\ irq' # {} => phase' = "irq" /\ pc \notin Setup \cup Reading
                        /\ xxr_rbr_full \in lsr' /\ xxr_rbr_full \in iir'
        /\ pc \in Reading => xxr_rbr_full \in lsr' /\ xxr_rbr_full \in iir'
    BY <1>1, <1>3, <1>4, <2>1
  <2> QED BY <1>1, <1>2, <1>4, <2>2, WiredStays
<1>7. Nesting'
  <2>1. Len(kbd') + Waits' <= Len(kbd) + Waits /\ Waits \in Nat /\ Waits' \in Nat
    BY <1>1, <1>2, <1>5 DEF Waits
  <2>2. Len(kbd') + Waits' + typed <= Len(kbd) + Waits + typed'
    BY <1>1, <1>2, <1>5, <2>1
  <2> QED BY <1>1, <1>2, <1>5, <2>2, NestingStays
<1>8. Balance'
  <2>1. CASE UNCHANGED <<received, rbr>> /\ (xxr_rbr_full \in lsr' <=> xxr_rbr_full \in lsr)
    <3>1. \A set \in Counted : Unread(set)' = Unread(set)
      BY <2>1 DEF Unread, Marks
    <3> QED BY <1>1, <1>2, <1>5, <2>1, <3>1, BalanceStays
  <2>2. CASE /\ xxr_rbr_full \notin lsr /\ xxr_rbr_full \in lsr' /\ rbr' \in CpuChar
             /\ received' = received \o Echoed(rbr')
    <3>1. \A set \in Counted : Holders(set)' = Holders(set)
      BY <1>1, <1>5, LevelsStay
    <3>2. \A set \in Counted :
            Unread(set) = 0 /\ Unread(set)' = IF Marks(set, rbr') THEN 1 ELSE 0
      BY <2>2 DEF Unread, Marks
    <3>3. \A set \in Counted :
            Count(set, received') = Count(set, received) + (IF Marks(set, rbr') THEN 1 ELSE 0)
      <4>1. PICK cc : cc = rbr'
        OBVIOUS
      <4>2. cc \in Char /\ received \in Seq(Char)
        BY <1>2, <2>2, <4>1, LoopAssumption
      <4>3. \A set \in Counted :
              Count(set, received \o Echoed(cc))
                = Count(set, received) + (IF Marks(set, cc) THEN 1 ELSE 0)
        BY <4>2, TallyEchoed
      <4> QED BY <2>2, <4>1, <4>3
    <3>4. ASSUME NEW set \in Counted
          PROVE  Count(set, received')
                   = Count(set, Printed') + Cardinality(Holders(set)') + Unread(set)'
      <4> DEFINE r == Count(set, received)  r2 == Count(set, received')
                 p == Count(set, Printed)  c == Cardinality(Holders(set))
                 more == IF Marks(set, rbr') THEN 1 ELSE 0
      <4>1. r = p + c + Unread(set)
        BY <1>2 DEF Balance
      <4>2. p \in Nat
        BY <1>2, TallyTypes
      <4>3. c \in Nat
        <5>1. IsFiniteSet(0..Depth) /\ Holders(set) \in SUBSET (0..Depth)
          BY <1>2, FS_Interval DEF Holders, Nesting
        <5>2. IsFiniteSet(Holders(set))
          BY <5>1, FS_Subset
        <5> QED BY <5>2, FS_CardinalityType
      <4>4. Unread(set) = 0 /\ Unread(set)' = more /\ more \in Nat
        BY <3>2
      <4>5. r2 = r + more
        BY <3>3
      <4>6. Count(set, Printed') = p /\ Cardinality(Holders(set)') = c
        BY <1>1, <3>1
      <4> HIDE DEF r, r2, p, c, more
      <4>7. r2 = p + c + more
        BY <4>1, <4>2, <4>3, <4>4, <4>5
      <4> QED BY <4>4, <4>6, <4>7 DEF r2
    <3> QED BY <3>4 DEF Balance, Count, Counted
  <2> QED BY <1>1, <2>1, <2>2
<1> QED BY <1>6, <1>7, <1>8, SteadyPoll DEF EchoIrqInv

LEMMA EchoIrqInstruction ==
  ASSUME Turn, program = "echoirq"
  PROVE  AnyInstruction /\ Steady' /\ EchoIrqInv'
<1>1. pc \in Setup \cup Waiting \cup Reading \cup Holding \cup {Return}
  BY EchoIrqFacts DEF Turn, Before
<1> QED
  BY <1>1, EchoIrqSetup, EchoIrqQuiet, EchoIrqReads, EchoIrqPrints, EchoIrqReturns

LEMMA EchoIrqStep ==
  ASSUME Before, [GuestNext]_allVars, program = "echoirq"
  PROVE  [Next]_vars /\ Steady' /\ EchoIrqInv'
<1>1. ASSUME GuestPoll PROVE Next /\ Steady' /\ EchoIrqInv'
  BY <1>1, EchoIrqPoll DEF GuestPoll, Next
<1>2. ASSUME GuestInterrupt PROVE AnyInterrupt /\ Steady' /\ EchoIrqInv'
  BY <1>2, EchoIrqUndisturbed, EchoIrqTaken
<1>3. ASSUME Outside PROVE [Next]_vars /\ Steady' /\ EchoIrqInv'
  BY <1>3, EchoIrqOutside
<1>4. ASSUME GuestInstruction PROVE AnyInstruction /\ Steady' /\ EchoIrqInv'
  BY <1>4, EchoIrqInstruction DEF Before, Turn
<1>5. GuestPoll \/ GuestInterrupt \/ Outside \/ GuestInstruction
  BY DEF GuestNext, Outside, HasEnded
<1> QED BY <1>1, <1>2, <1>3, <1>4, <1>5 DEF Next

-----------------------------------------------------------------------------
(***************************************************************************)
(* The invariant is inductive.                                             *)
(***************************************************************************)

(* Every step of the machine keeps the types of what VmLoop does not have. *)
LEMMA MachineStep ==
  ASSUME Before, [GuestNext]_allVars, TypeOK', Steady'
  PROVE  /\ IsMachine(Machine)' /\ mask' = cpu'.cc \cap {cc_f, cc_i}
         /\ program' = program /\ received' \in Seq(Char) /\ typed' \in 0..MaxTyped
<1>1. GuestTypeOK /\ received \in Seq(Char) /\ typed \in 0..MaxTyped
  BY DEF Before, GuestTypeOK
<1>2. ASSUME GuestPoll
      PROVE  UNCHANGED <<cpu, mask, program, typed>> /\ received' \in Seq(Char)
  <2>1. UNCHANGED <<cpu, mask, program, typed>>
    BY <1>2 DEF GuestPoll, PollTerminal
  <2>2. received' = received \/ (rbr' \in CpuChar /\ received' = received \o Echoed(rbr'))
    BY <1>2, PollMoves
  <2>3. ASSUME NEW cc \in CpuChar PROVE received \o Echoed(cc) \in Seq(Char)
    <3>1. Echoed(cc) \in Seq(Char)
      BY EchoedIsSeq, LoopAssumption
    <3> QED BY <1>1, <3>1, ConcatProperties
  <2> QED BY <1>1, <2>1, <2>2, <2>3
<1>3. ASSUME Outside
      PROVE  UNCHANGED <<cpu, mask, program, received>> /\ typed' \in 0..MaxTyped
  BY <1>3, OutsideMoves
<1>4. ASSUME UNCHANGED <<cpu, mask>>
      PROVE  IsMachine(Machine)' /\ mask' = cpu'.cc \cap {cc_f, cc_i}
  BY <1>1, <1>4, CpuAside DEF GuestTypeOK
<1>5. ASSUME GuestInterrupt
      PROVE  /\ IsMachine(Machine)' /\ mask' = cpu'.cc \cap {cc_f, cc_i}
             /\ UNCHANGED <<program, received, typed>>
  <2>1. CASE irq = {}
    BY <1>5, <2>1, QuietInterrupt
  <2>2. CASE irq # {}
    <3>1. program = "echoirq"
      BY <1>1, <2>2, Rooms DEF Before, GuestInv, Undisturbed
    <3> QED BY <1>5, <2>2, <3>1, EchoIrqTakes
  <2> QED BY <2>1, <2>2
<1>6. ASSUME GuestInstruction
      PROVE  /\ IsMachine(Machine)' /\ mask' = cpu'.cc \cap {cc_f, cc_i}
             /\ UNCHANGED <<program, received, typed>>
  <2> DEFINE n == cpu_execop(Machine)
  <2>1. IsMachine(n) /\ Becomes(n) /\ fault \in BOOLEAN
    BY <1>6, TurnStarts DEF Before, Turn
  <2>2. phase' = (IF n.crashed THEN "crash" ELSE "tio") /\ UNCHANGED <<program, received, typed>>
    BY <1>6 DEF GuestInstruction
  <2>3. phase' # "crash"
    BY DEF Steady
  <2> HIDE DEF n
  <2>4. n.crashed \in BOOLEAN
    BY <2>1, FieldsOfMachine
  <2>5. n.crashed = FALSE
    BY <2>2, <2>3, <2>4
  <2> QED BY <2>1, <2>2, <2>5, Becoming
<1>7. GuestPoll \/ GuestInterrupt \/ Outside \/ GuestInstruction
  BY DEF GuestNext, Outside, HasEnded
<1> QED BY <1>1, <1>2, <1>3, <1>4, <1>5, <1>6, <1>7

LEMMA GuestStep ==
  ASSUME Before, [GuestNext]_allVars
  PROVE  [Next]_vars /\ Before'
<1>1. GuestTypeOK /\ LoopInv /\ TypeOK /\ program \in Programs
  BY DEF Before, GuestTypeOK
<1>2. [Next]_vars /\ Steady'
  BY <1>1, Rooms, EchoStep, HellowStep, EchoIrqStep
<1>3. TypeOK' /\ LoopInv'
  BY <1>1, <1>2, TypeStep, LoopInvStep
<1>4. /\ IsMachine(Machine)' /\ mask' = cpu'.cc \cap {cc_f, cc_i}
      /\ program' = program /\ received' \in Seq(Char) /\ typed' \in 0..MaxTyped
  BY <1>2, <1>3, MachineStep
<1>5. GuestTypeOK'
  BY <1>1, <1>3, <1>4 DEF GuestTypeOK
<1>6. GuestInv'
  BY <1>2, <1>4, EchoStep, HellowStep, EchoIrqStep DEF GuestInv
<1> QED BY <1>2, <1>3, <1>5, <1>6 DEF Before

-----------------------------------------------------------------------------
(* The programs are bytes at addresses below the vectors. *)
LEMMA ImagesAreMemory ==
  ASSUME NEW name \in ProgramName
  PROVE  IsMemory(Loaded[name]) /\ DOMAIN Loaded[name] \subseteq 16384..16425
<1>1. \A addr \in 16384..16425 : addr \in Cells
  BY CellRange
<1>2. ASSUME NEW mem, DOMAIN mem \subseteq 16384..16425,
             \A addr \in DOMAIN mem : mem[addr] \in Int /\ 0 <= mem[addr] /\ mem[addr] <= 255
      PROVE  IsMemory(mem)
  <2>1. DOMAIN mem \subseteq Cells /\ \A addr \in DOMAIN mem : mem[addr] \in Byte
    BY <1>1, <1>2, ByteRange
  <2> QED BY <2>1 DEF IsMemory, Cells
<1>3. /\ DOMAIN echo \subseteq 16384..16425
      /\ \A addr \in DOMAIN echo : echo[addr] \in Int /\ 0 <= echo[addr] /\ echo[addr] <= 255
  BY EchoImage
<1>4. /\ DOMAIN hellow \subseteq 16384..16425
      /\ \A addr \in DOMAIN hellow :
           hellow[addr] \in Int /\ 0 <= hellow[addr] /\ hellow[addr] <= 255
  BY HellowImage
<1>5. /\ DOMAIN echoirq \subseteq 16384..16425
      /\ \A addr \in DOMAIN echoirq :
           echoirq[addr] \in Int /\ 0 <= echoirq[addr] /\ echoirq[addr] <= 255
  BY EchoIrqImage
<1>6. /\ IsMemory(echo) /\ DOMAIN echo \subseteq 16384..16425
      /\ IsMemory(hellow) /\ DOMAIN hellow \subseteq 16384..16425
      /\ IsMemory(echoirq) /\ DOMAIN echoirq \subseteq 16384..16425
  BY <1>2, <1>3, <1>4, <1>5
<1> QED BY <1>6 DEF ProgramName, Loaded

LEMMA GuestStarts ==
  ASSUME GuestInit
  PROVE  Init /\ Before
<1>1. /\ Init /\ UartInit /\ program \in Programs /\ program \in ProgramName /\ pc = 16384
      /\ received = <<>> /\ typed = 0
      /\ shown = <<>> /\ kbd = <<>> /\ lsr = {xxr_thr_empty} /\ ier = {} /\ irq = {}
      /\ phase = "tio" /\ erred = FALSE /\ mask = {}
  BY GuestLoopAssumption DEF GuestInit, Init, UartInit, VM6809_DEFAULT_START
<1>2. TypeOK /\ LoopInv
  BY <1>1, TypeStart, LoopInvStart
<1>3. cpu.mem = Boot(program) /\ cpu.cc = {}
  BY DEF GuestInit, Boot
<1>4. IsMemory(cpu.mem)
  <2> DEFINE mem == Loaded[program]
             high == VM6809_DEFAULT_START \div 256
             low == VM6809_DEFAULT_START % 256
  <2>1. IsMemory(mem)
    BY <1>1, ImagesAreMemory
  <2>2. 65534 \in Cells /\ 65535 \in Cells
    BY CellRange
  <2>3. high \in Byte /\ low \in Byte
    BY ByteRange DEF VM6809_DEFAULT_START
  <2>4. cpu.mem = Written(Written(mem, 65534, high), 65535, low)
    BY <1>3 DEF Boot
  <2> HIDE DEF mem, high, low
  <2>5. IsMemory(Written(mem, 65534, high))
    BY <2>1, <2>2, <2>3, WrittenTypes
  <2> QED BY <2>2, <2>3, <2>4, <2>5, WrittenTypes
<1>5. IsMachine(Machine)
  <2>1. /\ rbr \in Byte /\ thr \in Byte /\ irq \in SUBSET IrqFlag
        /\ lsr \in SUBSET Weight /\ ier \in SUBSET Weight /\ iir \in SUBSET Weight
        /\ pc \in Word /\ trap \in SUBSET TrapFlag /\ (~fault) \in BOOLEAN
    BY <1>2, GuestLoopAssumption, FlagsAreWeights DEF TypeOK, UartTypeOK
  <2>2. 0 \in Byte /\ 0 \in Word
    BY ByteRange, WordRange
  <2>3. /\ cpu.a = 0 /\ cpu.b = 0 /\ cpu.dp = 0 /\ cpu.x = 0 /\ cpu.y = 0 /\ cpu.u = 0
        /\ cpu.s = 0 /\ cpu.lcr = 0
    BY DEF GuestInit
  <2> QED BY <1>3, <1>4, <2>1, <2>2, <2>3 DEF Machine, IsMachine
<1>6. GuestTypeOK
  <2>1. <<>> \in Seq(Char) /\ 0 \in 0..MaxTyped
    BY GuestLoopAssumption
  <2> QED BY <1>1, <1>2, <1>3, <1>5, <2>1 DEF GuestTypeOK
<1>7. Printed = <<>>
  <2>1. shown = <<>> /\ <<>> \o <<>> = <<>>
    BY <1>1
  <2> QED BY <1>1, <2>1 DEF Printed
<1>8. /\ xxr_rbr_full \notin lsr /\ xxr_thr_empty \in lsr
      /\ kbd \in Seq(Key) /\ Len(kbd) = 0 /\ Len(received) = 0
  BY <1>1 DEF xxr_rbr_full, xxr_thr_empty
<1>9. Steady
  BY <1>1, <1>3, <1>8 DEF Steady, Line, ProgramName
<1>10. Undisturbed
  BY <1>1, <1>3 DEF Undisturbed
<1>11. EchoInv
  <2>1. InB = <<>> /\ InRbr = <<>> /\ <<>> = <<>> \o (<<>> \o <<>>)
    BY <1>1, <1>8 DEF InB, InRbr
  <2> QED BY <1>1, <1>7, <2>1 DEF EchoInv
<1>12. HellowInv
  <2>1. SubSeq(Greeting, 1, 0) = <<>>
    BY DEF Greeting
  <2> QED BY <1>1, <1>7, <2>1 DEF HellowInv, Told
<1>13. ASSUME program = "echoirq" PROVE EchoIrqInv
  <2>1. Depth = 0 /\ Level(0) = Top
    BY <1>1 DEF Depth, Level
  <2>2. Wired
    <3>1. InMemory(Machine)
      <4>1. Machine.mem = Boot("echoirq") /\ Loaded["echoirq"] = echoirq
        BY <1>3, <1>13, FieldsAreVariables DEF Loaded
      <4>2. \A addr \in DOMAIN echoirq : addr < 65534
        BY EchoIrqImage
      <4> QED BY <4>1, <4>2, BootCells DEF InMemory
    <3> QED BY <1>1, <3>1 DEF Wired, Setup, Reading
  <2>3. Nesting
    <3>1. Waits = 0
      BY <1>8 DEF Waits
    <3>2. Fits(0, 0, Top)
      BY <1>1, <1>3, TopOfMachine DEF Fits, Setup, Holding
    <3> QED BY <1>1, <1>8, <2>1, <3>1, <3>2 DEF Nesting
  <2>4. ASSUME NEW set \in Counted
        PROVE  Count(set, received)
                 = Count(set, Printed) + Cardinality(Holders(set)) + Unread(set)
    <3>1. Count(set, <<>>) = 0
      BY FS_EmptySet DEF Count
    <3>2. Holders(set) = {}
      BY <1>1, <2>1, TopOfMachine DEF Holders, InHand, Holding
    <3>3. Cardinality(Holders(set)) = 0 /\ Unread(set) = 0
      BY <1>8, <3>2, FS_EmptySet DEF Unread
    <3> QED BY <1>1, <1>7, <3>1, <3>3
  <2>5. Balance
    BY <2>4 DEF Balance
  <2> QED BY <2>2, <2>3, <2>5 DEF EchoIrqInv
<1>14. GuestInv
  BY <1>9, <1>10, <1>11, <1>12, <1>13 DEF GuestInv
<1> QED BY <1>1, <1>2, <1>6, <1>14 DEF Before

-----------------------------------------------------------------------------
(***************************************************************************)
(* What follows for the programs.                                          *)
(***************************************************************************)

(* The machine with its guest keeps the types, the invariant of the loop   *)
(* and that of the program it runs, for every program, keyboard and number *)
(* of characters.                                                          *)
THEOREM GuestInvariant == GuestSpec => []Before
<1>1. GuestInit => Before
  BY GuestStarts
<1>2. Before /\ [GuestNext]_allVars => Before'
  BY GuestStep
<1> QED BY <1>1, <1>2, PTL DEF GuestSpec

(* Every variable keeps its type; so what main, the loop and the           *)
(* instructions of the programs write to a register fits into it.          *)
THEOREM GuestTypesHold == GuestSpec => []GuestTypeOK
<1>1. Before => GuestTypeOK
  BY DEF Before
<1> QED BY <1>1, GuestInvariant, PTL

(* The machine with its guest implements VmLoop: each instruction of the   *)
(* programs that cpu_execop executes is of one of the kinds that VmLoop    *)
(* allows, and an interrupt does there what it does here.                  *)
THEOREM GuestRefinesLoop == GuestSpec => IsVmLoop
<1>1. GuestInit => Init
  BY GuestStarts
<1>2. Before /\ [GuestNext]_allVars => [Next]_vars
  BY GuestStep
<1> QED BY <1>1, <1>2, GuestInvariant, PTL DEF GuestSpec, IsVmLoop, Spec

LEMMA PrefixOfConcat ==
  ASSUME NEW seq \in Seq(Char), NEW rest \in Seq(Char)
  PROVE  IsPrefix(seq, seq \o rest)
<1>1. seq \o rest \in Seq(Char) /\ Len(seq \o rest) = Len(seq) + Len(rest)
      /\ Len(seq) \in Nat /\ Len(rest) \in Nat
  BY ConcatProperties, LenProperties
<1>2. SubSeq(seq, 1, Len(seq)) = seq
  BY SubSeqFull
<1>3. SubSeq(seq \o rest, 1, Len(seq)) = seq
  BY SubSeqOfConcat1, <1>1, <1>2
<1> QED BY <1>1, <1>2, <1>3 DEF IsPrefix

LEMMA InOrder ==
  ASSUME Before
  PROVE  PrintsInOrder
<1>1. GuestTypeOK /\ GuestInv /\ Steady /\ Printed \in Seq(Char) /\ InRbr \in Seq(Char)
  BY Sizes DEF Before, GuestInv
<1>2. ASSUME program = "echo" PROVE IsPrefix(Printed, Due)
  <2>1. EchoInv /\ Due = received
    BY <1>1, <1>2 DEF GuestInv, Due
  <2>2. InB \in Seq(Char)
    <3>1. CASE pc \in {16398, 16401, 16403, 16405}
      <4>1. cpu.b \in Char
        BY <2>1, <3>1, LoopAssumption DEF EchoInv
      <4> QED BY <3>1, <4>1, EchoedIsSeq DEF InB
    <3>2. CASE pc \notin {16398, 16401, 16403, 16405}
      BY <3>2 DEF InB
    <3> QED BY <3>1, <3>2
  <2>3. InB \o InRbr \in Seq(Char) /\ Due = Printed \o (InB \o InRbr)
    BY <1>1, <2>1, <2>2, ConcatProperties DEF EchoInv
  <2> QED BY <1>1, <2>3, PrefixOfConcat
<1>3. ASSUME program = "hellow" PROVE IsPrefix(Printed, Due)
  <2>1. HellowInv /\ Due = Greeting /\ pc \in Line["hellow"]
    BY <1>1, <1>3 DEF GuestInv, Due, Steady
  <2>2. \E count \in 0..4 : Told(count)
    <3>1. PICK count : count = cpu.y - Hello
      OBVIOUS
    <3>2. CASE pc = 16384
      <4>1. Told(0)
        BY <2>1, <3>2 DEF HellowInv
      <4> QED BY <4>1
    <3>3. CASE pc \in {16387, 16394}
      <4>1. count \in 0..4 /\ Told(count)
        BY <2>1, <3>1, <3>3 DEF HellowInv
      <4> QED BY <4>1
    <3>4. CASE pc \in {16389, 16391}
      <4>1. count \in 1..5 /\ Told(count - 1)
        BY <2>1, <3>1, <3>4 DEF HellowInv
      <4>2. count - 1 \in 0..4
        BY <4>1
      <4> QED BY <4>1, <4>2
    <3>5. CASE pc \in {16397, 16398, 16399, 16401}
      <4>1. Told(4)
        BY <2>1, <3>5 DEF HellowInv
      <4> QED BY <4>1
    <3> QED BY <2>1, <3>2, <3>3, <3>4, <3>5 DEF Line
  <2>3. \A count \in 0..4 : IsPrefix(SubSeq(Greeting, 1, count), Greeting)
    BY DEF IsPrefix, Greeting
  <2> QED BY <2>1, <2>2, <2>3 DEF Told
<1> QED BY <1>2, <1>3 DEF PrintsInOrder

(* echo prints what it receives and hellow its greeting: in order, without *)
(* a gap and nothing twice, for every sequence of keys and wherever ctrl-c *)
(* stops the program in between.                                           *)
THEOREM PrintsInOrderHolds == GuestSpec => []PrintsInOrder
<1>1. Before => PrintsInOrder
  BY InOrder
<1> QED BY <1>1, GuestInvariant, PTL

LEMMA Balanced ==
  ASSUME Before
  PROVE  StackBalanced
<1> SUFFICES ASSUME program = "echoirq"
             PROVE  /\ pc \in MainLoop => cpu.s = 8192
                    /\ pc \in Handler => Nested >= 1 /\ cpu.s + FrameSize * Nested = 8192
  BY DEF StackBalanced
<1> DEFINE d == Depth
<1>1. /\ Nesting /\ d \in Nat /\ (d = 0 <=> pc \in Setup \cup Waiting)
      /\ pc \in Line["echoirq"]
  BY EchoIrqFacts DEF Steady
<1>2. pc # 16384 => cpu.s = 8192 - 12 * d /\ d = Nested
  BY <1>1 DEF Nesting, FrameAddr, FrameSize, Depth, Nested, StackTop
<1>3. pc \in MainLoop => pc \in Waiting /\ pc # 16384
  BY <1>1 DEF MainLoop, Line, Waiting
<1>4. pc \in Handler => pc \notin Setup \cup Waiting /\ pc # 16384
  BY DEF Handler, Setup, Waiting
<1> HIDE DEF d
<1> QED BY <1>1, <1>2, <1>3, <1>4 DEF FrameSize

(* However deep the interrupts of echoirq nest, its stack is back where it *)
(* was whenever its loop runs, and a handler has whole frames below it.    *)
THEOREM StackBalancedHolds == GuestSpec => []StackBalanced
<1>1. Before => StackBalanced
  BY Balanced
<1> QED BY <1>1, GuestInvariant, PTL

(* No level 0 holds a character: there are at most as many as handlers. *)
LEMMA HoldersAreHandlers ==
  ASSUME Before, program = "echoirq", NEW set
  PROVE  Cardinality(Holders(set)) \in Nat /\ Cardinality(Holders(set)) <= Depth
<1> DEFINE d == Depth
<1>1. d \in Nat /\ Nesting
  BY EchoIrqFacts
<1>2. Fits(0, d, Level(0))
  BY <1>1 DEF Nesting
<1>3. ~InHand(set, Level(0))
  BY <1>2 DEF Fits, InHand, Setup, Waiting, Holding
<1>4. Holders(set) \in SUBSET (1..d)
  BY <1>1, <1>3 DEF Holders
<1> HIDE DEF d
<1>5. IsFiniteSet(1..d) /\ Cardinality(1..d) = d
  BY <1>1, IntervalSize
<1>6. IsFiniteSet(Holders(set)) /\ Cardinality(Holders(set)) <= d
  BY <1>4, <1>5, FS_Subset
<1> QED BY <1>6, FS_CardinalityType DEF d

LEMMA Once ==
  ASSUME Before
  PROVE  EchoedOnce
<1> SUFFICES ASSUME program = "echoirq" PROVE EchoedOnce
  BY DEF EchoedOnce
<1> DEFINE full == IF xxr_rbr_full \in lsr THEN 1 ELSE 0
           others == Char \ {LF}
<1>1. Balance /\ Depth \in Nat /\ received \in Seq(Char) /\ Printed \in Seq(Char)
  BY EchoIrqFacts, Sizes DEF Before
<1>2. ASSUME NEW set \in Counted
      PROVE  /\ Count(set, received) = Count(set, Printed) + Cardinality(Holders(set)) + Unread(set)
             /\ Count(set, Printed) \in Nat
             /\ Cardinality(Holders(set)) \in Nat /\ Cardinality(Holders(set)) <= Depth
             /\ Unread(set) \in Nat /\ Unread(set) <= full
  <2>1. Count(set, received) = Count(set, Printed) + Cardinality(Holders(set)) + Unread(set)
    BY <1>1 DEF Balance
  <2>2. Count(set, Printed) \in Nat
    BY <1>1, TallyTypes
  <2>3. Cardinality(Holders(set)) \in Nat /\ Cardinality(Holders(set)) <= Depth
    BY HoldersAreHandlers
  <2>4. Unread(set) \in Nat /\ Unread(set) <= full
    BY DEF Unread
  <2> QED BY <2>1, <2>2, <2>3, <2>4
<1>3. ASSUME NEW cc \in ToSet(Printed)
      PROVE  Occurrences(cc, Printed) <= Occurrences(cc, received)
  <2>1. cc \in Char
    BY <1>1, ElementOfSeq DEF ToSet
  <2>2. {cc} \in Counted
    BY <2>1, GuestLoopAssumption DEF Counted
  <2>3. Count({cc}, Printed) <= Count({cc}, received)
    BY <1>2, <2>2
  <2>4. \A seq : Occurrences(cc, seq) = Count({cc}, seq)
    BY DEF Occurrences, Count
  <2> QED BY <2>3, <2>4
<1>4. ASSUME NEW seq \in Seq(Char)
      PROVE  Len(seq) - Occurrences(LF, seq) = Count(others, seq)
  <2>1. Occurrences(LF, seq) = Count({LF}, seq)
    BY DEF Occurrences, Count
  <2> QED BY <2>1, TallyAll
<1>5. Count(others, received) <= Count(others, Printed) + Depth + full
  <2>1. others \in Counted
    BY DEF Counted
  <2> HIDE DEF others, full
  <2>2. Count(others, received)
          = Count(others, Printed) + Cardinality(Holders(others)) + Unread(others)
    BY <1>2, <2>1
  <2>3. /\ Count(others, Printed) \in Nat
        /\ Cardinality(Holders(others)) \in Nat /\ Cardinality(Holders(others)) <= Depth
        /\ Unread(others) \in Nat /\ Unread(others) <= full
    BY <1>2, <2>1
  <2>4. full \in Nat
    BY DEF full
  <2> QED BY <1>1, <2>2, <2>3, <2>4
<1>6. pc \in MainLoop \cup Handler => Depth = Nested
  BY DEF MainLoop, Handler, Depth, Nested, StackTop
<1>7. /\ Len(received) - Occurrences(LF, received) = Count(others, received)
      /\ Len(Printed) - Occurrences(LF, Printed) = Count(others, Printed)
  BY <1>1, <1>4
<1> HIDE DEF others
<1>8. pc \in MainLoop \cup Handler =>
        Len(received) - Occurrences(LF, received)
          <= (Len(Printed) - Occurrences(LF, Printed)) + Nested + full
  BY <1>5, <1>6, <1>7
<1> QED BY <1>3, <1>8 DEF EchoedOnce

(* echoirq prints nothing that it did not receive, nothing twice, and what *)
(* it has not printed yet is in RBR or in the hands of a handler: none is  *)
(* lost, however the interrupts nest.                                      *)
THEOREM EchoedOnceHolds == GuestSpec => []EchoedOnce
<1>1. Before => EchoedOnce
  BY Once
<1> QED BY <1>1, GuestInvariant, PTL

LEMMA ErrorLast ==
  ASSUME Before
  PROVE  ErrorComesLast
<1> SUFFICES ASSUME phase = "prompt", erred PROVE shown = Due
  BY DEF ErrorComesLast
<1>1. GuestInv /\ Steady /\ GuestTypeOK /\ shown \in Seq(Char)
  BY Sizes DEF Before, GuestInv
<1>2. program = "hellow"
  <2>1. program = "echo" => ~erred
    BY <1>1 DEF GuestInv, EchoInv
  <2>2. program = "echoirq" => ~erred
    BY <1>1 DEF GuestInv, EchoIrqInv, Wired
  <2> QED BY <1>1, <2>1, <2>2, Rooms
<1>3. Told(4)
  BY <1>1, <1>2 DEF GuestInv, HellowInv
<1>4. Printed = shown
  <2>1. xxr_thr_empty \in lsr
    BY <1>1 DEF Steady
  <2> QED BY <1>1, <2>1, ConcatEmptySeq DEF Printed
<1>5. SubSeq(Greeting, 1, 4) = Greeting
  <2>1. Greeting \in Seq(Int) /\ Len(Greeting) = 4
    BY DEF Greeting
  <2> QED BY <2>1, SubSeqFull
<1> QED BY <1>2, <1>3, <1>4, <1>5 DEF Told, Due

(* The prompt that reports an error comes after all that the program has   *)
(* printed is on the screen; echo and echoirq never fail.                  *)
THEOREM ErrorComesLastHolds == GuestSpec => []ErrorComesLast
<1>1. Before => ErrorComesLast
  BY ErrorLast
<1> QED BY <1>1, GuestInvariant, PTL

-----------------------------------------------------------------------------
(***************************************************************************)
(* Any program and any user.  Whatever the registers and the memory are at *)
(* the start, and whatever the user makes of them at the prompt, the       *)
(* machine implements VmLoop as long as it stays within what VmLoop is     *)
(* told of it: the addresses it goes to, the masks it sets, what it writes *)
(* to IER and prints, the room on the screen.  It must not run code or     *)
(* keep a stack in the UART's registers.                                   *)
(***************************************************************************)
MaskOfCc == mask = cpu.cc \cap {cc_f, cc_i}

(* A command of VmLoop, or one that it does not have: r, m, l and the      *)
(* displays write what they like to the registers and the memory.          *)
AtMonitor ==
  /\ phase = "prompt"
  /\ _execcmd \/ UNCHANGED vars
  /\ IsMachine(Machine)' /\ MaskOfCc'

AnyInit == Init /\ IsMachine(Machine) /\ MaskOfCc
AnySpec == AnyInit /\ [][GuestNext \/ AtMonitor]_allVars

Within ==
  /\ pc \in Addr /\ mask \in Mask /\ ier \in IerValue
  /\ phase \in {"irq", "op"} => OffUart(Machine)
PrintsWithin ==
  GuestInstruction /\ xxr_thr_empty \notin lsr' /\ (thr' # thr \/ xxr_thr_empty \in lsr) =>
    thr' \in CpuChar /\ Len(shown) < MaxOut
StaysWithin == []Within /\ [][PrintsWithin]_allVars

AnyInv == TypeOK /\ LoopInv /\ IsMachine(Machine) /\ MaskOfCc

LEMMA AnyBecoming ==
  ASSUME NEW n, IsMachine(n), Becomes(n)
  PROVE  IsMachine(Machine)' /\ MaskOfCc'
<1> DEFINE k == [a |-> n.a, b |-> n.b, dp |-> n.dp, x |-> n.x, y |-> n.y, u |-> n.u,
                 s |-> n.s, cc |-> n.cc, lcr |-> n.lcr, mem |-> n.mem,
                 pc |-> n.pc, irq |-> n.irq, trap |-> n.trap, ok |-> n.ok, crashed |-> FALSE,
                 rbr |-> n.rbr, thr |-> n.thr, lsr |-> n.lsr, ier |-> n.ier, iir |-> n.iir]
<1>1. IsMachine(k)
  BY DEF IsMachine
<1>2. Machine' = k
  <2>1. n.ok = ~fault'
    BY DEF Becomes, IsMachine
  <2>2. /\ cpu'.a = n.a /\ cpu'.b = n.b /\ cpu'.dp = n.dp /\ cpu'.x = n.x /\ cpu'.y = n.y
        /\ cpu'.u = n.u /\ cpu'.s = n.s /\ cpu'.cc = n.cc /\ cpu'.lcr = n.lcr
        /\ cpu'.mem = n.mem
    BY DEF Becomes
  <2> QED BY <2>1, <2>2 DEF Machine, Becomes
<1>3. MaskOfCc'
  BY DEF Becomes, MaskOfCc
<1> HIDE DEF k
<1> QED BY <1>1, <1>2, <1>3 DEF IsMachine

LEMMA AnyInstructionIsOne ==
  ASSUME AnyInv, Within, Within', PrintsWithin, GuestInstruction, Instr = InstrKind
  PROVE  AnyInstruction
<1> DEFINE m == Machine
           n == cpu_execop(m)
<1>1. /\ IsMachine(m) /\ IsMachine(n) /\ Becomes(n) /\ OfAKind(m, n)
      /\ phase = "op" /\ mask = cpu.cc \cap {cc_f, cc_i}
  <2>1. IsMachine(m) /\ OffUart(m) /\ Becomes(n) /\ phase = "op"
        /\ mask = cpu.cc \cap {cc_f, cc_i}
    BY DEF AnyInv, MaskOfCc, Within, GuestInstruction
  <2> HIDE DEF m
  <2> QED BY <2>1, InstructionsKeepMachine, InstructionsAreOfAKind
<1>2. fault = FALSE /\ erred = FALSE
  BY <1>1 DEF AnyInv, LoopInv, FaultSeen, HaltGate, RawWhileRunning, Running, TypeOK
<1>3. /\ m.irq = irq /\ m.trap = trap /\ m.ok = ~fault /\ m.crashed = FALSE /\ m.rbr = rbr
      /\ m.thr = thr /\ m.lsr = lsr /\ m.ier = ier /\ m.iir = iir /\ m.cc = cpu.cc
  BY FieldsAreVariables
<1>4. n.ok \in BOOLEAN /\ n.crashed \in BOOLEAN
  BY <1>1, FieldsOfMachine
<1> HIDE DEF m, n
<1>5. /\ pc' = n.pc /\ irq' = n.irq /\ trap' = n.trap /\ fault' = ~n.ok
      /\ mask' = n.cc \cap {cc_f, cc_i}
      /\ rbr' = n.rbr /\ thr' = n.thr /\ lsr' = n.lsr /\ ier' = n.ier /\ iir' = n.iir
      /\ UNCHANGED <<kbd, shown, perform_tio, term, sigint, armed, resume>>
  BY <1>1 DEF Becomes
<1>6. /\ phase' = (IF n.crashed THEN "crash" ELSE "tio")
      /\ erred' = (erred \/ ~n.ok)
      /\ ran' = IF ran < 2 THEN ran + 1 ELSE 2
  BY DEF GuestInstruction, n, m
<1>7. /\ pc' \in Addr /\ mask' \in Mask /\ ier' \in IerValue
      /\ (xxr_thr_empty \notin lsr' /\ (thr' # thr \/ xxr_thr_empty \in lsr)) =>
           thr' \in CpuChar /\ Len(shown) < MaxOut
  BY DEF Within, PrintsWithin
<1>8. Unmasked(m, n) => mask' = mask
  BY <1>1, <1>3, <1>5 DEF Unmasked
<1>9. ASSUME NEW changed, Still(m, n, changed)
      PROVE  /\ "irq" \notin changed => irq' = irq
             /\ "trap" \notin changed => trap' = trap
             /\ "ok" \notin changed => fault' = fault /\ n.ok
             /\ "crashed" \notin changed => phase' = "tio"
             /\ "rbr" \notin changed => rbr' = rbr
             /\ "thr" \notin changed => thr' = thr
             /\ "lsr" \notin changed => lsr' = lsr
             /\ "ier" \notin changed => ier' = ier
             /\ "iir" \notin changed => iir' = iir
  <2>1. \A field \in Shared : field \notin changed => n[field] = m[field]
    BY <1>9 DEF Still
  <2> QED BY <1>2, <1>3, <1>5, <1>6, <2>1 DEF Shared
<1>10. ASSUME NEW kind \in InstrKind, rbr' = rbr,
              n.ok <=> kind \notin {"fault", "badPost", "crash"}
       PROVE  Executes(kind)
  <2>1. erred' = (erred \/ kind \in {"fault", "badPost", "crash"})
    BY <1>2, <1>4, <1>6, <1>10
  <2> QED BY <1>1, <1>5, <1>6, <1>7, <1>10, <2>1 DEF Executes
<1>11. CASE Internal(m, n)
  <2>1. Still(m, n, {})
    BY <1>11 DEF Internal
  <2>2. phase' = "tio" /\ n.ok /\ rbr' = rbr /\ UNCHANGED <<thr, lsr, ier, iir, irq, trap, fault>>
    BY <1>9, <2>1
  <2>3. Executes("internal")
    BY <1>10, <2>2 DEF InstrKind
  <2> QED BY <1>7, <2>2, <2>3 DEF OpInternal, AnyInstruction
<1>12. CASE ReadsRbr(m, n)
  <2>1. Still(m, n, {"lsr"}) /\ n.lsr = tio_read_rbr(m.lsr) /\ Unmasked(m, n)
    BY <1>12 DEF ReadsRbr
  <2>2. phase' = "tio" /\ n.ok /\ rbr' = rbr /\ UNCHANGED <<thr, ier, iir, irq, trap, fault>>
    BY <1>9, <2>1
  <2>3. Executes("readRbr") /\ lsr' = tio_read_rbr(lsr) /\ mask' = mask
    BY <1>3, <1>5, <1>8, <1>10, <2>1, <2>2 DEF InstrKind
  <2> QED BY <2>2, <2>3 DEF OpReadRbr, AnyInstruction
<1>13. CASE WritesThr(m, n)
  <2>1. Still(m, n, {"thr", "lsr"}) /\ n.lsr = tio_write_thr(m.lsr) /\ Unmasked(m, n)
    BY <1>13 DEF WritesThr
  <2>2. phase' = "tio" /\ n.ok /\ rbr' = rbr /\ UNCHANGED <<ier, iir, irq, trap, fault>>
    BY <1>9, <2>1
  <2>3. Executes("writeThr") /\ lsr' = tio_write_thr(lsr) /\ mask' = mask
    BY <1>3, <1>5, <1>8, <1>10, <2>1, <2>2 DEF InstrKind
  <2>4. CASE thr' # thr \/ xxr_thr_empty \in lsr
    <3>1. thr' \in CpuChar /\ Prints(thr')
      BY <1>7, <2>3, <2>4 DEF Prints, tio_write_thr
    <3>2. OpWriteThr(thr')
      BY <2>2, <2>3, <3>1 DEF OpWriteThr
    <3> QED BY <3>1, <3>2 DEF AnyInstruction
  <2>5. CASE thr' = thr /\ xxr_thr_empty \notin lsr
    <3>1. lsr' = lsr
      BY <2>3, <2>5 DEF tio_write_thr
    <3>2. Executes("internal")
      BY <1>10, <2>2 DEF InstrKind
    <3> QED BY <1>7, <2>2, <2>5, <3>1, <3>2 DEF OpInternal, AnyInstruction
  <2> QED BY <2>4, <2>5
<1>14. CASE ModifiesUart(m, n)
  <2>1. /\ Still(m, n, {"thr", "lsr"}) /\ n.lsr = tio_write_thr(tio_read_rbr(m.lsr))
        /\ Unmasked(m, n)
    BY <1>14 DEF ModifiesUart
  <2>2. phase' = "tio" /\ n.ok /\ rbr' = rbr /\ UNCHANGED <<ier, iir, irq, trap, fault>>
    BY <1>9, <2>1
  <2>3. Executes("modifyUart") /\ lsr' = tio_write_thr(tio_read_rbr(lsr)) /\ mask' = mask
    BY <1>3, <1>5, <1>8, <1>10, <2>1, <2>2 DEF InstrKind
  <2>4. CASE thr' # thr \/ xxr_thr_empty \in lsr
    <3>1. thr' \in CpuChar /\ Prints(thr')
      BY <1>7, <2>3, <2>4 DEF Prints, tio_write_thr
    <3>2. OpModifyUart(thr')
      BY <2>2, <2>3, <3>1 DEF OpModifyUart
    <3> QED BY <3>1, <3>2 DEF AnyInstruction
  <2>5. CASE thr' = thr /\ xxr_thr_empty \notin lsr
    <3>1. lsr' = tio_read_rbr(lsr)
      BY <2>3, <2>5 DEF tio_write_thr, tio_read_rbr
    <3>2. Executes("readRbr")
      BY <1>10, <2>2 DEF InstrKind
    <3> QED BY <2>2, <2>3, <2>5, <3>1, <3>2 DEF OpReadRbr, AnyInstruction
  <2> QED BY <2>4, <2>5
<1>15. CASE WritesIer(m, n)
  <2>1. Still(m, n, {"ier"}) /\ Unmasked(m, n)
    BY <1>15 DEF WritesIer
  <2>2. phase' = "tio" /\ n.ok /\ rbr' = rbr /\ UNCHANGED <<thr, lsr, iir, irq, trap, fault>>
    BY <1>9, <2>1
  <2>3. Executes("writeIer") /\ mask' = mask
    BY <1>8, <1>10, <2>1, <2>2 DEF InstrKind
  <2>4. OpWriteIer(ier') /\ ier' \in IerValue
    BY <1>7, <2>2, <2>3 DEF OpWriteIer
  <2> QED BY <2>4 DEF AnyInstruction
<1>16. CASE Interrupts(m, n)
  <2>1. Still(m, n, {"irq"}) /\ Unmasked(m, n)
    BY <1>16 DEF Interrupts
  <2>2. PICK flag \in {irq_swi, irq_swi2, irq_swi3} : n.irq = m.irq \cup {flag}
    BY <1>16 DEF Interrupts
  <2>3. phase' = "tio" /\ n.ok /\ rbr' = rbr /\ UNCHANGED <<thr, lsr, ier, iir, trap, fault>>
    BY <1>9, <2>1
  <2>4. Executes("swi") /\ mask' = mask /\ irq' = irq \cup {flag}
    BY <1>3, <1>5, <1>8, <1>10, <2>1, <2>2, <2>3 DEF InstrKind
  <2>5. OpSwi(flag)
    BY <2>3, <2>4 DEF OpSwi
  <2> QED BY <2>5 DEF AnyInstruction
<1>17. CASE Fails(m, n)
  <2>1. Still(m, n, {"ok", "trap"}) /\ ~n.ok /\ n.trap = {tc_trap} /\ Unmasked(m, n)
    BY <1>17 DEF Fails
  <2>2. phase' = "tio" /\ rbr' = rbr /\ UNCHANGED <<thr, lsr, ier, iir, irq>>
    BY <1>9, <2>1
  <2>3. Executes("fault") /\ mask' = mask /\ fault' = TRUE /\ trap' = {tc_trap}
    BY <1>4, <1>5, <1>8, <1>10, <2>1, <2>2 DEF InstrKind
  <2> QED BY <2>2, <2>3 DEF OpFault, AnyInstruction
<1>18. CASE HasBadPost(m, n)
  <2>1. Still(m, n, {"ok"}) /\ ~n.ok
    BY <1>18 DEF HasBadPost
  <2>2. phase' = "tio" /\ rbr' = rbr /\ UNCHANGED <<thr, lsr, ier, iir, irq, trap>>
    BY <1>9, <2>1
  <2>3. Executes("badPost") /\ fault' = TRUE
    BY <1>4, <1>5, <1>10, <2>1, <2>2 DEF InstrKind
  <2> QED BY <1>7, <2>2, <2>3 DEF OpBadPost, AnyInstruction
<1>19. CASE Crashes(m, n)
  <2>1. /\ Still(m, n, {"ok", "trap", "crashed"})
        /\ ~n.ok /\ n.trap = {tc_trap} /\ n.crashed /\ Unmasked(m, n)
    BY <1>19 DEF Crashes
  <2>2. rbr' = rbr /\ UNCHANGED <<thr, lsr, ier, iir, irq>> /\ phase' = "crash"
    BY <1>6, <1>9, <2>1
  <2>3. Executes("crash") /\ mask' = mask /\ fault' = TRUE /\ trap' = {tc_trap}
    BY <1>4, <1>5, <1>8, <1>10, <2>1, <2>2 DEF InstrKind
  <2> QED BY <2>2, <2>3 DEF OpCrash, AnyInstruction
<1> QED BY <1>1, <1>11, <1>12, <1>13, <1>14, <1>15, <1>16, <1>17, <1>18, <1>19 DEF OfAKind

(* Only the two mask bits of cc decide over requests. *)
LEMMA MaskDecides ==
  ASSUME NEW requests, NEW codes
  PROVE  LET bits == codes \cap {cc_f, cc_i}
         IN  /\ Deliverable(requests, bits) = Deliverable(requests, codes)
             /\ IrqAfterService(requests, bits) = IrqAfterService(requests, codes)
<1> DEFINE bits == codes \cap {cc_f, cc_i}
<1>1. (cc_f \in bits <=> cc_f \in codes) /\ (cc_i \in bits <=> cc_i \in codes)
  OBVIOUS
<1> HIDE DEF bits
<1>2. Deliverable(requests, bits) = Deliverable(requests, codes)
  BY <1>1 DEF Deliverable
<1>3. Serviced(requests, bits) = Serviced(requests, codes)
  BY <1>2 DEF Serviced
<1> QED BY <1>2, <1>3 DEF IrqAfterService, bits

LEMMA AnyInterruptIsOne ==
  ASSUME AnyInv, Within, Within', GuestInterrupt
  PROVE  AnyInterrupt
<1> DEFINE m == Machine
           n == cpu_execirq(m)
<1>1. /\ IsMachine(m) /\ IsMachine(n) /\ Becomes(n) /\ Apart(m.s)
      /\ phase = "irq" /\ mask = cpu.cc \cap {cc_f, cc_i} /\ fault \in BOOLEAN
  <2>1. IsMachine(m) /\ OffUart(m) /\ Becomes(n) /\ phase = "irq"
        /\ mask = cpu.cc \cap {cc_f, cc_i} /\ fault \in BOOLEAN
    BY DEF AnyInv, MaskOfCc, Within, GuestInterrupt, TypeOK
  <2>2. Apart(m.s)
    BY <2>1 DEF OffUart, Apart
  <2> HIDE DEF m
  <2> QED BY <2>1, <2>2, InterruptsKeepMachine
<1>2. /\ m.irq = irq /\ m.trap = trap /\ m.ok = ~fault /\ m.rbr = rbr /\ m.pc = pc
      /\ m.thr = thr /\ m.lsr = lsr /\ m.ier = ier /\ m.iir = iir /\ m.cc = cpu.cc
  BY FieldsAreVariables
<1> HIDE DEF m
<1>3. /\ Still(m, n, {"irq"}) /\ n.irq = IrqAfterService(m.irq, m.cc) /\ Unmasked(m, n)
      /\ Deliverable(m.irq, m.cc) = {} => n = m
  BY <1>1, InterruptsTakeRequests
<1> HIDE DEF n
<1>4. /\ pc' = n.pc /\ irq' = n.irq /\ trap' = n.trap /\ fault' = ~n.ok
      /\ mask' = n.cc \cap {cc_f, cc_i}
      /\ rbr' = n.rbr /\ thr' = n.thr /\ lsr' = n.lsr /\ ier' = n.ier /\ iir' = n.iir
      /\ UNCHANGED <<kbd, shown, perform_tio, term, sigint, armed, resume>>
  BY <1>1 DEF Becomes
<1>5. phase' = "mon" /\ UNCHANGED <<ran, erred>>
  BY DEF GuestInterrupt
<1>6. UNCHANGED <<trap, fault, rbr, thr, lsr, ier, iir>>
  <2>1. \A field \in Shared : field # "irq" => n[field] = m[field]
    BY <1>3 DEF Still
  <2> QED BY <1>1, <1>2, <1>4, <2>1 DEF Shared
<1>7. mask' = mask
  BY <1>1, <1>2, <1>3, <1>4 DEF Unmasked
<1>8. /\ irq' = IrqAfterService(irq, mask)
      /\ IF Deliverable(irq, mask) = {} THEN pc' = pc ELSE pc' \in Addr
  <2>1. /\ IrqAfterService(irq, mask) = IrqAfterService(m.irq, m.cc)
        /\ Deliverable(irq, mask) = Deliverable(m.irq, m.cc)
    BY <1>1, <1>2, MaskDecides
  <2>2. pc' \in Addr
    BY DEF Within
  <2> QED BY <1>2, <1>3, <1>4, <2>1, <2>2
<1> QED BY <1>1, <1>4, <1>5, <1>6, <1>7, <1>8 DEF AnyInterrupt

LEMMA OutsideIsNext ==
  ASSUME Outside
  PROVE  [Next]_vars /\ UNCHANGED <<cpu, mask>>
<1> USE DEF guestVars, allVars, vars, loopVars
<1>1. CASE GuestMonitor
  <2>1. mon_execmon /\ UNCHANGED <<cpu, mask>>
    BY <1>1 DEF GuestMonitor, mon_execmon
  <2> QED BY <2>1 DEF Next
<1>2. CASE Resume
  <2>1. (Go \/ Step) /\ UNCHANGED <<cpu, mask>>
    BY <1>2 DEF Resume, Go, Step, Leave
  <2> QED BY <2>1 DEF Next, _execcmd
<1>3. CASE Leaves
  <2>1. Bye /\ UNCHANGED <<cpu, mask>>
    BY <1>3 DEF Leaves, Bye
  <2> QED BY <2>1 DEF Next, _execcmd
<1>4. CASE CtrlC
  <2>1. _sig_handler /\ UNCHANGED <<cpu, mask>>
    BY <1>4 DEF CtrlC, _sig_handler
  <2> QED BY <2>1 DEF Next
<1>5. CASE \E cc \in Key : Types(cc)
  <2>1. PICK cc \in Key : Types(cc)
    BY <1>5
  <2>2. Type(cc) /\ UNCHANGED <<cpu, mask>>
    BY <2>1 DEF Types, Type
  <2> QED BY <2>2 DEF Next
<1>6. CASE UNCHANGED allVars
  BY <1>6
<1> QED BY <1>1, <1>2, <1>3, <1>4, <1>5, <1>6 DEF Outside

LEMMA AnyStep ==
  ASSUME AnyInv, Within, Within', PrintsWithin, [GuestNext \/ AtMonitor]_allVars,
         Instr = InstrKind
  PROVE  [Next]_vars /\ AnyInv'
<1>1. /\ TypeOK /\ LoopInv /\ IsMachine(Machine) /\ mask = cpu.cc \cap {cc_f, cc_i}
  BY DEF AnyInv, MaskOfCc
<1>2. CASE GuestPoll
  <2>1. PollTerminal /\ UNCHANGED <<cpu, mask>>
    BY <1>2 DEF GuestPoll, PollTerminal
  <2>2. [Next]_vars
    BY <2>1 DEF Next
  <2>3. TypeOK' /\ LoopInv'
    BY <1>1, <2>2, TypeStep, LoopInvStep
  <2> QED BY <1>1, <2>1, <2>2, <2>3, CpuAside DEF AnyInv, MaskOfCc
<1>3. CASE Outside
  <2>1. [Next]_vars /\ UNCHANGED <<cpu, mask>>
    BY <1>3, OutsideIsNext
  <2>2. TypeOK' /\ LoopInv'
    BY <1>1, <2>1, TypeStep, LoopInvStep
  <2> QED BY <1>1, <2>1, <2>2, CpuAside DEF AnyInv, MaskOfCc
<1>4. CASE GuestInterrupt
  <2>1. [Next]_vars
    BY <1>4, AnyInterruptIsOne DEF Next
  <2>2. TypeOK' /\ LoopInv'
    BY <1>1, <2>1, TypeStep, LoopInvStep
  <2>3. IsMachine(cpu_execirq(Machine)) /\ Becomes(cpu_execirq(Machine))
    BY <1>1, <1>4, InterruptsKeepMachine DEF GuestInterrupt
  <2>4. IsMachine(Machine)' /\ MaskOfCc'
    BY <2>3, AnyBecoming
  <2> QED BY <2>1, <2>2, <2>4 DEF AnyInv
<1>5. CASE GuestInstruction
  <2>1. [Next]_vars
    BY <1>5, AnyInstructionIsOne DEF Next
  <2>2. TypeOK' /\ LoopInv'
    BY <1>1, <2>1, TypeStep, LoopInvStep
  <2>3. IsMachine(cpu_execop(Machine)) /\ Becomes(cpu_execop(Machine))
    BY <1>1, <1>5, InstructionsKeepMachine DEF GuestInstruction
  <2>4. IsMachine(Machine)' /\ MaskOfCc'
    BY <2>3, AnyBecoming
  <2> QED BY <2>1, <2>2, <2>4 DEF AnyInv
<1>6. CASE AtMonitor
  <2>1. [Next]_vars /\ IsMachine(Machine)' /\ MaskOfCc'
    BY <1>6 DEF AtMonitor, Next
  <2>2. TypeOK' /\ LoopInv'
    BY <1>1, <2>1, TypeStep, LoopInvStep
  <2> QED BY <2>1, <2>2 DEF AnyInv
<1>7. GuestPoll \/ GuestInterrupt \/ Outside \/ GuestInstruction \/ AtMonitor
  BY DEF GuestNext, Outside, HasEnded
<1> QED BY <1>2, <1>3, <1>4, <1>5, <1>6, <1>7

LEMMA AnyStarts == ASSUME AnyInit PROVE Init /\ AnyInv
BY TypeStart, LoopInvStart DEF AnyInit, AnyInv

(* Whatever the guest program is and whatever the user does to it, the     *)
(* machine implements VmLoop: the nine kinds of instruction there are all  *)
(* that cpu_execop can do to the loop, and cpu_execirq does what           *)
(* AnyInterrupt says.                                                      *)
THEOREM AnyGuestRefinesLoop ==
  ASSUME Instr = InstrKind
  PROVE  AnySpec /\ StaysWithin => IsVmLoop
<1>1. AnyInit => Init /\ AnyInv
  BY AnyStarts
<1>2. AnyInv /\ Within /\ Within' /\ [GuestNext \/ AtMonitor]_allVars /\ [PrintsWithin]_allVars
        => [Next]_vars /\ AnyInv'
  <2> SUFFICES ASSUME AnyInv, Within, Within', [GuestNext \/ AtMonitor]_allVars,
                      [PrintsWithin]_allVars
               PROVE  [Next]_vars /\ AnyInv'
    OBVIOUS
  <2>1. CASE PrintsWithin
    BY <2>1, AnyStep
  <2>2. CASE UNCHANGED allVars
    <3>1. UNCHANGED <<vars, cpu>>
      BY <2>2 DEF allVars, guestVars
    <3>2. [Next]_vars
      BY <3>1
    <3>3. TypeOK' /\ LoopInv'
      BY <3>2, TypeStep, LoopInvStep DEF AnyInv
    <3>4. UNCHANGED <<cpu, mask>> /\ IsMachine(Machine) /\ mask = cpu.cc \cap {cc_f, cc_i}
      BY <3>1 DEF AnyInv, MaskOfCc, vars, loopVars
    <3> QED BY <3>2, <3>3, <3>4, CpuAside DEF AnyInv, MaskOfCc
  <2> QED BY <2>1, <2>2
<1> QED BY <1>1, <1>2, PTL DEF AnySpec, IsVmLoop, Spec, StaysWithin

(* So no program gets past the monitor: a halt, a failure, ctrl-c, a step  *)
(* and a break point stop any of them, an NMI does not wait, and what it   *)
(* prints goes out once, in order.                                         *)
THEOREM AnyGuestKeepsLoop ==
  ASSUME Instr = InstrKind
  PROVE  AnySpec /\ StaysWithin =>
           /\ [](HaltGate /\ StepsOne /\ BreakpointStops /\ NmiNeverWaits)
           /\ [](TermMatchesUse /\ PrintedIsTaken)
           /\ IsSerialPort
<1>1. LoopInv => /\ HaltGate /\ StepsOne /\ BreakpointStops /\ NmiNeverWaits
                 /\ TermMatchesUse /\ PrintedIsTaken
  BY DEF LoopInv
<1>2. AnySpec /\ StaysWithin => Spec
  BY AnyGuestRefinesLoop DEF IsVmLoop
<1> QED BY <1>1, <1>2, LoopInvariant, TerminalIsSerialPort, PTL
=============================================================================

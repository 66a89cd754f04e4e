--------------------------- MODULE Cpu6809Proofs ---------------------------
(***************************************************************************)
(* Proofs about the CPU: whatever the program and its data, an instruction *)
(* or an interrupt leaves values in the registers and bytes in memory that *)
(* fit their widths; and what the stack operations put on the stack, their *)
(* counterparts bring back.                                                *)
(***************************************************************************)
EXTENDS Cpu6809, TLAPS

(***************************************************************************)
(* Bytes, words and bits.  The ranges are cited by these lemmas, since the *)
(* provers would take an interval between two numerals apart.              *)
(***************************************************************************)
LEMMA Interval ==
  ASSUME NEW low \in Int, NEW high \in Int
  PROVE  \A value : value \in low..high <=> value \in Int /\ low <= value /\ value <= high
OBVIOUS

LEMMA ByteRange == \A value : value \in Byte <=> value \in Int /\ 0 <= value /\ value <= 255
BY DEF Byte

LEMMA WordRange == \A value : value \in Word <=> value \in Int /\ 0 <= value /\ value <= 65535
<1>1. UINT16_MAX \in Int
  BY DEF UINT16_MAX
<1>2. \A value : value \in Word <=> value \in Int /\ 0 <= value /\ value <= UINT16_MAX
  BY <1>1, Interval DEF Word
<1>3. UINT16_MAX = 65535
  BY DEF UINT16_MAX
<1> QED BY <1>2, <1>3

LEMMA BitsAreWeights == ASSUME NEW value PROVE Bits(value) \in SUBSET Weight
BY DEF Bits

LEMMA FlagsAreWeights == CcFlag = Weight /\ IrqFlag \subseteq Weight /\ UartFlag \subseteq Weight
BY DEF CcFlag, Weight, IrqFlag, UartFlag, cc_e, cc_f, cc_h, cc_i, cc_n, cc_z, cc_v, cc_c,
  irq_rst, irq_irq, irq_firq, irq_nmi, irq_swi, irq_swi2, irq_swi3, xxr_rbr_full, xxr_thr_empty

LEMMA ByteOfIsByte == ASSUME NEW bits PROVE ByteOf(bits) \in Byte
BY DEF ByteOf, Byte

(* A byte is made of its bits, and a set of bits is that of its byte. *)
LEMMA BitsOfByte == ASSUME NEW value \in Byte PROVE ByteOf(Bits(value)) = value
BY DEF ByteOf, Bits, Byte, Weight

LEMMA Halves ==
  ASSUME NEW digit \in {0, 1}, NEW rest \in Int, NEW number, number = digit + 2 * rest
  PROVE  number \in Int /\ number % 2 = digit /\ number \div 2 = rest
OBVIOUS

LEMMA Shifts ==
  ASSUME NEW v \in Int
  PROVE  /\ v \div 1 = v /\ v \div 4 = (v \div 2) \div 2 /\ v \div 8 = (v \div 4) \div 2
         /\ v \div 16 = (v \div 8) \div 2 /\ v \div 32 = (v \div 16) \div 2
         /\ v \div 64 = (v \div 32) \div 2 /\ v \div 128 = (v \div 64) \div 2
OBVIOUS

(* The number with these binary digits. *)
Value(d) == d[1] + 2*d[2] + 4*d[4] + 8*d[8] + 16*d[16] + 32*d[32] + 64*d[64] + 128*d[128]

LEMMA DigitsOfByte ==
  ASSUME NEW d \in [Weight -> {0, 1}]
  PROVE  \A weight \in Weight : (Value(d) \div weight) % 2 = d[weight]
<1>1. /\ d[1] \in {0, 1} /\ d[2] \in {0, 1} /\ d[4] \in {0, 1} /\ d[8] \in {0, 1}
      /\ d[16] \in {0, 1} /\ d[32] \in {0, 1} /\ d[64] \in {0, 1} /\ d[128] \in {0, 1}
  BY DEF Weight
<1> DEFINE v7 == d[128]          v6 == d[64] + 2 * v7   v5 == d[32] + 2 * v6
           v4 == d[16] + 2 * v5  v3 == d[8] + 2 * v4    v2 == d[4] + 2 * v3
           v1 == d[2] + 2 * v2   v0 == d[1] + 2 * v1
<1>2. Value(d) = v0
  BY <1>1 DEF Value
<1> HIDE DEF v0, v1, v2, v3, v4, v5, v6, v7
<1>3. v7 \in Int /\ v7 % 2 = d[128]
  BY <1>1 DEF v7
<1>4. v6 \in Int /\ v6 % 2 = d[64] /\ v6 \div 2 = v7
  <2>1. d[64] \in {0, 1} /\ v7 \in Int /\ v6 = d[64] + 2 * v7
    BY <1>1, <1>3 DEF v6
  <2> QED BY <2>1, Halves
<1>5. v5 \in Int /\ v5 % 2 = d[32] /\ v5 \div 2 = v6
  <2>1. d[32] \in {0, 1} /\ v6 \in Int /\ v5 = d[32] + 2 * v6
    BY <1>1, <1>4 DEF v5
  <2> QED BY <2>1, Halves
<1>6. v4 \in Int /\ v4 % 2 = d[16] /\ v4 \div 2 = v5
  <2>1. d[16] \in {0, 1} /\ v5 \in Int /\ v4 = d[16] + 2 * v5
    BY <1>1, <1>5 DEF v4
  <2> QED BY <2>1, Halves
<1>7. v3 \in Int /\ v3 % 2 = d[8] /\ v3 \div 2 = v4
  <2>1. d[8] \in {0, 1} /\ v4 \in Int /\ v3 = d[8] + 2 * v4
    BY <1>1, <1>6 DEF v3
  <2> QED BY <2>1, Halves
<1>8. v2 \in Int /\ v2 % 2 = d[4] /\ v2 \div 2 = v3
  <2>1. d[4] \in {0, 1} /\ v3 \in Int /\ v2 = d[4] + 2 * v3
    BY <1>1, <1>7 DEF v2
  <2> QED BY <2>1, Halves
<1>9. v1 \in Int /\ v1 % 2 = d[2] /\ v1 \div 2 = v2
  <2>1. d[2] \in {0, 1} /\ v2 \in Int /\ v1 = d[2] + 2 * v2
    BY <1>1, <1>8 DEF v1
  <2> QED BY <2>1, Halves
<1>10. v0 \in Int /\ v0 % 2 = d[1] /\ v0 \div 2 = v1
  <2>1. d[1] \in {0, 1} /\ v1 \in Int /\ v0 = d[1] + 2 * v1
    BY <1>1, <1>9 DEF v0
  <2> QED BY <2>1, Halves
<1>11. /\ v0 \div 1 = v0 /\ v0 \div 2 = v1 /\ v0 \div 4 = v2 /\ v0 \div 8 = v3
       /\ v0 \div 16 = v4 /\ v0 \div 32 = v5 /\ v0 \div 64 = v6 /\ v0 \div 128 = v7
  BY <1>4, <1>5, <1>6, <1>7, <1>8, <1>9, <1>10, Shifts
<1>12. ASSUME NEW weight \in Weight PROVE (v0 \div weight) % 2 = d[weight]
  BY <1>3, <1>4, <1>5, <1>6, <1>7, <1>8, <1>9, <1>10, <1>11 DEF Weight
<1> QED BY <1>2, <1>12

LEMMA ByteOfBits == ASSUME NEW bits \in SUBSET Weight PROVE Bits(ByteOf(bits)) = bits
<1> DEFINE d == [weight \in Weight |-> IF weight \in bits THEN 1 ELSE 0]
           v == ByteOf(bits)
<1>1. v = Value(d)
  BY DEF ByteOf, Value, Weight
<1>2. d \in [Weight -> {0, 1}] /\ \A weight \in Weight : d[weight] = 1 <=> weight \in bits
  OBVIOUS
<1> HIDE DEF d, v
<1>3. \A weight \in Weight : (v \div weight) % 2 = d[weight]
  BY <1>1, <1>2, DigitsOfByte
<1>4. Bits(v) = bits
  BY <1>2, <1>3 DEF Bits
<1> QED BY <1>4 DEF v

-----------------------------------------------------------------------------
(***************************************************************************)
(* Arithmetic and logic: a byte or a word comes out, and flags.            *)
(***************************************************************************)
IsOut8(out) == out.val \in Byte /\ out.cc \in SUBSET CcFlag
IsOut16(out) == out.val \in Word /\ out.cc \in SUBSET CcFlag

LEMMA AffectKeepsFlags ==
  ASSUME NEW codes \in SUBSET CcFlag, NEW affected, NEW on \in SUBSET CcFlag
  PROVE  Affect(codes, affected, on) \in SUBSET CcFlag
BY DEF Affect, _setclrf

LEMMA WhenIsFlags ==
  ASSUME NEW flag \in CcFlag, NEW condition \in BOOLEAN
  PROVE  When(condition, flag) \in SUBSET CcFlag
BY DEF When

LEMMA FlagNames == {cc_e, cc_f, cc_h, cc_i, cc_n, cc_z, cc_v, cc_c} = CcFlag
BY DEF CcFlag

LEMMA SizedFlags ==
  ASSUME NEW codes \in SUBSET CcFlag, NEW value
  PROVE  /\ _flags_nz_v8(codes, value) \in SUBSET CcFlag
         /\ _flags_nz_v16(codes, value) \in SUBSET CcFlag
         /\ _flags_z16(codes, value) \in SUBSET CcFlag
BY AffectKeepsFlags, FlagNames DEF _flags_nz_v8, _flags_nz_v16, _flags_z16, When

LEMMA Cuts ==
  ASSUME NEW value \in Int
  PROVE  value % 256 \in Byte /\ value % 65536 \in Word /\ Wrap(value) \in Word
BY ByteRange, WordRange DEF Wrap

LEMMA AddTypes ==
  ASSUME NEW codes \in SUBSET CcFlag, NEW a \in Byte, NEW b \in Byte
  PROVE  /\ IsOut8(_addf8(codes, a, b)) /\ IsOut8(_addcf8(codes, a, b))
         /\ IsOut8(_subf8(codes, a, b)) /\ IsOut8(_subcf8(codes, a, b))
<1>1. ASSUME NEW carry \in {0, 1}
      PROVE  IsOut8(__addcf8(codes, a, b, carry)) /\ IsOut8(__subcf8(codes, a, b, carry))
  <2>1. a + b + carry \in Int /\ (a - b - carry) % 65536 \in Int
    BY ByteRange
  <2> QED BY <2>1, Cuts, AffectKeepsFlags, FlagNames DEF IsOut8, __addcf8, __subcf8, When
<1> QED BY <1>1 DEF _addf8, _addcf8, _subf8, _subcf8

LEMMA WideTypes ==
  ASSUME NEW codes \in SUBSET CcFlag, NEW a \in Word, NEW b \in Word
  PROVE  IsOut16(_addf16(codes, a, b)) /\ IsOut16(_subf16(codes, a, b))
<1>1. a \in Int /\ b \in Int
  BY WordRange
<1>2. a + b \in Int /\ (a - b) % 131072 \in Int
  BY <1>1
<1> QED BY <1>2, Cuts, AffectKeepsFlags, FlagNames DEF IsOut16, _addf16, _subf16, When

LEMMA CountTypes ==
  ASSUME NEW codes \in SUBSET CcFlag, NEW a \in Byte
  PROVE  IsOut8(_incf8(codes, a)) /\ IsOut8(_decf8(codes, a)) /\ IsOut8(_decadja(codes, a))
<1>1. a + 1 \in Int /\ (a - 1) % 65536 \in Int
  BY ByteRange
<1>2. IsOut8(_incf8(codes, a)) /\ IsOut8(_decf8(codes, a))
  BY <1>1, Cuts, AffectKeepsFlags, FlagNames DEF IsOut8, _incf8, _decf8, When
<1>3. IsOut8(_decadja(codes, a))
  <2> DEFINE high == a - (a % 16)
             low == a % 16
             a74 == IF cc_c \in codes \/ high > 144 \/ (high > 128 /\ low > 9)
                    THEN high + 96 ELSE high
             a30 == IF cc_h \in codes \/ low > 9 THEN low + 6 ELSE low
             res == (a74 + a30) % 256
  <2>1. a74 + a30 \in Int
    BY ByteRange
  <2>2. res \in Byte
    <3> HIDE DEF a74, a30
    <3> QED BY <2>1, Cuts
  <2>3. _decadja(codes, a)
          = [val |-> res, cc |-> _flags_nz_v8(codes, res) \cup When(a74 >= 256, cc_c)]
    BY DEF _decadja
  <2> HIDE DEF res, a74
  <2> QED BY <2>2, <2>3, SizedFlags, FlagNames DEF IsOut8, When
<1> QED BY <1>2, <1>3

LEMMA LogicTypes ==
  ASSUME NEW codes \in SUBSET CcFlag, NEW a \in Byte, NEW b \in Byte
  PROVE  /\ IsOut8(Logic(codes, a)) /\ IsOut8(lo_com(codes, a))
         /\ IsOut8(lo_and(codes, a, b)) /\ IsOut8(lo_or(codes, a, b))
         /\ IsOut8(lo_xor(codes, a, b))
<1>1. ASSUME NEW flags \in SUBSET CcFlag, NEW value \in Byte
      PROVE  IsOut8(Logic(flags, value))
  BY SizedFlags DEF Logic, IsOut8
<1>2. codes \ {cc_c} \in SUBSET CcFlag /\ codes \cup {cc_c} \in SUBSET CcFlag
  BY FlagNames
<1>3. 255 - a \in Byte
  BY ByteRange
<1> QED BY <1>1, <1>2, <1>3, ByteOfIsByte DEF lo_com, lo_and, lo_or, lo_xor

LEMMA ShiftTypes ==
  ASSUME NEW codes, NEW a \in Byte
  PROVE  /\ sh_left(a) \in Byte /\ sh_right(a) \in Byte /\ sh_aright(a) \in Byte
         /\ rot_left(codes, a) \in Byte /\ rot_right(codes, a) \in Byte
<1>1. sh_left(a) \in Byte /\ sh_right(a) \in Byte /\ sh_aright(a) \in Byte
  BY ByteRange DEF sh_left, sh_right, sh_aright
<1> QED BY <1>1, ByteOfIsByte DEF rot_left, rot_right, RotateIn

LEMMA ExtendTypes ==
  ASSUME NEW a \in Byte
  PROVE  _sext58(a) \in Byte /\ _sext816(a) \in Word
<1>1. _sext58(a) \in Byte
  <2>1. a % 32 \in Int /\ 0 <= a % 32 /\ a % 32 <= 31
    BY ByteRange
  <2> QED BY <2>1, ByteRange DEF _sext58
<1>2. _sext816(a) \in Word
  BY ByteRange, WordRange DEF _sext816
<1> QED BY <1>1, <1>2

-----------------------------------------------------------------------------
(***************************************************************************)
(* The machine keeps its types, one field after the other.                 *)
(***************************************************************************)
LEMMA FieldsOfMachine ==
  ASSUME NEW m, IsMachine(m)
  PROVE  /\ m.a \in Byte /\ m.b \in Byte /\ m.dp \in Byte
         /\ m.x \in Word /\ m.y \in Word /\ m.u \in Word /\ m.s \in Word /\ m.pc \in Word
         /\ m.cc \in SUBSET CcFlag /\ m.irq \in SUBSET IrqFlag /\ m.trap \in SUBSET TrapFlag
         /\ m.ok \in BOOLEAN /\ m.crashed \in BOOLEAN /\ IsMemory(m.mem)
         /\ m.rbr \in Byte /\ m.thr \in Byte /\ m.lcr \in Byte
         /\ m.lsr \in SUBSET Weight /\ m.ier \in SUBSET Weight /\ m.iir \in SUBSET Weight
BY DEF IsMachine

LEMMA NamedTypes ==
  ASSUME NEW m, IsMachine(m)
  PROVE  /\ \A reg \in Register8 : m[reg] \in Byte
         /\ \A reg \in Register16 : m[reg] \in Word
BY FieldsOfMachine DEF Register8, Register16

LEMMA Put8 ==
  ASSUME NEW m, IsMachine(m), NEW value \in Byte
  PROVE  /\ IsMachine([m EXCEPT !.a = value]) /\ IsMachine([m EXCEPT !.b = value])
         /\ IsMachine([m EXCEPT !.dp = value]) /\ IsMachine([m EXCEPT !.thr = value])
         /\ IsMachine([m EXCEPT !.lcr = value])
BY DEF IsMachine

LEMMA Put16 ==
  ASSUME NEW m, IsMachine(m), NEW value \in Word
  PROVE  /\ IsMachine([m EXCEPT !.x = value]) /\ IsMachine([m EXCEPT !.y = value])
         /\ IsMachine([m EXCEPT !.u = value]) /\ IsMachine([m EXCEPT !.s = value])
         /\ IsMachine([m EXCEPT !.pc = value])
BY DEF IsMachine

LEMMA PutSets ==
  ASSUME NEW m, IsMachine(m), NEW codes \in SUBSET CcFlag, NEW requests \in SUBSET IrqFlag,
         NEW bits \in SUBSET Weight
  PROVE  /\ IsMachine([m EXCEPT !.cc = codes]) /\ IsMachine([m EXCEPT !.irq = requests])
         /\ IsMachine([m EXCEPT !.lsr = bits]) /\ IsMachine([m EXCEPT !.ier = bits])
BY DEF IsMachine

LEMMA PutNamed8 ==
  ASSUME NEW m, IsMachine(m), NEW reg \in Register8, NEW value \in Byte
  PROVE  IsMachine([m EXCEPT ![reg] = value])
BY Put8 DEF Register8

LEMMA PutNamed16 ==
  ASSUME NEW m, IsMachine(m), NEW reg \in Register16, NEW value \in Word
  PROVE  IsMachine([m EXCEPT ![reg] = value])
BY Put16 DEF Register16

(* Everything else that _errorexit and _eaindexed write. *)
LEMMA ErrorTypes ==
  ASSUME NEW m, IsMachine(m)
  PROVE  /\ IsMachine(_errorexit(m)) /\ IsMachine([m EXCEPT !.ok = FALSE])
         /\ IsMachine([_errorexit(m) EXCEPT !.crashed = TRUE])
<1>1. {tc_trap} \in SUBSET TrapFlag
  BY DEF TrapFlag
<1> QED BY <1>1 DEF IsMachine, _errorexit

-----------------------------------------------------------------------------
(***************************************************************************)
(* Memory.                                                                 *)
(***************************************************************************)
Cells == 0..(UINT16_MAX + 1)

LEMMA CellRange == \A addr : addr \in Cells <=> addr \in Int /\ 0 <= addr /\ addr <= 65536
<1>1. UINT16_MAX + 1 \in Int
  BY DEF UINT16_MAX
<1>2. \A addr : addr \in Cells <=> addr \in Int /\ 0 <= addr /\ addr <= UINT16_MAX + 1
  BY <1>1, Interval DEF Cells
<1>3. UINT16_MAX = 65535
  BY DEF UINT16_MAX
<1> QED BY <1>2, <1>3

LEMMA WrittenTypes ==
  ASSUME NEW mem, IsMemory(mem), NEW addr \in Cells, NEW data \in Byte
  PROVE  IsMemory(Written(mem, addr, data))
BY DEF IsMemory, Written, Cells

LEMMA StoreTypes ==
  ASSUME NEW m, IsMachine(m), NEW addr \in Cells, NEW data \in Byte
  PROVE  IsMachine(Store(m, addr, data))
<1>1. IsMemory(Written(m.mem, addr, data))
  BY WrittenTypes DEF IsMachine
<1> QED BY <1>1 DEF IsMachine, Store

LEMMA CellTypes ==
  ASSUME NEW m, IsMachine(m), NEW addr
  PROVE  Cell(m, addr) \in Byte
BY ByteRange DEF IsMachine, IsMemory, Cell

LEMMA ReadTypes ==
  ASSUME NEW m, IsMachine(m), NEW addr
  PROVE  mem_rd8(m, addr) \in Byte /\ IsMachine(AfterRd8(m, addr))
<1>1. mem_rd8(m, addr) \in Byte
  BY FieldsOfMachine, CellTypes, ByteOfIsByte DEF mem_rd8
<1>2. tio_read_rbr(m.lsr) \in SUBSET Weight
  BY FieldsOfMachine DEF tio_read_rbr
<1> QED BY <1>1, <1>2, PutSets DEF AfterRd8

LEMMA WriteTypes ==
  ASSUME NEW m, IsMachine(m), NEW addr \in Cells, NEW data \in Byte
  PROVE  IsMachine(mem_wr8(m, addr, data))
<1>1. tio_write_thr(m.lsr) \in SUBSET Weight
  BY FieldsOfMachine DEF tio_write_thr
<1>2. IsMachine([m EXCEPT !.thr = data, !.lsr = tio_write_thr(@)])
  BY <1>1 DEF IsMachine
<1>3. IsMachine([m EXCEPT !.ier = Bits(data)])
  BY BitsAreWeights, PutSets
<1>4. IsMachine([Store(m, addr, data) EXCEPT !.lcr = data])
  BY StoreTypes, Put8
<1> QED BY <1>2, <1>3, <1>4, StoreTypes DEF mem_wr8

LEMMA WideReadTypes ==
  ASSUME NEW m, IsMachine(m), NEW addr
  PROVE  mem_rd16(m, addr) \in Word
BY CellTypes, ByteRange, WordRange DEF mem_rd16

LEMMA WideWriteTypes ==
  ASSUME NEW m, IsMachine(m), NEW addr \in Word, NEW data \in Word
  PROVE  IsMachine(mem_wr16(m, addr, data))
<1>1. data \div 256 \in Byte /\ data % 256 \in Byte
  BY ByteRange, WordRange
<1>2. addr \in Cells /\ addr + 1 \in Cells
  BY CellRange, WordRange
<1> QED BY <1>1, <1>2, StoreTypes DEF mem_wr16

-----------------------------------------------------------------------------
(***************************************************************************)
(* Registers by name, and the stack.                                       *)
(***************************************************************************)
Wide   == Register16 \cup {"d"}
Narrow == Register8 \cup {"cc"}

LEMMA WideIsWide ==
  ASSUME NEW reg \in Wide \cup Narrow PROVE IsWide(reg) <=> reg \in Wide
BY DEF IsWide, Wide, Narrow, Register8, Register16

LEMMA NamesDiffer ==
  ASSUME NEW reg \in Register8 \cup Register16
  PROVE  reg # "d" /\ reg # "cc"
BY DEF Register8, Register16

LEMMA GetTypes ==
  ASSUME NEW m, IsMachine(m)
  PROVE  /\ \A reg \in Wide : Get(m, reg) \in Word
         /\ \A reg \in Narrow : Get(m, reg) \in Byte
<1>1. 256 * m.a + m.b \in Word
  BY FieldsOfMachine, ByteRange, WordRange
<1>2. \A reg \in Register8 \cup Register16 : Get(m, reg) = m[reg]
  BY NamesDiffer DEF Get
<1>3. \A reg \in Register16 : Get(m, reg) \in Word
  BY <1>2, NamedTypes
<1>4. \A reg \in Register8 : Get(m, reg) \in Byte
  BY <1>2, NamedTypes
<1> QED BY <1>1, <1>3, <1>4, ByteOfIsByte DEF Get, Wide, Narrow

LEMMA PutTypes ==
  ASSUME NEW m, IsMachine(m), NEW value
  PROVE  /\ \A reg \in Wide : value \in Word => IsMachine(Put(m, reg, value))
         /\ \A reg \in Narrow : value \in Byte => IsMachine(Put(m, reg, value))
<1>1. ASSUME NEW high \in Byte, NEW low \in Byte
      PROVE  IsMachine([m EXCEPT !.a = high, !.b = low])
  BY DEF IsMachine
<1>2. value \in Word => value \div 256 \in Byte /\ value % 256 \in Byte
  BY ByteRange, WordRange
<1>3. value \in Word => IsMachine(Put(m, "d", value))
  BY <1>1, <1>2 DEF Put
<1>4. IsMachine(Put(m, "cc", value))
  BY BitsAreWeights, FlagsAreWeights, PutSets DEF Put
<1>5. \A reg \in Register8 \cup Register16 : Put(m, reg, value) = [m EXCEPT ![reg] = value]
  BY NamesDiffer DEF Put
<1>6. \A reg \in Register16 : value \in Word => IsMachine(Put(m, reg, value))
  BY <1>5, PutNamed16
<1>7. \A reg \in Register8 : value \in Byte => IsMachine(Put(m, reg, value))
  BY <1>5, PutNamed8
<1> QED BY <1>3, <1>4, <1>6, <1>7 DEF Wide, Narrow

LEMMA PushTypes ==
  ASSUME NEW m, IsMachine(m), NEW st \in {"s", "u"}, NEW reg \in Wide \cup Narrow
  PROVE  IsMachine(Push(m, st, reg))
<1>1. Wrap(m[st] - 1) \in Word /\ Wrap(m[st] - 2) \in Word
  BY FieldsOfMachine, Cuts, WordRange
<1>2. /\ IsMachine([m EXCEPT ![st] = Wrap(m[st] - 1)])
      /\ IsMachine([m EXCEPT ![st] = Wrap(m[st] - 2)])
  BY <1>1, PutNamed16 DEF Register16
<1>3. Wrap(m[st] - 1) \in Cells
  BY <1>1, CellRange, WordRange
<1> QED BY <1>1, <1>2, <1>3, GetTypes, WideIsWide, WriteTypes, WideWriteTypes DEF Push

LEMMA PullTypes ==
  ASSUME NEW m, IsMachine(m), NEW st \in {"s", "u"}, NEW reg \in Wide \cup Narrow
  PROVE  IsMachine(Pull(m, st, reg))
<1>1. ASSUME NEW n, IsMachine(n)
      PROVE  IsMachine([n EXCEPT ![st] = Wrap(@ + 1)]) /\ IsMachine([n EXCEPT ![st] = Wrap(@ + 2)])
  <2>1. Wrap(n[st] + 1) \in Word /\ Wrap(n[st] + 2) \in Word
    BY <1>1, FieldsOfMachine, Cuts, WordRange
  <2> QED BY <1>1, <2>1, PutNamed16 DEF Register16
<1>2. CASE reg \in Wide
  <2>1. IsMachine(Put(m, reg, mem_rd16(m, m[st])))
    BY <1>2, WideReadTypes, PutTypes
  <2> QED BY <1>1, <1>2, <2>1, WideIsWide DEF Pull
<1>3. CASE reg \in Narrow
  <2>1. IsMachine(Put(AfterRd8(m, m[st]), reg, mem_rd8(m, m[st])))
    BY <1>3, ReadTypes, PutTypes
  <2>2. reg \notin Wide
    BY <1>3 DEF Wide, Narrow, Register8, Register16
  <2> QED BY <1>1, <2>1, <2>2, WideIsWide DEF Pull
<1> QED BY <1>2, <1>3

LEMMA NamedIsRegister ==
  ASSUME NEW reg \in Weighed, NEW other \in {"s", "u"}
  PROVE  Named(reg, other) \in Wide \cup Narrow
BY DEF Weighed, Named, Wide, Narrow, Register8, Register16

LEMMA PushRegsTypes ==
  ASSUME NEW m, IsMachine(m), NEW mask, NEW st \in {"s", "u"}, NEW other \in {"s", "u"}
  PROVE  /\ IsMachine(_pushregs(m, mask, st, other))
         /\ IsMachine(_pullregs(m, mask, st, other))
<1>1. ASSUME NEW n, IsMachine(n), NEW reg \in Weighed
      PROVE  /\ IsMachine(PushOne(n, mask, st, reg, other))
             /\ IsMachine(PullOne(n, mask, st, reg, other))
  BY <1>1, NamedIsRegister, PushTypes, PullTypes DEF PushOne, PullOne
<1>2. {"cc", "a", "b", "dp", "x", "y", "us", "pc"} = Weighed
  BY DEF Weighed
<1> QED BY <1>1, <1>2 DEF _pushregs, _pullregs

LEMMA StateTypes ==
  ASSUME NEW m, IsMachine(m)
  PROVE  /\ IsMachine(_pushfast(m)) /\ IsMachine(_pushstate(m)) /\ IsMachine(_pullstate(m))
<1>1. m.cc \ {cc_e} \in SUBSET CcFlag /\ m.cc \cup {cc_e} \in SUBSET CcFlag
  BY FieldsOfMachine, FlagNames
<1>2. /\ IsMachine([m EXCEPT !.cc = @ \ {cc_e}]) /\ IsMachine([m EXCEPT !.cc = @ \cup {cc_e}])
  BY <1>1, PutSets
<1> QED BY <1>2, PushRegsTypes DEF _pushfast, _pushstate, _pullstate

LEMMA CallTypes ==
  ASSUME NEW m, IsMachine(m), NEW ea \in Word
  PROVE  IsMachine(Call(m, ea)) /\ IsMachine(_jump(m, ea)) /\ IsMachine(Pull(m, "s", "pc"))
<1>1. "pc" \in Wide \cup Narrow
  BY DEF Wide, Register16
<1> QED BY <1>1, PushTypes, PullTypes, Put16 DEF Call, _jump

LEMMA TransferTypes ==
  ASSUME NEW m, IsMachine(m), NEW post, NEW swap \in BOOLEAN
  PROVE  IsMachine(_transfer(m, post, swap))
<1> DEFINE src == _register(post \div 16)
           dst == _register(post % 16)
<1>1. \A nr : _register(nr) \in Wide \cup Narrow \cup {"none"}
  BY DEF _register, Wide, Narrow, Register8, Register16
<1>2. ASSUME NEW n, IsMachine(n), NEW reg \in Wide \cup Narrow
      PROVE  Widened(n, reg) \in Word
  <2>1. \A byte \in Byte : 257 * byte \in Word
    BY ByteRange, WordRange
  <2> QED BY <1>2, <2>1, GetTypes, WideIsWide DEF Widened
<1>3. ASSUME NEW n, IsMachine(n), NEW reg \in Wide \cup Narrow, NEW value \in Word
      PROVE  IsMachine(PutNarrowed(n, reg, value))
  <2>1. value % 256 \in Byte
    BY Cuts, WordRange
  <2> QED BY <1>3, <2>1, PutTypes, WideIsWide DEF PutNarrowed
<1>4. src \in Wide \cup Narrow \cup {"none"} /\ dst \in Wide \cup Narrow \cup {"none"}
  BY <1>1
<1>5. _transfer(m, post, swap)
        = IF "none" \in {src, dst} THEN [_errorexit(m) EXCEPT !.crashed = TRUE]
          ELSE PutNarrowed(IF swap THEN PutNarrowed(m, src, Widened(m, dst)) ELSE m,
                           dst, Widened(m, src))
  BY DEF _transfer
<1> HIDE DEF src, dst
<1>6. CASE "none" \in {src, dst}
  BY <1>5, <1>6, ErrorTypes
<1>7. CASE "none" \notin {src, dst}
  <2>1. src \in Wide \cup Narrow /\ dst \in Wide \cup Narrow
    BY <1>4, <1>7
  <2>2. Widened(m, src) \in Word /\ Widened(m, dst) \in Word
    BY <1>2, <2>1
  <2>3. IsMachine(IF swap THEN PutNarrowed(m, src, Widened(m, dst)) ELSE m)
    BY <1>3, <2>1, <2>2
  <2> QED BY <1>3, <1>5, <1>7, <2>1, <2>2, <2>3
<1> QED BY <1>6, <1>7

-----------------------------------------------------------------------------
(***************************************************************************)
(* Effective addresses: an address, and a machine.                         *)
(***************************************************************************)
IsOperand(out) == out.val \in Word /\ IsMachine(out.m)

LEMMA FetchTypes ==
  ASSUME NEW m, IsMachine(m)
  PROVE  /\ Fetch(m).val \in Byte /\ IsMachine(Fetch(m).m) /\ IsOperand(Fetch16(m))
<1>1. ASSUME NEW n, IsMachine(n), NEW by \in {1, 2} PROVE IsMachine([n EXCEPT !.pc = Wrap(@ + by)])
  <2>1. Wrap(n.pc + by) \in Word
    BY <1>1, FieldsOfMachine, Cuts, WordRange
  <2> QED BY <1>1, <2>1, Put16
<1> QED BY <1>1, ReadTypes, WideReadTypes DEF Fetch, Fetch16, IsOperand

LEMMA InherentTypes == ASSUME NEW m, IsMachine(m) PROVE IsOperand(Inherent(m))
<1>1. EYECATCHER_16 \in Word
  BY WordRange DEF EYECATCHER_16
<1> QED BY <1>1 DEF IsOperand, Inherent

LEMMA SkipTypes ==
  ASSUME NEW m, IsMachine(m), NEW reg \in Register16, NEW by \in Int
  PROVE  IsMachine([m EXCEPT ![reg] = Wrap(@ + by)]) /\ Wrap(m[reg] + by) \in Word
<1>1. m[reg] \in Word
  BY NamedTypes
<1>2. m[reg] \in Int
  BY <1>1, WordRange
<1>3. Wrap(m[reg] + by) \in Word
  BY <1>2, Cuts
<1> QED BY <1>3, PutNamed16

LEMMA DirectTypes == ASSUME NEW m, IsMachine(m) PROVE IsOperand(_eadirect(m))
<1>1. 256 * m.dp + Fetch(m).val \in Word
  BY FieldsOfMachine, FetchTypes, ByteRange, WordRange
<1> QED BY <1>1, FetchTypes DEF _eadirect, IsOperand, Fetch

LEMMA IndexedBaseTypes ==
  ASSUME NEW m, IsMachine(m), NEW post \in Byte
  PROVE  IsOperand(IndexedBase(m, post))
<1> DEFINE reg == <<"x", "y", "u", "s">>[((post \div 32) % 4) + 1]
           at(ofs) == [val |-> Wrap(m[reg] + ofs), m |-> m]
           step(by) == [m EXCEPT ![reg] = Wrap(@ + by)]
           byte == Fetch(m)
           word == Fetch16(m)
<1>1. reg \in Register16
  <2>1. ((post \div 32) % 4) + 1 \in 1..4
    BY ByteRange
  <2> QED BY <2>1 DEF Register16
<1>2. m[reg] \in Word
  BY <1>1, NamedTypes
<1> HIDE DEF reg
<1>3. ASSUME NEW ofs \in Int PROVE IsOperand(at(ofs))
  BY <1>1, SkipTypes DEF IsOperand
<1>4. _sext816(_sext58(post)) \in Int /\ _sext816(m.b) \in Int /\ _sext816(m.a) \in Int
      /\ _sext816(byte.val) \in Int /\ Get(m, "d") \in Int
  BY ExtendTypes, FieldsOfMachine, FetchTypes, GetTypes, WordRange DEF Wide
<1>5. ASSUME NEW by \in Int
      PROVE  IsMachine(step(by)) /\ step(by)[reg] \in Word
  <2>1. IsMachine(step(by))
    BY <1>1, SkipTypes
  <2> HIDE DEF step
  <2> QED BY <1>1, <2>1, NamedTypes
<1>6. byte.val \in Byte /\ IsMachine(byte.m) /\ word.val \in Word /\ IsMachine(word.m)
  BY FetchTypes DEF IsOperand
<1>7. /\ Wrap(byte.m.pc + _sext816(byte.val)) \in Word
      /\ Wrap(word.m.pc + word.val) \in Word
      /\ Wrap(m[reg] + word.val) \in Word /\ Wrap(m[reg] + _sext816(byte.val)) \in Word
  BY <1>2, <1>4, <1>6, FieldsOfMachine, Cuts, WordRange
<1>8. IsMachine([m EXCEPT !.pc = Wrap(@ + 1)]) /\ IsMachine([m EXCEPT !.ok = FALSE])
  <2>1. "pc" \in Register16
    BY DEF Register16
  <2>2. IsMachine([m EXCEPT !["pc"] = Wrap(@ + 1)])
    BY <2>1, SkipTypes
  <2> QED BY <2>2, ErrorTypes
<1> DEFINE mode == post % 16
<1>9. IndexedBase(m, post) =
        IF post < 128 THEN at(_sext816(_sext58(post)))
        ELSE CASE mode = 0  -> [val |-> m[reg], m |-> step(1)]
               [] mode = 1  -> [val |-> m[reg], m |-> step(2)]
               [] mode = 2  -> [val |-> step(-1)[reg], m |-> step(-1)]
               [] mode = 3  -> [val |-> step(-2)[reg], m |-> step(-2)]
               [] mode = 4  -> at(0)
               [] mode = 5  -> at(_sext816(m.b))
               [] mode = 6  -> at(_sext816(m.a))
               [] mode = 8  -> [val |-> Wrap(m[reg] + _sext816(byte.val)), m |-> byte.m]
               [] mode = 9  -> [val |-> Wrap(m[reg] + word.val), m |-> [m EXCEPT !.pc = Wrap(@ + 1)]]
               [] mode = 11 -> at(Get(m, "d"))
               [] mode = 12 -> [val |-> Wrap(byte.m.pc + _sext816(byte.val)), m |-> byte.m]
               [] mode = 13 -> [val |-> Wrap(word.m.pc + word.val), m |-> word.m]
               [] mode = 15 -> word
               [] OTHER     -> Inherent([m EXCEPT !.ok = FALSE])
  BY DEF IndexedBase, reg
<1>10. /\ IsOperand(at(_sext816(_sext58(post)))) /\ IsOperand(at(0))
       /\ IsOperand(at(_sext816(m.b))) /\ IsOperand(at(_sext816(m.a)))
       /\ IsOperand(at(Get(m, "d")))
  BY <1>3, <1>4
<1>11. /\ IsOperand([val |-> m[reg], m |-> step(1)]) /\ IsOperand([val |-> m[reg], m |-> step(2)])
       /\ IsOperand([val |-> step(-1)[reg], m |-> step(-1)])
       /\ IsOperand([val |-> step(-2)[reg], m |-> step(-2)])
  <2> HIDE DEF step
  <2> QED BY <1>2, <1>5 DEF IsOperand
<1>12. /\ IsOperand([val |-> Wrap(m[reg] + _sext816(byte.val)), m |-> byte.m])
       /\ IsOperand([val |-> Wrap(m[reg] + word.val), m |-> [m EXCEPT !.pc = Wrap(@ + 1)]])
       /\ IsOperand([val |-> Wrap(byte.m.pc + _sext816(byte.val)), m |-> byte.m])
       /\ IsOperand([val |-> Wrap(word.m.pc + word.val), m |-> word.m])
       /\ IsOperand(word) /\ IsOperand(Inherent([m EXCEPT !.ok = FALSE]))
  <2> HIDE DEF byte, word
  <2> QED BY <1>6, <1>7, <1>8, InherentTypes DEF IsOperand
<1> HIDE DEF mode, at, step, byte, word
<1> QED BY <1>9, <1>10, <1>11, <1>12

LEMMA AddressTypes ==
  ASSUME NEW m, IsMachine(m), NEW opc
  PROVE  IsOperand(_eafromopc(m, opc))
<1>1. IsOperand(_eaindexed(m))
  <2> DEFINE post == Fetch(m)
             base == IndexedBase(post.m, post.val)
  <2>1. IsOperand(base)
    BY FetchTypes, IndexedBaseTypes
  <2>2. IsOperand([base EXCEPT !.val = mem_rd16(base.m, @)])
    BY <2>1, WideReadTypes DEF IsOperand
  <2> QED BY <2>1, <2>2 DEF _eaindexed
<1>2. ASSUME NEW n \in {1, 2}
      PROVE  IsOperand(_eaimmediate(m, n)) /\ IsOperand(_earelative(m, n))
  <2>1. IsMachine(AfterRd8(m, m.pc)) /\ mem_rd16(m, m.pc) \in Word
        /\ _sext816(mem_rd8(m, m.pc)) \in Word /\ m.pc \in Word
    BY ReadTypes, WideReadTypes, ExtendTypes, FieldsOfMachine
  <2>2. \A machine : IsMachine(machine) => IsMachine([machine EXCEPT !.pc = Wrap(@ + n)])
    BY SkipTypes DEF Register16
  <2>3. \A ofs \in Word : Wrap(m.pc + n + ofs) \in Word
    BY <2>1, Cuts, WordRange
  <2> QED BY <2>1, <2>2, <2>3 DEF _eaimmediate, _earelative, IsOperand
<1> QED BY <1>1, <1>2, DirectTypes, InherentTypes, FetchTypes DEF _eafromopc, _eaextended

-----------------------------------------------------------------------------
(***************************************************************************)
(* Instructions, group by group.                                           *)
(***************************************************************************)
LEMMA OutTypes ==
  ASSUME NEW m, IsMachine(m), NEW out, out.cc \in SUBSET CcFlag
  PROVE  /\ IsMachine(WithCc(m, out.cc))
         /\ \A reg \in Register8 : out.val \in Byte => IsMachine(PutOut(m, reg, out))
         /\ out.val \in Word => IsMachine(PutOut(m, "d", out))
<1>1. IsMachine([m EXCEPT !.cc = out.cc])
  BY PutSets
<1>2. Register8 \subseteq Narrow /\ "d" \in Wide
  BY DEF Narrow, Wide
<1> QED BY <1>1, <1>2, PutTypes DEF WithCc, PutOut

LEMMA AccumulatorIsRegister == \A opc : Accumulator(opc) \in Register8
BY DEF Accumulator, Register8

LEMMA Operation8Types ==
  ASSUME NEW m, IsMachine(m), NEW opc, Nibble(opc) \in Operations8, NEW ea
  PROVE  IsMachine(ExecOperation8(m, opc, ea))
<1>1. ASSUME NEW a \in Byte, NEW b \in Byte PROVE IsOut8(Operate8(Nibble(opc), m.cc, a, b))
  <2>1. m.cc \in SUBSET CcFlag
    BY FieldsOfMachine
  <2> QED BY <2>1, AddTypes, LogicTypes DEF Operate8, Operations8
<1>2. m[Accumulator(opc)] \in Byte /\ mem_rd8(m, ea) \in Byte /\ IsMachine(AfterRd8(m, ea))
  BY AccumulatorIsRegister, NamedTypes, ReadTypes
<1>3. IsOut8(Operate8(Nibble(opc), m.cc, m[Accumulator(opc)], mem_rd8(m, ea)))
  BY <1>1, <1>2
<1> QED BY <1>2, <1>3, OutTypes, AccumulatorIsRegister DEF ExecOperation8, IsOut8

LEMMA Store8Types ==
  ASSUME NEW m, IsMachine(m), NEW opc, NEW ea \in Word
  PROVE  IsMachine(ExecStore8(m, opc, ea))
<1>1. m[Accumulator(opc)] \in Byte /\ ea \in Cells
  BY AccumulatorIsRegister, NamedTypes, CellRange, WordRange
<1>2. IsMachine(mem_wr8(m, ea, m[Accumulator(opc)]))
  BY <1>1, WriteTypes
<1>3. _flags_nz_v8(m.cc, m[Accumulator(opc)]) \in SUBSET CcFlag
  BY SizedFlags, FieldsOfMachine
<1> QED BY <1>2, <1>3, PutSets DEF ExecStore8, WithCc

LEMMA ModifyTypes ==
  ASSUME NEW m, IsMachine(m), NEW opc, Nibble(opc) \in Modifications, NEW ea \in Word
  PROVE  IsMachine(ExecModifyReg(m, opc)) /\ IsMachine(ExecModifyMem(m, opc, ea))
<1>1. m.cc \in SUBSET CcFlag /\ 0 \in Byte
  BY FieldsOfMachine, ByteRange
<1>2. Affect(m.cc, {cc_n, cc_z, cc_v, cc_c}, {cc_z}) \in SUBSET CcFlag
  BY <1>1, AffectKeepsFlags, FlagNames
<1>3. ASSUME NEW value \in Byte PROVE IsOut8(Modify(Nibble(opc), m.cc, value))
  <2>1. IsOut8(_subf8(m.cc, 0, value)) /\ IsOut8(lo_com(m.cc, value))
        /\ IsOut8(_decf8(m.cc, value)) /\ IsOut8(_incf8(m.cc, value))
    BY <1>1, AddTypes, LogicTypes, CountTypes
  <2>2. /\ sh_left(value) \in Byte /\ sh_right(value) \in Byte /\ sh_aright(value) \in Byte
        /\ rot_left(m.cc, value) \in Byte /\ rot_right(m.cc, value) \in Byte
    BY ShiftTypes
  <2> QED BY <1>1, <1>2, <2>1, <2>2 DEF Modify, Modifications, IsOut8
<1>4. IsMachine(ExecModifyReg(m, opc))
  <2>1. ASSUME NEW reg \in Register8 PROVE IsMachine(PutOut(m, reg, Modify(Nibble(opc), m.cc, m[reg])))
    BY <1>3, NamedTypes, OutTypes DEF IsOut8
  <2> QED BY <2>1 DEF ExecModifyReg, Register8
<1>5. IsMachine(ExecModifyMem(m, opc, ea))
  <2> DEFINE n   == IF Nibble(opc) = 15 THEN m ELSE AfterRd8(m, ea)
             out == Modify(Nibble(opc), m.cc, mem_rd8(m, ea))
  <2>1. IsMachine(n) /\ IsOut8(out)
    BY <1>3, ReadTypes
  <2>2. ea \in Cells
    BY CellRange, WordRange
  <2>3. ExecModifyMem(m, opc, ea) = WithCc(mem_wr8(n, ea, out.val), out.cc)
    BY DEF ExecModifyMem
  <2> HIDE DEF n, out
  <2>4. IsMachine(mem_wr8(n, ea, out.val)) /\ out.cc \in SUBSET CcFlag
    BY <2>1, <2>2, WriteTypes DEF IsOut8
  <2> QED BY <2>3, <2>4, OutTypes
<1> QED BY <1>4, <1>5

LEMMA Wide16Types ==
  ASSUME NEW m, IsMachine(m), NEW reg \in Wide, NEW ea \in Word
  PROVE  /\ IsMachine(ExecLoad16(m, reg, ea)) /\ IsMachine(ExecStore16(m, reg, ea))
         /\ IsMachine(ExecCmp16(m, reg, ea))
<1>1. m.cc \in SUBSET CcFlag /\ mem_rd16(m, ea) \in Word /\ Get(m, reg) \in Word
  BY FieldsOfMachine, WideReadTypes, GetTypes
<1>2. IsMachine(Put(m, reg, mem_rd16(m, ea))) /\ IsMachine(mem_wr16(m, ea, Get(m, reg)))
  BY <1>1, PutTypes, WideWriteTypes
<1>3. IsMachine(ExecLoad16(m, reg, ea))
  BY <1>1, <1>2, SizedFlags, PutSets DEF ExecLoad16, WithCc
<1>4. IsMachine(ExecStore16(m, reg, ea))
  BY <1>1, <1>2, SizedFlags, PutSets DEF ExecStore16, WithCc
<1>5. IsMachine(ExecCmp16(m, reg, ea))
  BY <1>1, WideTypes, PutSets DEF ExecCmp16, WithCc, IsOut16
<1> QED BY <1>3, <1>4, <1>5

LEMMA WideRegisters ==
  ASSUME NEW page, NEW row
  PROVE  /\ Load16(page, row) # "none" => Load16(page, row) \in Wide
         /\ Store16(page, row) # "none" => Store16(page, row) \in Wide
         /\ Cmp16(page, row) # "none" => Cmp16(page, row) \in Wide
<1>1. {"d", "x", "y", "u", "s"} \subseteq Wide
  BY DEF Wide, Register16
<1>2. Load16(page, row) \in {"d", "x", "y", "u", "s", "none"}
  BY DEF Load16
<1>3. Store16(page, row) \in {"d", "x", "y", "u", "s", "none"}
  BY DEF Store16
<1>4. Cmp16(page, row) \in {"d", "x", "y", "u", "s", "none"}
  BY DEF Cmp16
<1> QED BY <1>1, <1>2, <1>3, <1>4

LEMMA ArithmeticD ==
  ASSUME NEW m, IsMachine(m), NEW ea
  PROVE  /\ IsMachine(PutOut(m, "d", _subf16(m.cc, Get(m, "d"), mem_rd16(m, ea))))
         /\ IsMachine(PutOut(m, "d", _addf16(m.cc, Get(m, "d"), mem_rd16(m, ea))))
<1>1. "d" \in Wide
  BY DEF Wide
<1>2. m.cc \in SUBSET CcFlag /\ mem_rd16(m, ea) \in Word /\ Get(m, "d") \in Word
  BY <1>1, FieldsOfMachine, WideReadTypes, GetTypes
<1> QED BY <1>2, WideTypes, OutTypes DEF IsOut16

LEMMA LeaTypes ==
  ASSUME NEW m, IsMachine(m), NEW opc \in 48..51, NEW ea \in Word
  PROVE  IsMachine(ExecLea(m, opc, ea))
<1> DEFINE reg == <<"x", "y", "s", "u">>[Nibble(opc) + 1]
<1>1. reg \in Register16
  BY DEF Register16, Nibble
<1>2. IsMachine([m EXCEPT ![reg] = ea])
  BY <1>1, PutNamed16
<1>3. _flags_z16(m.cc, ea) \in SUBSET CcFlag
  BY FieldsOfMachine, SizedFlags
<1> HIDE DEF reg
<1> QED BY <1>2, <1>3, PutSets DEF ExecLea, WithCc, reg

LEMMA StackTypes ==
  ASSUME NEW m, IsMachine(m), NEW opc \in 52..55, NEW ea
  PROVE  IsMachine(ExecStack(m, opc, ea))
BY ReadTypes, PushRegsTypes DEF ExecStack

LEMMA CcTypes ==
  ASSUME NEW m, IsMachine(m), NEW opc, NEW ea
  PROVE  IsMachine(ExecCc(m, opc, ea))
<1>1. Bits(mem_rd8(m, ea)) \in SUBSET CcFlag /\ m.cc \in SUBSET CcFlag
  BY BitsAreWeights, FlagsAreWeights, FieldsOfMachine
<1> QED BY <1>1, ReadTypes, PutSets DEF ExecCc, WithCc

LEMMA RegisterTypes ==
  ASSUME NEW m, IsMachine(m), NEW opc \in {18, 25, 29, 58, 61}
  PROVE  IsMachine(ExecRegister(m, opc))
<1>1. "a" \in Register8 /\ "d" \in Wide /\ m.a \in Byte /\ m.b \in Byte /\ m.x \in Word
      /\ m.cc \in SUBSET CcFlag
  BY FieldsOfMachine DEF Register8, Wide
<1>2. IsMachine(PutOut(m, "a", _decadja(m.cc, m.a)))
  <2>1. IsOut8(_decadja(m.cc, m.a))
    BY <1>1, CountTypes
  <2> QED BY <1>1, <2>1, OutTypes DEF IsOut8
<1>3. IsMachine(WithCc(Put(m, "d", _sext816(m.a)), _flags_nz_v16(m.cc, _sext816(m.a))))
  BY <1>1, ExtendTypes, PutTypes, SizedFlags, PutSets DEF WithCc
<1>4. IsMachine([m EXCEPT !.x = Wrap(@ + m.a)])
  <2>1. Wrap(m.x + m.a) \in Word
    BY <1>1, Cuts, ByteRange, WordRange
  <2> QED BY <2>1, Put16
<1>5. IsMachine(Put(m, "d", _mulf8(m.a, m.b)))
  <2>1. ASSUME NEW a \in Byte, NEW b \in Byte PROVE _mulf8(a, b) \in Word
    <3>1. a \in Int /\ 0 <= a /\ a <= 255 /\ b \in Int /\ 0 <= b /\ b <= 255
      BY ByteRange
    <3>2. a * b \in Int /\ 0 <= a * b /\ a * b <= 255 * 255
      BY <3>1
    <3> QED BY <3>2, WordRange DEF _mulf8
  <2>2. _mulf8(m.a, m.b) \in Word
    BY <1>1, <2>1
  <2> QED BY <1>1, <2>2, PutTypes
<1> QED BY <1>2, <1>3, <1>4, <1>5 DEF ExecRegister

-----------------------------------------------------------------------------
(***************************************************************************)
(* The whole CPU.                                                          *)
(***************************************************************************)
LEMMA RequestTypes ==
  ASSUME NEW m, IsMachine(m), NEW flag \in IrqFlag
  PROVE  IsMachine(Request(m, flag))
<1>1. m.irq \cup {flag} \in SUBSET IrqFlag
  BY FieldsOfMachine
<1> QED BY <1>1, PutSets DEF Request

LEMMA IrqNames == {irq_rst, irq_irq, irq_firq, irq_nmi, irq_swi, irq_swi2, irq_swi3} = IrqFlag
BY DEF IrqFlag

LEMMA BranchTypes ==
  ASSUME NEW m, IsMachine(m), NEW opc, NEW ea \in Word
  PROVE  IsMachine(Branch(m, opc, ea))
BY CallTypes DEF Branch

LEMMA Page1Types ==
  ASSUME NEW m, IsMachine(m), NEW opc \in Byte, NEW ea \in Word
  PROVE  IsMachine(ExecPage1(m, opc, ea))
<1>1. Nibble(opc) \in Modifications =>
        IsMachine(ExecModifyMem(m, opc, ea)) /\ IsMachine(ExecModifyReg(m, opc))
  BY ModifyTypes
<1>2. IsMachine(_jump(m, ea)) /\ IsMachine(Call(m, ea)) /\ IsMachine(Branch(m, opc, ea))
      /\ IsMachine(Pull(m, "s", "pc")) /\ IsMachine(_pullstate(m)) /\ IsMachine(_errorexit(m))
      /\ IsMachine(Request(m, irq_swi))
  BY CallTypes, BranchTypes, StateTypes, ErrorTypes, RequestTypes, IrqNames
<1>3. opc \in {18, 25, 29, 58, 61} => IsMachine(ExecRegister(m, opc))
  BY RegisterTypes
<1>4. IsMachine(ExecCc(m, opc, ea))
  BY CcTypes
<1>5. IsMachine(_transfer(AfterRd8(m, ea), mem_rd8(m, ea), opc = 30))
  BY TransferTypes, ReadTypes
<1>6. opc \in 48..51 => IsMachine(ExecLea(m, opc, ea))
  BY LeaTypes
<1>7. opc \in 52..55 => IsMachine(ExecStack(m, opc, ea))
  BY StackTypes
<1>8. Nibble(opc) \in Operations8 => IsMachine(ExecOperation8(m, opc, ea))
  BY Operation8Types
<1>9. IsMachine(ExecStore8(m, opc, ea))
  BY Store8Types
<1>10. /\ IsLoad16(1, opc) => IsMachine(ExecLoad16(m, Load16(1, Row(opc)), ea))
       /\ IsStore16(1, opc) => IsMachine(ExecStore16(m, Store16(1, Row(opc)), ea))
       /\ IsCmp16(1, opc) => IsMachine(ExecCmp16(m, Cmp16(1, Row(opc)), ea))
  BY Wide16Types, WideRegisters DEF IsLoad16, IsStore16, IsCmp16
<1>11. /\ IsMachine(PutOut(m, "d", _subf16(m.cc, Get(m, "d"), mem_rd16(m, ea))))
       /\ IsMachine(PutOut(m, "d", _addf16(m.cc, Get(m, "d"), mem_rd16(m, ea))))
  BY ArithmeticD
<1> QED BY <1>1, <1>2, <1>3, <1>4, <1>5, <1>6, <1>7, <1>8, <1>9, <1>10, <1>11
        DEF ExecPage1

LEMMA Pages2And3Types ==
  ASSUME NEW m, IsMachine(m), NEW opc \in Byte, NEW ea \in Word
  PROVE  IsMachine(_execop_page2(m, opc, ea)) /\ IsMachine(_execop_page3(m, opc, ea))
<1>1. ASSUME NEW page
      PROVE  /\ IsLoad16(page, opc) => IsMachine(ExecLoad16(m, Load16(page, Row(opc)), ea))
             /\ IsStore16(page, opc) => IsMachine(ExecStore16(m, Store16(page, Row(opc)), ea))
             /\ IsCmp16(page, opc) => IsMachine(ExecCmp16(m, Cmp16(page, Row(opc)), ea))
  BY Wide16Types, WideRegisters DEF IsLoad16, IsStore16, IsCmp16
<1>2. IsMachine(Branch(m, opc, ea)) /\ IsMachine(_errorexit(m))
      /\ IsMachine(Request(m, irq_swi2)) /\ IsMachine(Request(m, irq_swi3))
  BY BranchTypes, ErrorTypes, RequestTypes, IrqNames
<1> QED BY <1>1, <1>2 DEF _execop_page2, _execop_page3

(* Whatever is in memory and in the registers, cpu_execop leaves in every  *)
(* register a value of its width, in every cell of memory a byte, and in   *)
(* cc and irq only flags there are: no instruction, no addressing mode and *)
(* no operand makes the registers wider than they are.                     *)
THEOREM InstructionsKeepMachine == \A m : IsMachine(m) => IsMachine(cpu_execop(m))
<1> SUFFICES ASSUME NEW m, IsMachine(m) PROVE IsMachine(cpu_execop(m))
  OBVIOUS
<1> DEFINE first  == Fetch(m)
           second == Fetch(first.m)
           ea1    == _eafromopc(first.m, first.val)
           ea2    == _eafromopc(second.m, second.val)
<1>1. first.val \in Byte /\ IsMachine(first.m)
  BY FetchTypes
<1>2. second.val \in Byte /\ IsMachine(second.m)
  BY <1>1, FetchTypes
<1>3. IsOperand(ea1) /\ IsOperand(ea2)
  BY <1>1, <1>2, AddressTypes
<1>4. cpu_execop(m) =
        CASE first.val = op_page2 -> _execop_page2(ea2.m, second.val, ea2.val)
        [] first.val = op_page3 -> _execop_page3(ea2.m, second.val, ea2.val)
        [] OTHER -> ExecPage1(ea1.m, first.val, ea1.val)
  BY DEF cpu_execop
<1> HIDE DEF first, second, ea1, ea2
<1> QED BY <1>1, <1>2, <1>3, <1>4, Page1Types, Pages2And3Types DEF IsOperand

(* The same for cpu_execirq: every request, and every program to serve it. *)
THEOREM InterruptsKeepMachine == \A m : IsMachine(m) => IsMachine(cpu_execirq(m))
<1> SUFFICES ASSUME NEW m, IsMachine(m) PROVE IsMachine(cpu_execirq(m))
  OBVIOUS
<1> DEFINE n == [m EXCEPT !.irq = IrqAfterService(m.irq, m.cc)]
           into(machine) == [machine EXCEPT !.pc = mem_rd16(machine, Vector(Serviced(m.irq, m.cc)))]
<1>1. IsMachine(n)
  <2>1. IrqAfterService(m.irq, m.cc) \in SUBSET IrqFlag
    BY FieldsOfMachine DEF IrqAfterService
  <2> QED BY <2>1, PutSets
<1>2. ASSUME NEW machine, IsMachine(machine) PROVE IsMachine(into(machine))
  BY <1>2, WideReadTypes, Put16
<1>3. IsMachine([n EXCEPT !.dp = 0])
  <2>1. 0 \in Byte
    BY ByteRange
  <2> HIDE DEF n
  <2> QED BY <1>1, <2>1, Put8
<1>4. IsMachine(_pushfast(n)) /\ IsMachine(_pushstate(n))
  BY <1>1, StateTypes
<1>5. cpu_execirq(m) \in {m, into([n EXCEPT !.dp = 0]), into(_pushfast(n)), into(_pushstate(n))}
  BY DEF cpu_execirq
<1> HIDE DEF n, into
<1> QED BY <1>2, <1>3, <1>4, <1>5

-----------------------------------------------------------------------------
(***************************************************************************)
(* What is pushed is pulled.  Machines are compared in their registers,    *)
(* those in free left out, and in the stack from st up to the UART.        *)
(***************************************************************************)
Field == Register8 \cup Register16 \cup {"cc"}

Alike(n, k, st, free) ==
  /\ \A field \in Field \ free : n[field] = k[field]
  /\ \A addr \in Int : k[st] <= addr /\ addr < TIO_BASE_ADDRESS => Cell(n, addr) = Cell(k, addr)

LEMMA InRam ==
  ASSUME NEW m, NEW addr \in Int, addr < TIO_BASE_ADDRESS, NEW data
  PROVE  /\ mem_rd8(m, addr) = Cell(m, addr) /\ AfterRd8(m, addr) = m
         /\ mem_wr8(m, addr, data) = Store(m, addr, data)
BY DEF mem_rd8, AfterRd8, mem_wr8, TIO_ADDR_RBR_THR, TIO_ADDR_LSR, TIO_ADDR_IER,
       TIO_ADDR_IIR, TIO_ADDR_LCR, TIO_BASE_ADDRESS

LEMMA StoreReads ==
  ASSUME NEW m, IsMachine(m), NEW addr, NEW data
  PROVE  /\ \A field \in Field : Store(m, addr, data)[field] = m[field]
         /\ \A cell : Cell(Store(m, addr, data), cell) = IF cell = addr THEN data ELSE Cell(m, cell)
<1>1. \A field \in Field : Store(m, addr, data)[field] = m[field]
  BY DEF Store, Field, Register8, Register16, IsMachine
<1>2. Store(m, addr, data).mem = Written(m.mem, addr, data)
  BY DEF Store, IsMachine
<1> QED BY <1>1, <1>2 DEF Cell, Written

LEMMA PutReads ==
  ASSUME NEW m, IsMachine(m), NEW reg \in Field, NEW value
  PROVE  /\ \A field \in Field \ {reg} : Put(m, reg, value)[field] = m[field]
         /\ Put(m, reg, value)[reg] = IF reg = "cc" THEN Bits(value) ELSE value
         /\ Put(m, reg, value).mem = m.mem
<1>1. reg # "d"
  BY DEF Field, Register8, Register16
<1>2. Put(m, reg, value) = [m EXCEPT ![reg] = IF reg = "cc" THEN Bits(value) ELSE value]
  BY <1>1 DEF Put
<1>3. reg \in DOMAIN m /\ Field \subseteq DOMAIN m /\ "mem" \in DOMAIN m /\ reg # "mem"
  BY DEF IsMachine, Field, Register8, Register16
<1> HIDE DEF Field
<1> QED BY <1>2, <1>3

LEMMA PutGet ==
  ASSUME NEW m, IsMachine(m), NEW k, IsMachine(k), NEW reg \in Field
  PROVE  /\ \A field \in Field \ {reg} : Put(m, reg, Get(k, reg))[field] = m[field]
         /\ Put(m, reg, Get(k, reg))[reg] = k[reg]
         /\ Put(m, reg, Get(k, reg)).mem = m.mem
<1>1. Get(k, reg) = IF reg = "cc" THEN ByteOf(k.cc) ELSE k[reg]
  BY DEF Get, Field, Register8, Register16
<1>2. Bits(ByteOf(k.cc)) = k.cc
  BY FieldsOfMachine, FlagsAreWeights, ByteOfBits
<1> QED BY <1>1, <1>2, PutReads

Size(reg) == IF IsWide(reg) THEN 2 ELSE 1

(* The bytes of a register as the stack holds them. *)
Holds(m, addr, reg, value) ==
  IF IsWide(reg) THEN mem_rd16(m, addr) = value ELSE Cell(m, addr) = value

LEMMA PushReads ==
  ASSUME NEW m, IsMachine(m), NEW st \in {"s", "u"}, NEW reg \in Field, reg # st,
         Size(reg) <= m[st], m[st] <= TIO_BASE_ADDRESS
  PROVE  LET n == Push(m, st, reg)
             sp == m[st] - Size(reg)
         IN  /\ n[st] = sp
             /\ \A field \in Field \ {st} : n[field] = m[field]
             /\ \A addr \in Int : addr < sp \/ m[st] <= addr => Cell(n, addr) = Cell(m, addr)
             /\ Holds(n, sp, reg, Get(m, reg))
<1> DEFINE sp == m[st] - Size(reg)
           k  == [m EXCEPT ![st] = sp]
<1>1. st \in Register16 /\ m[st] \in Word /\ st \in Field
  BY NamedTypes DEF Register16, Field
<1>2. sp \in Int /\ 0 <= sp /\ sp < TIO_BASE_ADDRESS /\ Wrap(sp) = sp /\ sp \in Word
      /\ Size(reg) \in {1, 2}
  BY <1>1, WordRange DEF Size, Wrap, TIO_BASE_ADDRESS
<1>3. IsMachine(k) /\ k[st] = sp /\ (\A field \in Field \ {st} : k[field] = m[field])
      /\ k.mem = m.mem
  <2>1. IsMachine(k)
    BY <1>1, <1>2, PutNamed16
  <2>2. Field \cup {"mem"} \subseteq DOMAIN m /\ st # "mem"
    BY DEF IsMachine, Field, Register8, Register16
  <2> HIDE DEF Field
  <2> QED BY <1>1, <2>1, <2>2
<1>4. \A addr : Cell(k, addr) = Cell(m, addr)
  BY <1>3 DEF Cell
<1>5. CASE IsWide(reg)
  <2> DEFINE data == Get(m, reg)
             half == Store(k, sp, data \div 256)
             full == Store(half, sp + 1, data % 256)
  <2>1. Push(m, st, reg) = full
    BY <1>2, <1>5 DEF Push, mem_wr16, Size
  <2>2. data \in Word
    <3>1. reg \in Wide
      BY <1>5, WideIsWide DEF Field, Wide, Narrow
    <3> QED BY <3>1, GetTypes
  <2>3. data \div 256 \in Byte /\ data % 256 \in Byte /\ sp \in Cells
        /\ (256 * (data \div 256)) + (data % 256) = data
    <3> HIDE DEF data, sp
    <3>1. data \in Int /\ 0 <= data /\ data <= 65535
      BY <2>2, WordRange
    <3>2. data \div 256 \in Byte /\ data % 256 \in Byte
      BY <3>1, ByteRange
    <3>3. sp \in Cells
      BY <1>2, WordRange, CellRange
    <3> QED BY <3>1, <3>2, <3>3
  <2>4. IsMachine(half)
    BY <1>3, <2>3, StoreTypes
  <2>5. \A field \in Field : full[field] = k[field]
    <3>1. \A field \in Field : half[field] = k[field]
      <4> HIDE DEF k, data, sp, Field
      <4> QED BY <1>3, StoreReads
    <3>2. \A field \in Field : full[field] = half[field]
      <4> HIDE DEF half, data, sp, Field
      <4> QED BY <2>4, StoreReads
    <3> QED BY <3>1, <3>2
  <2>6. \A addr : Cell(full, addr) =
          IF addr = sp + 1 THEN data % 256 ELSE IF addr = sp THEN data \div 256
          ELSE Cell(k, addr)
    <3> HIDE DEF k, data, sp
    <3> QED BY <1>3, <2>4, StoreReads
  <2>7. mem_rd16(full, sp) = data
    <3> HIDE DEF data, full, sp, k
    <3>1. Cell(full, sp) = data \div 256 /\ Cell(full, sp + 1) = data % 256
      BY <1>2, <2>6
    <3> QED BY <2>3, <3>1 DEF mem_rd16
  <2>8. Size(reg) = 2
    BY <1>5 DEF Size
  <2>9. \A addr \in Int : addr < sp \/ m[st] <= addr => Cell(full, addr) = Cell(m, addr)
    <3>1. \A addr \in Int : addr < sp \/ m[st] <= addr => addr # sp /\ addr # sp + 1
      BY <1>1, <2>8, WordRange
    <3> HIDE DEF full, data, sp, k
    <3> QED BY <1>4, <2>6, <3>1
  <2> HIDE DEF full, data, k, sp
  <2> QED BY <1>1, <1>3, <1>5, <2>1, <2>5, <2>7, <2>9 DEF Holds, sp, data
<1>6. CASE ~IsWide(reg)
  <2> DEFINE data == Get(m, reg)
             full == Store(k, sp, data)
  <2>1. Push(m, st, reg) = full
    BY <1>2, <1>6, InRam DEF Push, Size
  <2>2. /\ \A field \in Field : full[field] = k[field]
        /\ \A addr : Cell(full, addr) = IF addr = sp THEN data ELSE Cell(k, addr)
    <3> HIDE DEF k, data, sp, Field
    <3> QED BY <1>3, StoreReads
  <2>3. Size(reg) = 1
    BY <1>6 DEF Size
  <2>4. \A addr \in Int : addr < sp \/ m[st] <= addr => Cell(full, addr) = Cell(m, addr)
    <3>1. \A addr \in Int : addr < sp \/ m[st] <= addr => addr # sp
      BY <1>1, <2>3, WordRange
    <3> HIDE DEF full, data, sp, k
    <3> QED BY <1>4, <2>2, <3>1
  <2> HIDE DEF full, data, k, sp
  <2> QED BY <1>1, <1>3, <1>6, <2>1, <2>2, <2>4 DEF Holds, sp, data
<1> QED BY <1>5, <1>6

LEMMA PullReads ==
  ASSUME NEW n, IsMachine(n), NEW k, IsMachine(k), NEW st \in {"s", "u"},
         NEW reg \in Field, reg # st,
         n[st] + Size(reg) <= TIO_BASE_ADDRESS, Holds(n, n[st], reg, Get(k, reg))
  PROVE  LET p == Pull(n, st, reg)
         IN  /\ p[st] = n[st] + Size(reg) /\ p[reg] = k[reg] /\ p.mem = n.mem
             /\ \A field \in Field \ {st, reg} : p[field] = n[field]
<1> DEFINE sp == n[st]
           put == Put(n, reg, Get(k, reg))
<1>1. st \in Register16 /\ sp \in Word /\ st \in Field
  BY NamedTypes DEF Register16, Field
<1>2. sp \in Int /\ sp < TIO_BASE_ADDRESS /\ Wrap(sp + Size(reg)) = sp + Size(reg)
      /\ Size(reg) \in {1, 2}
  BY <1>1, WordRange DEF Size, Wrap, TIO_BASE_ADDRESS
<1>3. Pull(n, st, reg) = [put EXCEPT ![st] = Wrap(@ + Size(reg))]
  <2>1. CASE IsWide(reg)
    BY <2>1 DEF Pull, Size, Holds
  <2>2. CASE ~IsWide(reg)
    BY <1>2, <2>2, InRam DEF Pull, Size, Holds
  <2> QED BY <2>1, <2>2
<1>4. /\ put[st] = sp /\ put[reg] = k[reg] /\ put.mem = n.mem
      /\ \A field \in Field \ {reg} : put[field] = n[field]
  <2>1. /\ put[reg] = k[reg] /\ put.mem = n.mem
        /\ \A field \in Field \ {reg} : put[field] = n[field]
    BY PutGet
  <2> HIDE DEF put, Field
  <2> QED BY <1>1, <2>1
<1>5. Field \cup {"mem"} \subseteq DOMAIN put /\ st # "mem" /\ reg # "mem"
  <2>1. Field \cup {"mem"} \subseteq DOMAIN n
    BY DEF IsMachine, Field, Register8, Register16
  <2>2. DOMAIN put = DOMAIN n
    BY DEF Put
  <2>3. reg # "mem"
    BY DEF Field, Register8, Register16
  <2> QED BY <2>1, <2>2, <2>3
<1> HIDE DEF put, Field
<1> QED BY <1>1, <1>2, <1>3, <1>4, <1>5

(* A register pulled from where it was pushed has its value back, whatever *)
(* has become of it and of the registers in free in the meantime.          *)
LEMMA PullUndoesPush ==
  ASSUME NEW k, IsMachine(k), NEW n, IsMachine(n), NEW st \in {"s", "u"},
         NEW reg \in Field, reg # st, Size(reg) <= k[st], k[st] <= TIO_BASE_ADDRESS,
         NEW free, st \notin free, Alike(n, Push(k, st, reg), st, free)
  PROVE  Alike(Pull(n, st, reg), k, st, free \ {reg})
<1> DEFINE p == Push(k, st, reg)
           sp == k[st] - Size(reg)
<1>1. /\ p[st] = sp
      /\ \A field \in Field \ {st} : p[field] = k[field]
      /\ \A addr \in Int : addr < sp \/ k[st] <= addr => Cell(p, addr) = Cell(k, addr)
      /\ Holds(p, sp, reg, Get(k, reg))
  BY PushReads
<1>2. st \in Field /\ k[st] \in Word
  BY NamedTypes DEF Field, Register16
<1>3. n[st] = sp
  BY <1>1, <1>2 DEF Alike
<1>4. \A addr \in Int : sp <= addr /\ addr < TIO_BASE_ADDRESS => Cell(n, addr) = Cell(p, addr)
  BY <1>1 DEF Alike
<1>5. sp \in Int /\ sp + Size(reg) = k[st] /\ sp < TIO_BASE_ADDRESS /\ k[st] \in Int
      /\ (IsWide(reg) => sp + 1 < TIO_BASE_ADDRESS) /\ TIO_BASE_ADDRESS \in Int
  BY <1>2, WordRange DEF Size, TIO_BASE_ADDRESS
<1> HIDE DEF sp, p
<1>6. Holds(n, n[st], reg, Get(k, reg))
  <2>1. Cell(n, sp) = Cell(p, sp)
    BY <1>4, <1>5
  <2>2. IsWide(reg) => Cell(n, sp + 1) = Cell(p, sp + 1)
    BY <1>4, <1>5
  <2> QED BY <1>1, <1>3, <2>1, <2>2 DEF Holds, mem_rd16
<1> DEFINE q == Pull(n, st, reg)
<1>7. /\ q[st] = k[st] /\ q[reg] = k[reg] /\ q.mem = n.mem
      /\ \A field \in Field \ {st, reg} : q[field] = n[field]
  BY <1>3, <1>5, <1>6, PullReads
<1>8. \A field \in Field \ (free \ {reg}) : q[field] = k[field]
  <2>1. \A field \in Field \ free : n[field] = p[field]
    BY DEF Alike, p
  <2> QED BY <1>1, <1>7, <2>1
<1>9. \A addr \in Int : k[st] <= addr /\ addr < TIO_BASE_ADDRESS => Cell(q, addr) = Cell(k, addr)
  <2>1. \A addr : Cell(q, addr) = Cell(n, addr)
    BY <1>7 DEF Cell
  <2>2. \A addr \in Int : k[st] <= addr => sp <= addr
    BY <1>5 DEF Size
  <2> QED BY <1>1, <1>4, <2>1, <2>2
<1> QED BY <1>8, <1>9 DEF Alike

(* The same for a register that is stacked if its bit is in the mask. *)
Without(free, mask, reg, other) ==
  IF rn(reg) \in mask THEN free \ {Named(reg, other)} ELSE free

LEMMA PullOneUndoesPushOne ==
  ASSUME NEW k, IsMachine(k), NEW n, IsMachine(n), NEW mask,
         NEW st \in {"s", "u"}, NEW other \in {"s", "u"}, st # other,
         NEW reg \in Weighed, NEW room \in Int, Size(reg) <= room,
         room <= k[st], k[st] <= TIO_BASE_ADDRESS
  PROVE  LET p == PushOne(k, mask, st, reg, other)
             q == PullOne(n, mask, st, reg, other)
         IN  /\ IsMachine(p) /\ room - Size(reg) <= p[st] /\ p[st] <= TIO_BASE_ADDRESS
             /\ IsMachine(q)
             /\ \A free : st \notin free /\ Alike(n, p, st, free)
                            => Alike(q, k, st, Without(free, mask, reg, other))
<1> DEFINE name == Named(reg, other)
<1>1. name \in Field /\ name # st /\ Size(name) = Size(reg) /\ Size(reg) \in {1, 2}
      /\ name \in Wide \cup Narrow
  BY DEF Named, Field, Weighed, Register8, Register16, Size, IsWide, Wide, Narrow
<1>2. k[st] \in Int /\ TIO_BASE_ADDRESS \in Int
  <2>1. k[st] \in Word
    BY NamedTypes DEF Register16
  <2> QED BY <2>1, WordRange DEF TIO_BASE_ADDRESS
<1> HIDE DEF name
<1>3. CASE rn(reg) \in mask
  <2>1. PushOne(k, mask, st, reg, other) = Push(k, st, name)
        /\ PullOne(n, mask, st, reg, other) = Pull(n, st, name)
    BY <1>3 DEF PushOne, PullOne, name
  <2>2. Size(name) <= k[st]
    BY <1>1, <1>2
  <2>3. IsMachine(Push(k, st, name)) /\ IsMachine(Pull(n, st, name))
    BY <1>1, PushTypes, PullTypes
  <2>4. Push(k, st, name)[st] = k[st] - Size(name)
    BY <1>1, <2>2, PushReads
  <2>5. room - Size(reg) <= k[st] - Size(name) /\ k[st] - Size(name) <= TIO_BASE_ADDRESS
    BY <1>1, <1>2
  <2>6. \A free : st \notin free /\ Alike(n, Push(k, st, name), st, free)
                    => Alike(Pull(n, st, name), k, st, free \ {name})
    BY <1>1, <2>2, PullUndoesPush
  <2> QED BY <1>3, <2>1, <2>3, <2>4, <2>5, <2>6 DEF Without, name
<1>4. CASE rn(reg) \notin mask
  BY <1>1, <1>2, <1>4 DEF PushOne, PullOne, Without
<1> QED BY <1>3, <1>4

(* The registers that a mask names. *)
Popped(mask, other) == {Named(reg, other) : reg \in {one \in Weighed : rn(one) \in mask}}

(* What PULS and PULU bring back is what PSHS and PSHU with the same mask  *)
(* have put there, for each of the 256 masks, if the stack lies in RAM     *)
(* below the UART: whatever the program has done in between to those       *)
(* registers and below the stack pointer.                                  *)
THEOREM PullsUndoPushes ==
  ASSUME NEW m, IsMachine(m), NEW n, IsMachine(n), NEW mask,
         NEW st \in {"s", "u"}, NEW other \in {"s", "u"}, st # other,
         FrameSize <= m[st], m[st] <= TIO_BASE_ADDRESS,
         NEW free, st \notin free, Alike(n, _pushregs(m, mask, st, other), st, free)
  PROVE  Alike(_pullregs(n, mask, st, other), m, st, free \ Popped(mask, other))
<1> DEFINE push(k, reg) == PushOne(k, mask, st, reg, other)
           pull(k, reg) == PullOne(k, mask, st, reg, other)
           m1 == push(m, "pc")   m2 == push(m1, "us")  m3 == push(m2, "y")
           m4 == push(m3, "x")   m5 == push(m4, "dp")  m6 == push(m5, "b")
           m7 == push(m6, "a")   m8 == push(m7, "cc")
           n7 == pull(n, "cc")   n6 == pull(n7, "a")   n5 == pull(n6, "b")
           n4 == pull(n5, "dp")  n3 == pull(n4, "x")   n2 == pull(n3, "y")
           n1 == pull(n2, "us")  n0 == pull(n1, "pc")
           less(set, reg) == Without(set, mask, reg, other)
           f7 == less(free, "cc")  f6 == less(f7, "a")  f5 == less(f6, "b")
           f4 == less(f5, "dp")    f3 == less(f4, "x")  f2 == less(f3, "y")
           f1 == less(f2, "us")    f0 == less(f1, "pc")
<1> DEFINE Fits(k, room) == IsMachine(k) /\ room <= k[st] /\ k[st] <= TIO_BASE_ADDRESS
<1>1. ASSUME NEW k, NEW reg \in Weighed, NEW room \in Int, Size(reg) <= room, Fits(k, room)
      PROVE  Fits(push(k, reg), room - Size(reg))
  BY <1>1, PullOneUndoesPushOne
<1>2. ASSUME NEW k, IsMachine(k), NEW reg \in Weighed PROVE IsMachine(pull(k, reg))
  BY <1>2, NamedIsRegister, PullTypes DEF PullOne
<1>3. ASSUME NEW k, NEW l, IsMachine(l), NEW reg \in Weighed, NEW room \in Int,
             Size(reg) <= room, Fits(k, room), NEW set, st \notin set,
             Alike(l, push(k, reg), st, set)
      PROVE  Alike(pull(l, reg), k, st, less(set, reg)) /\ st \notin less(set, reg)
  <2>1. st \notin less(set, reg)
    BY <1>3 DEF Without
  <2>2. IsMachine(k) /\ room <= k[st] /\ k[st] <= TIO_BASE_ADDRESS
    BY <1>3
  <2> QED BY <1>3, <2>1, <2>2, PullOneUndoesPushOne
<1>4. /\ {"cc", "a", "b", "dp", "x", "y", "us", "pc"} = Weighed
      /\ Size("cc") = 1 /\ Size("a") = 1 /\ Size("b") = 1 /\ Size("dp") = 1
      /\ Size("x") = 2 /\ Size("y") = 2 /\ Size("us") = 2 /\ Size("pc") = 2
  BY DEF Weighed, Size, IsWide
<1>5. m8 = _pushregs(m, mask, st, other) /\ n0 = _pullregs(n, mask, st, other)
  BY DEF _pushregs, _pullregs
<1>6. f0 = free \ Popped(mask, other)
  BY <1>4 DEF Without, Popped
<1>7. Fits(m, 12)
  BY DEF FrameSize
<1> HIDE DEF push, pull, less, Fits
<1>8. Fits(m1, 10) /\ Fits(m2, 8) /\ Fits(m3, 6) /\ Fits(m4, 4)
  BY <1>1, <1>4, <1>7
<1>9. Fits(m5, 3) /\ Fits(m6, 2) /\ Fits(m7, 1)
  <2> HIDE DEF m4
  <2> QED BY <1>1, <1>4, <1>8
<1>10. IsMachine(n7) /\ IsMachine(n6) /\ IsMachine(n5) /\ IsMachine(n4) /\ IsMachine(n3)
       /\ IsMachine(n2) /\ IsMachine(n1)
  BY <1>2, <1>4
<1> HIDE DEF m1, m2, m3, m4, m5, m6, m7, n7, n6, n5, n4, n3, n2, n1,
             f7, f6, f5, f4, f3, f2, f1
<1>11. Alike(n7, m7, st, f7) /\ st \notin f7
  BY <1>3, <1>4, <1>5, <1>9 DEF n7, f7
<1>12. Alike(n6, m6, st, f6) /\ st \notin f6
  BY <1>3, <1>4, <1>9, <1>10, <1>11 DEF n6, m7, f6
<1>13. Alike(n5, m5, st, f5) /\ st \notin f5
  BY <1>3, <1>4, <1>9, <1>10, <1>12 DEF n5, m6, f5
<1>14. Alike(n4, m4, st, f4) /\ st \notin f4
  BY <1>3, <1>4, <1>8, <1>10, <1>13 DEF n4, m5, f4
<1>15. Alike(n3, m3, st, f3) /\ st \notin f3
  BY <1>3, <1>4, <1>8, <1>10, <1>14 DEF n3, m4, f3
<1>16. Alike(n2, m2, st, f2) /\ st \notin f2
  BY <1>3, <1>4, <1>8, <1>10, <1>15 DEF n2, m3, f2
<1>17. Alike(n1, m1, st, f1) /\ st \notin f1
  BY <1>3, <1>4, <1>8, <1>10, <1>16 DEF n1, m2, f1
<1>18. Alike(n0, m, st, f0)
  BY <1>3, <1>4, <1>7, <1>10, <1>17 DEF m1
<1> QED BY <1>5, <1>6, <1>18

(* How an instruction of one byte, and one without a prefix, is executed.  *)
LEMMA Fetched ==
  ASSUME NEW m, NEW opc, m.pc \in Int, m.pc < TIO_BASE_ADDRESS, Cell(m, m.pc) = opc,
         opc # op_page2, opc # op_page3
  PROVE  LET n == [m EXCEPT !.pc = Wrap(@ + 1)]
         IN  cpu_execop(m) = ExecPage1(_eafromopc(n, opc).m, opc, _eafromopc(n, opc).val)
<1>1. Fetch(m) = [val |-> opc, m |-> [m EXCEPT !.pc = Wrap(@ + 1)]]
  BY InRam DEF Fetch
<1> QED BY <1>1 DEF cpu_execop

LEMMA LowOpcode ==
  ASSUME NEW opc, ~(opc >= 128), NEW page
  PROVE  ~IsLoad16(page, opc) /\ ~IsStore16(page, opc) /\ ~IsCmp16(page, opc)
BY DEF IsLoad16, IsStore16, IsCmp16

LEMMA Returns ==
  ASSUME NEW opc \in {57, 59}, NEW m, NEW ea
  PROVE  ExecPage1(m, opc, ea) = IF opc = 57 THEN Pull(m, "s", "pc") ELSE _pullstate(m)
<1>1. /\ opc \div 16 \notin {0, 2, 4, 5, 6, 7} /\ opc \notin {13, 14, 110, 126}
      /\ opc \notin {18, 25, 29, 58, 61} /\ opc # 22 /\ opc \notin {23, 141, 157, 173, 189}
      /\ opc \notin {26, 28} /\ opc \notin {30, 31} /\ opc \notin 48..51
      /\ opc \notin 52..55 /\ opc # 63 /\ ~(opc >= 128)
  OBVIOUS
<1> QED BY <1>1, LowOpcode DEF ExecPage1

LEMMA ReturnInstruction ==
  ASSUME NEW m, NEW opc \in {57, 59}, m.pc \in Int, m.pc < TIO_BASE_ADDRESS,
         Cell(m, m.pc) = opc
  PROVE  LET n == [m EXCEPT !.pc = Wrap(@ + 1)]
         IN  cpu_execop(m) = IF opc = 57 THEN Pull(n, "s", "pc") ELSE _pullstate(n)
<1>1. ASSUME NEW n PROVE _eafromopc(n, opc) = Inherent(n)
  <2>1. opc \div 16 = 3 /\ opc % 16 > 7 /\ opc % 16 \notin 0..3
    OBVIOUS
  <2> QED BY <2>1 DEF _eafromopc
<1> QED BY <1>1, Returns, Fetched DEF Inherent, op_page2, op_page3

-----------------------------------------------------------------------------
(* A register has its value back; E is set on the way into the handler.    *)
SameField(field, n, m) ==
  IF field = "cc" THEN n.cc \ {cc_e} = m.cc \ {cc_e} ELSE n[field] = m[field]

IsRti(h) == h.pc < TIO_BASE_ADDRESS /\ Cell(h, h.pc) = 59
IsRts(h) == h.pc < TIO_BASE_ADDRESS /\ Cell(h, h.pc) = 57

LEMMA PullstateRestores ==
  ASSUME NEW m, IsMachine(m), NEW h, IsMachine(h),
         FrameSize <= m.s, m.s <= TIO_BASE_ADDRESS
  PROVE  /\ cc_e \in h.cc /\ Alike(h, _pushstate(m), "s", Field \ {"s"}) =>
              \A field \in Field : SameField(field, _pullstate(h), m)
         /\ cc_e \notin h.cc /\ Alike(h, _pushfast(m), "s", {"pc", "cc"}) =>
              \A field \in Field : SameField(field, _pullstate(h), m)
<1> DEFINE set == [m EXCEPT !.cc = @ \cup {cc_e}]
           clear == [m EXCEPT !.cc = @ \ {cc_e}]
<1>1. /\ IsMachine(set) /\ set.s = m.s /\ IsMachine(clear) /\ clear.s = m.s
      /\ \A field \in Field : SameField(field, set, m) /\ SameField(field, clear, m)
  <2>1. m.cc \ {cc_e} \in SUBSET CcFlag /\ m.cc \cup {cc_e} \in SUBSET CcFlag
    BY FieldsOfMachine, FlagNames
  <2>2. IsMachine(set) /\ IsMachine(clear)
    BY <2>1, PutSets
  <2>3. Field \subseteq DOMAIN m /\ "s" \in Field
    BY DEF IsMachine, Field, Register8, Register16
  <2> HIDE DEF Field
  <2> QED BY <2>2, <2>3 DEF SameField
<1>2. Field \ {"s"} = Popped(rn_entire, "u")
  BY DEF Field, Register8, Register16, Popped, Weighed, rn_entire, Named
<1>3. {"pc", "cc"} \subseteq Popped(rn_fast, "u")
  BY DEF Popped, Weighed, rn_fast, Named
<1> HIDE DEF set, clear
<1>4. ASSUME cc_e \in h.cc, Alike(h, _pushstate(m), "s", Field \ {"s"})
      PROVE  \A field \in Field : SameField(field, _pullstate(h), m)
  <2>1. Alike(_pullstate(h), set, "s", {})
    <3>1. _pushstate(m) = _pushregs(set, rn_entire, "s", "u")
      BY DEF _pushstate, set
    <3>2. Alike(_pullregs(h, rn_entire, "s", "u"), set, "s", (Field \ {"s"}) \ Popped(rn_entire, "u"))
      BY <1>1, <1>4, <3>1, PullsUndoPushes
    <3> QED BY <1>2, <1>4, <3>2 DEF _pullstate
  <2> QED BY <1>1, <2>1 DEF Alike, SameField, Field
<1>5. ASSUME cc_e \notin h.cc, Alike(h, _pushfast(m), "s", {"pc", "cc"})
      PROVE  \A field \in Field : SameField(field, _pullstate(h), m)
  <2>1. Alike(_pullstate(h), clear, "s", {})
    <3>1. _pushfast(m) = _pushregs(clear, rn_fast, "s", "u")
      BY DEF _pushfast, clear
    <3>2. Alike(_pullregs(h, rn_fast, "s", "u"), clear, "s", {"pc", "cc"} \ Popped(rn_fast, "u"))
      BY <1>1, <1>5, <3>1, PullsUndoPushes
    <3> QED BY <1>3, <1>5, <3>2 DEF _pullstate
  <2> QED BY <1>1, <2>1 DEF Alike, SameField, Field
<1> QED BY <1>4, <1>5

(* Moving pc does not touch what the stack operations of a handler need.   *)
LEMMA PcIsFree ==
  ASSUME NEW h, IsMachine(h), NEW k, NEW free, "pc" \in free, "s" \notin free, NEW value,
         Alike(h, k, "s", free)
  PROVE  /\ Alike([h EXCEPT !.pc = value], k, "s", free)
         /\ [h EXCEPT !.pc = value].cc = h.cc
<1> DEFINE n == [h EXCEPT !.pc = value]
<1>1. Field \cup {"mem"} \subseteq DOMAIN h
  BY DEF IsMachine, Field, Register8, Register16
<1>2. n.mem = h.mem /\ n.cc = h.cc /\ \A field \in Field \ {"pc"} : n[field] = h[field]
  <2> HIDE DEF Field
  <2> QED BY <1>1 DEF Field
<1>3. \A addr : Cell(n, addr) = Cell(h, addr)
  BY <1>2 DEF Cell
<1> HIDE DEF n
<1>4. Alike(n, k, "s", free)
  BY <1>2, <1>3 DEF Alike
<1> QED BY <1>2, <1>4 DEF n

(* RTI brings every register of the interrupted program back, whatever the *)
(* handler that cpu_execirq has called does with the registers, as long as *)
(* it leaves E, the stack pointer and the stack above it as it found them. *)
(* A FIRQ has only saved pc and cc: there the handler has to keep all      *)
(* others, and E has to be clear.                                          *)
THEOREM InterruptReturns ==
  ASSUME NEW m, IsMachine(m), FrameSize <= m.s, m.s <= TIO_BASE_ADDRESS,
         Deliverable(m.irq, m.cc) # {}, Serviced(m.irq, m.cc) # irq_rst,
         NEW h, IsMachine(h), IsRti(h),
         IF Serviced(m.irq, m.cc) = irq_firq
         THEN cc_e \notin h.cc /\ Alike(h, cpu_execirq(m), "s", {"pc", "cc"})
         ELSE cc_e \in h.cc /\ Alike(h, cpu_execirq(m), "s", Field \ {"s"})
  PROVE  \A field \in Field : SameField(field, cpu_execop(h), m)
<1> DEFINE n == [m EXCEPT !.irq = IrqAfterService(m.irq, m.cc)]
           into(machine) == [machine EXCEPT !.pc = mem_rd16(machine, Vector(Serviced(m.irq, m.cc)))]
           back == [h EXCEPT !.pc = Wrap(@ + 1)]
<1>1. IsMachine(n) /\ n.s = m.s /\ \A field \in Field : n[field] = m[field]
  <2>1. IrqAfterService(m.irq, m.cc) \in SUBSET IrqFlag
    BY FieldsOfMachine DEF IrqAfterService
  <2>2. IsMachine(n)
    BY <2>1, PutSets
  <2>3. Field \subseteq DOMAIN m /\ "irq" \notin Field /\ "s" \in Field
    BY DEF IsMachine, Field, Register8, Register16
  <2> HIDE DEF Field
  <2> QED BY <2>2, <2>3
<1>2. cpu_execirq(m) = IF Serviced(m.irq, m.cc) = irq_firq THEN into(_pushfast(n))
                       ELSE into(_pushstate(n))
  BY DEF cpu_execirq
<1>3. IsMachine(_pushfast(n)) /\ IsMachine(_pushstate(n))
  BY <1>1, StateTypes
<1>4. IsMachine(back) /\ back.cc = h.cc
  <2>1. IsMachine([h EXCEPT !["pc"] = Wrap(@ + 1)])
    BY SkipTypes DEF Register16
  <2> QED BY <2>1 DEF IsMachine
<1>5. cpu_execop(h) = _pullstate(back)
  <2>1. h.pc \in Int
    BY FieldsOfMachine, WordRange
  <2> QED BY <2>1, ReturnInstruction DEF IsRti
<1>6. ASSUME NEW k, IsMachine(k), NEW free, "pc" \in free, "s" \notin free,
             Alike(h, into(k), "s", free)
      PROVE  Alike(back, k, "s", free)
  <2>1. Alike(h, k, "s", free)
    <3>1. Field \cup {"mem"} \subseteq DOMAIN k
      BY <1>6 DEF IsMachine, Field, Register8, Register16
    <3>2. into(k).mem = k.mem /\ into(k).s = k.s
          /\ \A field \in Field \ free : into(k)[field] = k[field]
      <4>1. "s" \in Field
        BY DEF Field, Register16
      <4> HIDE DEF Field
      <4> QED BY <1>6, <3>1, <4>1
    <3> HIDE DEF into
    <3>3. \A addr : Cell(into(k), addr) = Cell(k, addr)
      BY <3>2 DEF Cell
    <3> QED BY <1>6, <3>2, <3>3 DEF Alike
  <2> QED BY <1>6, <2>1, PcIsFree
<1> HIDE DEF n, into, back
<1>7. \A field \in Field : SameField(field, _pullstate(back), n)
  <2>1. CASE Serviced(m.irq, m.cc) = irq_firq
    <3>1. Alike(back, _pushfast(n), "s", {"pc", "cc"})
      BY <1>2, <1>3, <1>6, <2>1
    <3> QED BY <1>1, <1>4, <2>1, <3>1, PullstateRestores
  <2>2. CASE Serviced(m.irq, m.cc) # irq_firq
    <3>1. Alike(back, _pushstate(n), "s", Field \ {"s"})
      <4>1. "pc" \in Field \ {"s"}
        BY DEF Field, Register16
      <4> QED BY <1>2, <1>3, <1>6, <2>2, <4>1
    <3> QED BY <1>1, <1>4, <2>2, <3>1, PullstateRestores
  <2> QED BY <2>1, <2>2
<1> QED BY <1>1, <1>5, <1>7 DEF SameField, Field

(* RTS goes on behind the call, with the stack as it was, whatever the     *)
(* subroutine does with the other registers.                               *)
THEOREM CallReturns ==
  ASSUME NEW m, IsMachine(m), 2 <= m.s, m.s <= TIO_BASE_ADDRESS, NEW ea \in Word,
         NEW h, IsMachine(h), IsRts(h), Alike(h, Call(m, ea), "s", Field \ {"s"})
  PROVE  cpu_execop(h).pc = m.pc /\ cpu_execop(h).s = m.s
<1> DEFINE back == [h EXCEPT !.pc = Wrap(@ + 1)]
           pushed == Push(m, "s", "pc")
<1>1. "pc" \in Field /\ "s" \in Field /\ "pc" \in Wide /\ Size("pc") = 2 /\ "pc" # "s"
  BY DEF Field, Wide, Register16, Size, IsWide
<1>2. IsMachine(back) /\ IsMachine(pushed)
  <2>1. IsMachine([h EXCEPT !["pc"] = Wrap(@ + 1)])
    BY SkipTypes DEF Register16
  <2> QED BY <1>1, <2>1, PushTypes
<1>3. cpu_execop(h) = Pull(back, "s", "pc")
  <2>1. h.pc \in Int
    BY FieldsOfMachine, WordRange
  <2> QED BY <2>1, ReturnInstruction DEF IsRts
<1>4. Alike(back, pushed, "s", Field \ {"s"})
  <2> HIDE DEF pushed
  <2>1. Call(m, ea).mem = pushed.mem /\ Call(m, ea).s = pushed.s
    BY <1>2 DEF Call, pushed, IsMachine
  <2>2. \A addr : Cell(Call(m, ea), addr) = Cell(pushed, addr)
    BY <2>1 DEF Cell
  <2>3. Alike(h, pushed, "s", Field \ {"s"})
    BY <2>1, <2>2 DEF Alike
  <2> QED BY <1>1, <2>3, PcIsFree
<1> HIDE DEF back, pushed
<1>5. Alike(Pull(back, "s", "pc"), m, "s", (Field \ {"s"}) \ {"pc"})
  BY <1>1, <1>2, <1>4, PullUndoesPush DEF pushed
<1> QED BY <1>1, <1>3, <1>5 DEF Alike
=============================================================================

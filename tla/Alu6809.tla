------------------------------ MODULE Alu6809 ------------------------------
(***************************************************************************)
(* The arithmetic and logic of the CPU (vm6809.c): every operation maps    *)
(* its operands and the condition codes to a value and the new condition   *)
(* codes.  Values are numbers of 8 or 16 bits; the uint16_t and uint32_t   *)
(* intermediate results of the code are kept as such.                      *)
(***************************************************************************)
EXTENDS Flags6809

UINT16_MAX == 65535
Byte == 0..255
Word == 0..UINT16_MAX

(* The bits of a byte, and the byte made of some bits. *)
Weight == {1, 2, 4, 8, 16, 32, 64, 128}
Bits(value) == {weight \in Weight : (value \div weight) % 2 = 1}
ByteOf(bits) ==
  LET of(weight) == IF weight \in bits THEN weight ELSE 0
  IN  of(1) + of(2) + of(4) + of(8) + of(16) + of(32) + of(64) + of(128)

(* Sign-extend from 5 to 8 bits, and from 8 to 16 bits. *)
_sext58(bits5)  == IF (bits5 \div 16) % 2 = 1 THEN 224 + (bits5 % 32) ELSE bits5 % 32
_sext816(bits8) == IF bits8 >= 128 THEN 65280 + bits8 ELSE bits8

(* Sign and carry of results wider than the operands. *)
_nsign8(value)   == value % 256 >= 128
_nsign16(value)  == value % 65536 >= 32768
_carry8(value)   == (value \div 256) % 2 = 1
_carry16(value)  == (value \div 65536) % 2 = 1

(* The flag, if the condition holds. *)
When(condition, flag) == IF condition THEN {flag} ELSE {}

(* Sets the flags in on, clears the other ones of affected. *)
Affect(cc, affected, on) == _setclrf(cc, on, affected \ on)

-----------------------------------------------------------------------------
_flags_nz_v8(cc, value) ==
  Affect(cc, {cc_n, cc_z, cc_v}, When(_nsign8(value), cc_n) \cup When(value = 0, cc_z))

_flags_nz_v16(cc, value) ==
  Affect(cc, {cc_n, cc_z, cc_v}, When(_nsign16(value), cc_n) \cup When(value = 0, cc_z))

_flags_z16(cc, value) == Affect(cc, {cc_z}, When(value = 0, cc_z))

(* Mutant: all of the flags. *)
OrccfAll(cc, flags) == flags \subseteq cc

(* All or none of the flags; some of them. *)
_sameccf(cc, flags) == flags \subseteq cc \/ flags \cap cc = {}
_orccf(cc, flags)   == flags \cap cc # {}

(* The condition of a branch, by the low nibble of its opcode. *)
Taken(cc, nibble) ==
  \/ nibble = 0
  \/ nibble = 2  /\ ~_orccf(cc, {cc_z, cc_c})
  \/ nibble = 3  /\ _orccf(cc, {cc_c, cc_z})
  \/ nibble = 4  /\ cc_c \notin cc
  \/ nibble = 5  /\ cc_c \in cc
  \/ nibble = 6  /\ cc_z \notin cc
  \/ nibble = 7  /\ cc_z \in cc
  \/ nibble = 8  /\ cc_v \notin cc
  \/ nibble = 9  /\ cc_v \in cc
  \/ nibble = 10 /\ cc_n \notin cc
  \/ nibble = 11 /\ cc_n \in cc
  \/ nibble = 12 /\ _sameccf(cc, {cc_n, cc_v})
  \/ nibble = 13 /\ ~_sameccf(cc, {cc_n, cc_v})
  \/ nibble = 14 /\ _sameccf(cc, {cc_n, cc_v}) /\ cc_z \notin cc
  \/ nibble = 15 /\ (~_sameccf(cc, {cc_n, cc_v}) \/ cc_z \in cc)

bhi == 2
bls == 3
bcc == 4
bcs == 5
bne == 6
beq == 7
bge == 12
blt == 13
bgt == 14
ble == 15

-----------------------------------------------------------------------------
(***************************************************************************)
(* Addition and subtraction.  Overflow is a sign that the operands do not  *)
(* explain; H comes from the low nibbles, the incoming carry left out.     *)
(***************************************************************************)
(* Mutant: V as after a subtraction. *)
AddOverflowSwapped(cc, a, b, carry) ==
  LET res == a + b + carry
      on  == When(_nsign8(res), cc_n) \cup When(res % 256 = 0, cc_z)
               \cup When(_carry8(res), cc_c)
               \cup When(~(_nsign8(a) <=> _nsign8(b)) /\ ~(_nsign8(a) <=> _nsign8(res)), cc_v)
               \cup When((a % 16) + (b % 16) >= 16, cc_h)
  IN  [val |-> res % 256, cc |-> Affect(cc, {cc_n, cc_z, cc_c, cc_v, cc_h}, on)]

__addcf8(cc, a, b, carry) ==
  LET res == a + b + carry
      on  == When(_nsign8(res), cc_n) \cup When(res % 256 = 0, cc_z)
               \cup When(_carry8(res), cc_c)
               \cup When((_nsign8(a) <=> _nsign8(b)) /\ ~(_nsign8(a) <=> _nsign8(res)), cc_v)
               \cup When((a % 16) + (b % 16) >= 16, cc_h)
  IN  [val |-> res % 256, cc |-> Affect(cc, {cc_n, cc_z, cc_c, cc_v, cc_h}, on)]

(* Mutant: ADC does not add the carry. *)
AdcWithoutCarry(cc, a, b) == __addcf8(cc, a, b, 0)

_addf8(cc, a, b)  == __addcf8(cc, a, b, 0)
_addcf8(cc, a, b) == __addcf8(cc, a, b, IF cc_c \in cc THEN 1 ELSE 0)

(* Mutants: V as after an addition; the value is not cut to 8 bits. *)
SubOverflowSwapped(cc, a, b, carry) ==
  LET res == (a - b - carry) % 65536
      on  == When(_nsign8(res), cc_n) \cup When(res % 256 = 0, cc_z)
               \cup When(_carry8(res), cc_c)
               \cup When((_nsign8(a) <=> _nsign8(b)) /\ ~(_nsign8(a) <=> _nsign8(res)), cc_v)
  IN  [val |-> res % 256, cc |-> Affect(cc, {cc_n, cc_z, cc_c, cc_v}, on)]

SubUncut(cc, a, b, carry) ==
  LET res == (a - b - carry) % 65536
      on  == When(_nsign8(res), cc_n) \cup When(res % 256 = 0, cc_z)
               \cup When(_carry8(res), cc_c)
  IN  [val |-> res, cc |-> Affect(cc, {cc_n, cc_z, cc_c, cc_v}, on)]

(* H is left as it is. *)
__subcf8(cc, a, b, carry) ==
  LET res == (a - b - carry) % 65536
      on  == When(_nsign8(res), cc_n) \cup When(res % 256 = 0, cc_z)
               \cup When(_carry8(res), cc_c)
               \cup When(~(_nsign8(a) <=> _nsign8(b)) /\ ~(_nsign8(a) <=> _nsign8(res)), cc_v)
  IN  [val |-> res % 256, cc |-> Affect(cc, {cc_n, cc_z, cc_c, cc_v}, on)]

_subf8(cc, a, b)  == __subcf8(cc, a, b, 0)
_subcf8(cc, a, b) == __subcf8(cc, a, b, IF cc_c \in cc THEN 1 ELSE 0)

_addf16(cc, a, b) ==
  LET res == a + b
      on  == When(_nsign16(res), cc_n) \cup When(res % 65536 = 0, cc_z)
               \cup When(_carry16(res), cc_c)
               \cup When((_nsign16(a) <=> _nsign16(b)) /\ ~(_nsign16(a) <=> _nsign16(res)), cc_v)
  IN  [val |-> res % 65536, cc |-> Affect(cc, {cc_n, cc_z, cc_c, cc_v}, on)]

(* Of the wrapped uint32_t only the lowest 17 bits are looked at. *)
_subf16(cc, a, b) ==
  LET res == (a - b) % 131072
      on  == When(_nsign16(res), cc_n) \cup When(res % 65536 = 0, cc_z)
               \cup When(_carry16(res), cc_c)
               \cup When(~(_nsign16(a) <=> _nsign16(b)) /\ ~(_nsign16(a) <=> _nsign16(res)), cc_v)
  IN  [val |-> res % 65536, cc |-> Affect(cc, {cc_n, cc_z, cc_c, cc_v}, on)]

(* The flags of the product are computed and then not stored. *)
_mulf8(a, b) == a * b

_incf8(cc, a) ==
  LET res == a + 1
      on  == When(_nsign8(res), cc_n) \cup When(res % 256 = 0, cc_z)
               \cup When(~_nsign8(a) /\ _nsign8(res), cc_v)
  IN  [val |-> res % 256, cc |-> Affect(cc, {cc_n, cc_z, cc_v}, on)]

_decf8(cc, a) ==
  LET res == (a - 1) % 65536
      on  == When(_nsign8(res), cc_n) \cup When(res % 256 = 0, cc_z)
               \cup When(_nsign8(a) /\ ~_nsign8(res), cc_v)
  IN  [val |-> res % 256, cc |-> Affect(cc, {cc_n, cc_z, cc_v}, on)]

(* Mutant: H is not looked at. *)
DecadjaWithoutHalf(cc, a) ==
  LET high == a - (a % 16)
      low  == a % 16
      a74  == IF cc_c \in cc \/ high > 144 \/ (high > 128 /\ low > 9)
              THEN high + 96 ELSE high
      a30  == IF low > 9 THEN low + 6 ELSE low
      res  == (a74 + a30) % 256
  IN  [val |-> res, cc |-> _flags_nz_v8(cc, res) \cup When(a74 >= 256, cc_c)]

(* DAA sets C and never clears it; a carry out of the low digit that       *)
(* overflows the high one is lost.                                         *)
_decadja(cc, a) ==
  LET high == a - (a % 16)
      low  == a % 16
      a74  == IF cc_c \in cc \/ high > 144 \/ (high > 128 /\ low > 9)
              THEN high + 96 ELSE high
      a30  == IF cc_h \in cc \/ low > 9 THEN low + 6 ELSE low
      res  == (a74 + a30) % 256
  IN  [val |-> res, cc |-> _flags_nz_v8(cc, res) \cup When(a74 >= 256, cc_c)]

-----------------------------------------------------------------------------
(* _logicf8; COM also moves C: it is set when the result is not zero. *)
Logic(cc, res) == [val |-> res, cc |-> _flags_nz_v8(cc, res)]
lo_and(cc, a, b) == Logic(cc, ByteOf(Bits(a) \cap Bits(b)))
lo_or(cc, a, b)  == Logic(cc, ByteOf(Bits(a) \cup Bits(b)))
lo_xor(cc, a, b) ==
  Logic(cc, ByteOf((Bits(a) \cup Bits(b)) \ (Bits(a) \cap Bits(b))))
lo_com(cc, a) ==
  Logic(IF a = 255 THEN cc \ {cc_c} ELSE cc \cup {cc_c}, 255 - a)

(* _shiftf8 computes the flags and does not store them.  A rotation brings *)
(* C in at the end the bits leave by.                                      *)
sh_left(a)   == (2 * a) % 256
sh_right(a)  == a \div 2
sh_aright(a) == (a \div 2) + (a - (a % 128))
RotateIn(cc, res, weight) ==
  IF cc_c \in cc THEN ByteOf(Bits(res) \cup {weight}) ELSE res
rot_left(cc, a)  == RotateIn(cc, sh_left(a), 128)
rot_right(cc, a) == RotateIn(cc, sh_right(a), 1)
=============================================================================

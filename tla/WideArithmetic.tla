--------------------------- MODULE WideArithmetic ---------------------------
(***************************************************************************)
(* Arithmetic on numbers of many bytes, done one byte after the other from *)
(* the low end as guest programs do it: ADDA and then ADCA, or SUBA and    *)
(* then SBCA, with nothing but the carry handed on in cc; and the same     *)
(* with two decimal digits in a byte and DAA after every addition.  The    *)
(* history variables hold the numbers put together so far.                 *)
(***************************************************************************)
EXTENDS Alu6809

CONSTANTS
  Operand,  \* the bytes the binary numbers are made of
  Decimal,  \* the bytes the decimal numbers are made of, two digits each
  Codes,    \* the condition codes there can be before the first byte
  MaxBytes  \* bound: length of the numbers

Packed == {16 * high + low : high, low \in 0..9}

ASSUME WideAssumption ==
  /\ Operand \subseteq Byte
  /\ Decimal \subseteq Packed
  /\ Codes \subseteq SUBSET CcFlag
  /\ MaxBytes \in Nat

VARIABLES
  op,      \* "add", "sub" or "dec"
  n,       \* bytes done
  weight,  \* 256^n, or 100^n for decimals
  x, y,    \* the operands so far
  result,  \* the bytes that came out so far
  slipped, \* DAA met digits it gets wrong
  cc

vars == <<op, n, weight, x, y, result, slipped, cc>>

TypeOK ==
  /\ op \in {"add", "sub", "dec"}
  /\ n \in 0..MaxBytes
  /\ weight \in Nat \ {0}
  /\ x \in 0..(weight - 1)
  /\ y \in 0..(weight - 1)
  /\ result \in 0..(weight - 1)
  /\ slipped \in BOOLEAN
  /\ cc \subseteq CcFlag

Init ==
  /\ op \in {"add", "sub", "dec"}
  /\ n = 0 /\ weight = 1
  /\ x = 0 /\ y = 0 /\ result = 0
  /\ slipped = FALSE
  /\ cc \in Codes

Carry == IF cc_c \in cc THEN 1 ELSE 0
CarryIn == IF n = 0 THEN 0 ELSE Carry

(* The instruction for the next byte; decimals take DAA as a second one.   *)
Sum(a, b) == IF n = 0 THEN _addf8(cc, a, b) ELSE _addcf8(cc, a, b)

Output(a, b) ==
  IF op = "add" THEN Sum(a, b)
  ELSE IF op = "dec" THEN _decadja(Sum(a, b).cc, Sum(a, b).val)
  ELSE IF n = 0 THEN _subf8(cc, a, b) ELSE _subcf8(cc, a, b)

(* What a byte stands for. *)
High(byte) == byte \div 16
Low(byte) == byte % 16
Radix == IF op = "dec" THEN 100 ELSE 256
Number(byte) == IF op = "dec" THEN 10 * High(byte) + Low(byte) ELSE byte

(* The digits DAA gets wrong: the carry that makes a low digit of 16 is    *)
(* not in H, and a carry out of the low digit is not seen by a 9.          *)
Slips(a, b) ==
  /\ op = "dec"
  /\ \/ Low(a) + Low(b) = 15 /\ CarryIn = 1
     \/ High(a) + High(b) = 9 /\ Low(a) + Low(b) + CarryIn \in 10..15

DoByte(a, b) ==
  /\ n < MaxBytes
  /\ n' = n + 1
  /\ weight' = Radix * weight
  /\ x' = x + weight * Number(a)
  /\ y' = y + weight * Number(b)
  /\ result' = result + weight * Number(Output(a, b).val)
  /\ cc' = Output(a, b).cc
  /\ slipped' = (slipped \/ Slips(a, b))
  /\ UNCHANGED op

Next == \E a, b \in (IF op = "dec" THEN Decimal ELSE Operand) : DoByte(a, b)

Spec == Init /\ [][Next]_vars

-----------------------------------------------------------------------------
(* However long the numbers are, the bytes and the last carry are the sum, *)
(* or the difference with the carry as the borrow.                         *)
WideIsExact ==
  n > 0 => /\ op = "add" => result + weight * Carry = x + y
           /\ op = "sub" => result - weight * Carry = x - y

(* A decimal sum, its last carry included, is exact until DAA has met one  *)
(* of the two cases it gets wrong, and from then on it is too small.       *)
DecimalIsExact ==
  op = "dec" => IF slipped THEN result + weight * Carry < x + y
                           ELSE n > 0 => result + weight * Carry = x + y

(* The number that the bytes are in two's complement. *)
Signed(value) == IF 2 * value >= weight THEN value - weight ELSE value

(* After a subtraction of any length the branches that do not look at Z    *)
(* decide the order of the whole numbers: BCS and BCC the unsigned, BLT    *)
(* and BGE the signed one.                                                 *)
WideOrder ==
  op = "sub" /\ n > 0 =>
    /\ Taken(cc, bcs) <=> x < y
    /\ Taken(cc, bcc) <=> x >= y
    /\ Taken(cc, blt) <=> Signed(x) < Signed(y)
    /\ Taken(cc, bge) <=> Signed(x) >= Signed(y)

(* After a comparison of two bytes every branch does what its name says. *)
ByteOrder ==
  op = "sub" /\ n = 1 =>
    /\ Taken(cc, beq) <=> x = y
    /\ Taken(cc, bne) <=> x # y
    /\ Taken(cc, bhi) <=> x > y
    /\ Taken(cc, bls) <=> x <= y
    /\ Taken(cc, bgt) <=> Signed(x) > Signed(y)
    /\ Taken(cc, ble) <=> Signed(x) <= Signed(y)

(* V after an addition: the signed sum does not fit the bytes. *)
WideOverflow ==
  op = "add" /\ n > 0 =>
    (cc_v \in cc <=> Signed(x) + Signed(y) # Signed(result))
=============================================================================

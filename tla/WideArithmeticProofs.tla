------------------------ MODULE WideArithmeticProofs ------------------------
(***************************************************************************)
(* Proofs that bytewise addition and subtraction are exact and that the    *)
(* branches after a subtraction decide the order of the whole numbers, for *)
(* numbers of any length and for all bytes.                                *)
(***************************************************************************)
EXTENDS WideArithmetic, TLAPS

(* The flags that stand for each other's values are different numbers. *)
LEMMA FlagsDiffer ==
  /\ cc_n \notin {cc_z, cc_v, cc_c, cc_h}
  /\ cc_z \notin {cc_v, cc_c, cc_h}
  /\ cc_v \notin {cc_c, cc_h}
  /\ cc_c # cc_h
BY DEF cc_n, cc_z, cc_v, cc_c, cc_h

CarryOut(out) == IF cc_c \in out.cc THEN 1 ELSE 0

(* One byte: what an addition returns and what its flags say about it. *)
IsSum(out, a, b, carry) ==
  /\ out.val \in Byte
  /\ out.cc \subseteq CcFlag
  /\ out.val + 256 * CarryOut(out) = a + b + carry
  /\ cc_v \in out.cc <=> (a >= 128 <=> b >= 128) /\ ~(a >= 128 <=> out.val >= 128)
  /\ cc_h \in out.cc <=> (a % 16) + (b % 16) >= 16

LEMMA AddByte ==
  ASSUME NEW codes \in SUBSET CcFlag, NEW a \in Byte, NEW b \in Byte,
         NEW carry \in {0, 1}
  PROVE  IsSum(__addcf8(codes, a, b, carry), a, b, carry)
<1> DEFINE out == __addcf8(codes, a, b, carry)
<1> DEFINE res == a + b + carry
           affected == {cc_n, cc_z, cc_c, cc_v, cc_h}
           on == When(_nsign8(res), cc_n) \cup When(res % 256 = 0, cc_z)
                   \cup When(_carry8(res), cc_c)
                   \cup When((_nsign8(a) <=> _nsign8(b)) /\ ~(_nsign8(a) <=> _nsign8(res)), cc_v)
                   \cup When((a % 16) + (b % 16) >= 16, cc_h)
<1>1. out.val = res % 256 /\ out.cc = Affect(codes, affected, on)
  BY DEF __addcf8
<1>2. on \subseteq affected
  BY DEF When
<1>3. affected \subseteq CcFlag
  BY DEF CcFlag
<1>4. out.cc \subseteq CcFlag
  BY <1>1, <1>2, <1>3 DEF Affect, _setclrf
<1>5. \A flag \in affected : flag \in out.cc <=> flag \in on
  BY <1>1 DEF Affect, _setclrf
<1>6. cc_c \in out.cc <=> _carry8(res)
  BY <1>5, FlagsDiffer DEF When
<1>7. cc_v \in out.cc <=> (_nsign8(a) <=> _nsign8(b)) /\ ~(_nsign8(a) <=> _nsign8(res))
  BY <1>5, FlagsDiffer DEF When
<1>7a. cc_h \in out.cc <=> (a % 16) + (b % 16) >= 16
  BY <1>5, FlagsDiffer DEF When
<1>8. res \in 0..511
  BY DEF Byte
<1>8a. /\ res % 256 \in Byte
       /\ _carry8(res) <=> res >= 256
       /\ res = (res % 256) + (IF res >= 256 THEN 256 ELSE 0)
  <2> HIDE DEF res
  <2> QED BY <1>8 DEF Byte, _carry8
<1>9. /\ _nsign8(a) <=> a >= 128
      /\ _nsign8(b) <=> b >= 128
      /\ _nsign8(res) <=> res % 256 >= 128
  BY DEF Byte, _nsign8
<1> HIDE DEF res, on, affected, out
<1>10. out.val + 256 * CarryOut(out) = a + b + carry
  BY <1>1, <1>6, <1>8, <1>8a DEF res, CarryOut
<1>11. cc_v \in out.cc <=> (a >= 128 <=> b >= 128) /\ ~(a >= 128 <=> out.val >= 128)
  <2>1. out.val >= 128 <=> _nsign8(res)
    BY <1>1, <1>9
  <2> QED BY <1>7, <1>9, <2>1, Zenon
<1> QED BY <1>1, <1>4, <1>7a, <1>8a, <1>10, <1>11 DEF IsSum, out

(* The same for a subtraction. *)
IsDifference(out, a, b, carry) ==
  /\ out.val \in Byte
  /\ out.cc \subseteq CcFlag
  /\ out.val - 256 * CarryOut(out) = a - b - carry
  /\ cc_n \in out.cc <=> out.val >= 128
  /\ cc_z \in out.cc <=> out.val = 0
  /\ cc_v \in out.cc <=> ~(a >= 128 <=> b >= 128) /\ ~(a >= 128 <=> out.val >= 128)

LEMMA SubByte ==
  ASSUME NEW codes \in SUBSET CcFlag, NEW a \in Byte, NEW b \in Byte,
         NEW carry \in {0, 1}
  PROVE  IsDifference(__subcf8(codes, a, b, carry), a, b, carry)
<1> DEFINE out == __subcf8(codes, a, b, carry)
<1> DEFINE diff == a - b - carry
           res == diff % 65536
           affected == {cc_n, cc_z, cc_c, cc_v}
           on == When(_nsign8(res), cc_n) \cup When(res % 256 = 0, cc_z)
                   \cup When(_carry8(res), cc_c)
                   \cup When(~(_nsign8(a) <=> _nsign8(b)) /\ ~(_nsign8(a) <=> _nsign8(res)), cc_v)
<1>1. out.val = res % 256 /\ out.cc = Affect(codes, affected, on)
  BY DEF __subcf8
<1>2. on \subseteq affected
  BY DEF When
<1>3. affected \subseteq CcFlag
  BY DEF CcFlag
<1>4. out.cc \subseteq CcFlag
  BY <1>1, <1>2, <1>3 DEF Affect, _setclrf
<1>5. \A flag \in affected : flag \in out.cc <=> flag \in on
  BY <1>1 DEF Affect, _setclrf
<1>6. cc_c \in out.cc <=> _carry8(res)
  BY <1>5, FlagsDiffer DEF When
<1>7. cc_v \in out.cc <=> ~(_nsign8(a) <=> _nsign8(b)) /\ ~(_nsign8(a) <=> _nsign8(res))
  BY <1>5, FlagsDiffer DEF When
<1>8. cc_n \in out.cc <=> _nsign8(res)
  BY <1>5, FlagsDiffer DEF When
<1>9. cc_z \in out.cc <=> res % 256 = 0
  BY <1>5, FlagsDiffer DEF When
<1>10. diff \in -256..255 /\ res = IF diff < 0 THEN diff + 65536 ELSE diff
  BY DEF Byte
<1>11. /\ res % 256 \in Byte
       /\ _carry8(res) <=> diff < 0
       /\ res % 256 = IF diff < 0 THEN diff + 256 ELSE diff
  <2> HIDE DEF diff, res
  <2>1. CASE diff < 0
    <3>1. res \in 65280..65535 /\ res = diff + 65536
      BY <1>10, <2>1
    <3>2. res \div 256 = 255 /\ res % 256 = diff + 256
      BY <1>10, <3>1
    <3> QED BY <1>10, <2>1, <3>2 DEF Byte, _carry8
  <2>2. CASE ~(diff < 0)
    <3>1. res \in 0..255 /\ res = diff
      BY <1>10, <2>2
    <3>2. res \div 256 = 0 /\ res % 256 = diff
      BY <1>10, <3>1
    <3> QED BY <1>10, <2>2, <3>2 DEF Byte, _carry8
  <2> QED BY <2>1, <2>2
<1>12. /\ _nsign8(a) <=> a >= 128
       /\ _nsign8(b) <=> b >= 128
       /\ _nsign8(res) <=> res % 256 >= 128
  BY DEF Byte, _nsign8
<1> HIDE DEF res, on, affected, out
<1>13. out.val - 256 * CarryOut(out) = a - b - carry
  BY <1>1, <1>6, <1>10, <1>11 DEF diff, CarryOut
<1>14. cc_v \in out.cc <=> ~(a >= 128 <=> b >= 128) /\ ~(a >= 128 <=> out.val >= 128)
  <2>1. out.val >= 128 <=> _nsign8(res)
    BY <1>1, <1>12
  <2> QED BY <1>7, <1>12, <2>1, Zenon
<1>15. (cc_n \in out.cc <=> out.val >= 128) /\ (cc_z \in out.cc <=> out.val = 0)
  BY <1>1, <1>8, <1>9, <1>12
<1> QED BY <1>1, <1>4, <1>11, <1>13, <1>14, <1>15 DEF IsDifference, out

-----------------------------------------------------------------------------
(* DAA on two digits: p and q are the sums of the high and of the low      *)
(* digits, q without the carry.                                            *)
Wrong(p, q, carry) == (q = 15 /\ carry = 1) \/ (p = 9 /\ q + carry \in 10..15)

(* A number that has two decimal digits, d1 and d0.                        *)
IsDigits(byte, d1, d0) == d1 \in 0..9 /\ d0 \in 0..9 /\ byte = 16 * d1 + d0

LEMMA DigitsOf ==
  ASSUME NEW byte, NEW d1, NEW d0, IsDigits(byte, d1, d0)
  PROVE  byte \in Packed /\ byte \in Byte /\ High(byte) = d1 /\ Low(byte) = d0
  BY DEF IsDigits, Packed, Byte, High, Low

(* The sum of the digits, h and low with the carry between them, after the *)
(* corrections, seen before it is cut to a byte.                           *)
Corrected(h, low, q) ==
  (IF h > 9 \/ (h = 9 /\ low > 9) THEN 16 * h + 96 ELSE 16 * h)
    + (IF q >= 16 \/ low > 9 THEN low + 6 ELSE low)

(* They are the digits d1 and d0 and a carry, of the sum unless DAA is     *)
(* wrong.                                                                  *)
Gives(p, q, carry, h, low, d1, d0) ==
  /\ Corrected(h, low, q) % 256 = 16 * d1 + d0
  /\ LET value == 10 * d1 + d0 + (IF h > 9 THEN 100 ELSE 0)
     IN  IF Wrong(p, q, carry) THEN value < 10 * p + q + carry
                               ELSE value = 10 * p + q + carry

LEMMA CorrectedDigits ==
  ASSUME NEW p \in 0..18, NEW q \in 0..18, NEW carry \in {0, 1},
         NEW h \in Int, h = IF q + carry >= 16 THEN p + 1 ELSE p,
         NEW low \in Int, low = IF q + carry >= 16 THEN q + carry - 16 ELSE q + carry
  PROVE  \E d1, d0 \in 0..9 : Gives(p, q, carry, h, low, d1, d0)
<1> DEFINE Fits(d1, d0) ==
             /\ d1 \in 0..9 /\ d0 \in 0..9
             /\ \/ Corrected(h, low, q) = 16 * d1 + d0
                \/ Corrected(h, low, q) = 16 * d1 + d0 + 256
             /\ IF Wrong(p, q, carry)
                THEN 10 * d1 + d0 + (IF h > 9 THEN 100 ELSE 0) < 10 * p + q + carry
                ELSE 10 * d1 + d0 + (IF h > 9 THEN 100 ELSE 0) = 10 * p + q + carry
<1>1. SUFFICES \E d1, d0 \in 0..9 : Fits(d1, d0)
  <2>1. PICK d1 \in 0..9, d0 \in 0..9 : Fits(d1, d0)
    BY <1>1
  <2>2. Corrected(h, low, q) % 256 = 16 * d1 + d0
    BY <2>1
  <2> QED BY <2>1, <2>2 DEF Gives
<1>1a. \A d1, d0 : Fits(d1, d0) => \E e1, e0 \in 0..9 : Fits(e1, e0)
  <2>1. \A d1, d0 : Fits(d1, d0) => d1 \in 0..9 /\ d0 \in 0..9
    OBVIOUS
  <2> HIDE DEF Fits
  <2> QED BY <2>1
<1>2. CASE q >= 16
  <2>1. CASE h >= 10
    <3>1. Fits(h - 10, low + 6)
      BY <1>2, <2>1 DEF Corrected, Wrong
    <3> HIDE DEF Fits
    <3> QED BY <3>1, <1>1a
  <2>2. CASE h < 10
    <3>1. Fits(h, low + 6)
      BY <1>2, <2>2 DEF Corrected, Wrong
    <3> HIDE DEF Fits
    <3> QED BY <3>1, <1>1a
  <2> QED BY <2>1, <2>2
<1>3. CASE q < 16 /\ q + carry = 16
  <2>1. CASE h >= 10
    <3>1. Fits(h - 10, 0)
      BY <1>3, <2>1 DEF Corrected, Wrong
    <3> HIDE DEF Fits
    <3> QED BY <3>1, <1>1a
  <2>2. CASE h < 10
    <3>1. Fits(h, 0)
      BY <1>3, <2>2 DEF Corrected, Wrong
    <3> HIDE DEF Fits
    <3> QED BY <3>1, <1>1a
  <2> QED BY <2>1, <2>2
<1>4. CASE q + carry \in 10..15
  <2>1. CASE h >= 10
    <3>1. Fits(h - 9, low - 10)
      BY <1>4, <2>1 DEF Corrected, Wrong
    <3> HIDE DEF Fits
    <3> QED BY <3>1, <1>1a
  <2>2. CASE h = 9
    <3>1. Fits(0, low - 10)
      BY <1>4, <2>2 DEF Corrected, Wrong
    <3> HIDE DEF Fits
    <3> QED BY <3>1, <1>1a
  <2>3. CASE h < 9
    <3>1. Fits(h + 1, low - 10)
      BY <1>4, <2>3 DEF Corrected, Wrong
    <3> HIDE DEF Fits
    <3> QED BY <3>1, <1>1a
  <2> QED BY <2>1, <2>2, <2>3
<1>5. CASE q + carry < 10
  <2>1. CASE h >= 10
    <3>1. Fits(h - 10, low)
      BY <1>5, <2>1 DEF Corrected, Wrong
    <3> HIDE DEF Fits
    <3> QED BY <3>1, <1>1a
  <2>2. CASE h < 10
    <3>1. Fits(h, low)
      BY <1>5, <2>2 DEF Corrected, Wrong
    <3> HIDE DEF Fits
    <3> QED BY <3>1, <1>1a
  <2> QED BY <2>1, <2>2
<1> QED BY <1>2, <1>3, <1>4, <1>5

Pair(byte) == 10 * High(byte) + Low(byte)

(* One byte of two digits: what ADD or ADC and the DAA after it return.    *)
IsDecimalSum(out, a, b, carry) ==
  /\ out.val \in Packed
  /\ out.cc \subseteq CcFlag
  /\ IF Wrong(High(a) + High(b), Low(a) + Low(b), carry)
     THEN Pair(out.val) + 100 * CarryOut(out) < Pair(a) + Pair(b) + carry
     ELSE Pair(out.val) + 100 * CarryOut(out) = Pair(a) + Pair(b) + carry

(* What DAA does to the accumulator and to C. *)
LEMMA Daa ==
  ASSUME NEW codes \in SUBSET CcFlag, NEW a \in Byte
  PROVE  LET high == a - (a % 16)
             low  == a % 16
             a74  == IF cc_c \in codes \/ high > 144 \/ (high > 128 /\ low > 9)
                     THEN high + 96 ELSE high
             a30  == IF cc_h \in codes \/ low > 9 THEN low + 6 ELSE low
             out  == _decadja(codes, a)
         IN  /\ out.val = (a74 + a30) % 256
             /\ out.cc \subseteq CcFlag
             /\ cc_c \in out.cc <=> cc_c \in codes \/ a74 >= 256
<1> DEFINE high == a - (a % 16)
           low  == a % 16
           a74  == IF cc_c \in codes \/ high > 144 \/ (high > 128 /\ low > 9)
                   THEN high + 96 ELSE high
           a30  == IF cc_h \in codes \/ low > 9 THEN low + 6 ELSE low
           res  == (a74 + a30) % 256
           out  == _decadja(codes, a)
<1>1. out.val = res /\ out.cc = _flags_nz_v8(codes, res) \cup When(a74 >= 256, cc_c)
  BY DEF _decadja
<1> HIDE DEF out, res, a74, a30
<1>2. {cc_n, cc_z, cc_v, cc_c} \subseteq CcFlag
  BY DEF CcFlag
<1>3. out.cc \subseteq CcFlag
  BY <1>1, <1>2 DEF _flags_nz_v8, Affect, _setclrf, When
<1>4. cc_c \in out.cc <=> cc_c \in codes \/ a74 >= 256
  BY <1>1, FlagsDiffer DEF _flags_nz_v8, Affect, _setclrf, When
<1>5. out.val = (a74 + a30) % 256
  BY <1>1 DEF res
<1> QED BY <1>3, <1>4, <1>5 DEF out, a74, a30

LEMMA DecimalByte ==
  ASSUME NEW codes \in SUBSET CcFlag, NEW a \in Packed, NEW b \in Packed,
         NEW carry \in {0, 1}, NEW sum, sum = __addcf8(codes, a, b, carry)
  PROVE  IsDecimalSum(_decadja(sum.cc, sum.val), a, b, carry)
<1>1. PICK ah \in 0..9, al \in 0..9 : IsDigits(a, ah, al)
  BY DEF Packed, IsDigits
<1>2. PICK bh \in 0..9, bl \in 0..9 : IsDigits(b, bh, bl)
  BY DEF Packed, IsDigits
<1>3. /\ a \in Byte /\ High(a) = ah /\ Low(a) = al
      /\ b \in Byte /\ High(b) = bh /\ Low(b) = bl
  BY <1>1, <1>2, DigitsOf
<1> DEFINE val == sum.val
           up == CarryOut(sum)
           p == ah + bh
           q == al + bl
           h == IF q + carry >= 16 THEN p + 1 ELSE p
           low == IF q + carry >= 16 THEN q + carry - 16 ELSE q + carry
<1>4. IsSum(sum, a, b, carry)
  BY <1>3, AddByte
<1>5. /\ val \in Byte /\ sum.cc \in SUBSET CcFlag /\ up \in {0, 1}
      /\ up = 1 <=> cc_c \in sum.cc
      /\ cc_h \in sum.cc <=> q >= 16
      /\ val + 256 * up = 16 * p + q + carry
  BY <1>1, <1>2, <1>3, <1>4 DEF IsSum, CarryOut, IsDigits, Low
<1>6. /\ p \in 0..18 /\ q \in 0..18 /\ h \in 0..19 /\ low \in 0..15
      /\ 16 * p + q + carry = 16 * h + low
  OBVIOUS
<1> DEFINE out == _decadja(sum.cc, val)
           a74 == IF cc_c \in sum.cc \/ val - (val % 16) > 144
                     \/ (val - (val % 16) > 128 /\ val % 16 > 9)
                  THEN val - (val % 16) + 96 ELSE val - (val % 16)
           a30 == IF cc_h \in sum.cc \/ val % 16 > 9 THEN (val % 16) + 6 ELSE val % 16
<1>7. /\ out.val = (a74 + a30) % 256
      /\ out.cc \subseteq CcFlag
      /\ cc_c \in out.cc <=> cc_c \in sum.cc \/ a74 >= 256
  BY <1>5, Daa
<1>8. val % 16 = low /\ val - (val % 16) = 16 * h - 256 * up /\ (up = 1 <=> h >= 16)
  <2> HIDE DEF val, up, p, q, h, low
  <2> QED BY <1>5, <1>6 DEF Byte
<1>9. /\ a74 + a30 + 256 * up = Corrected(h, low, q)
      /\ cc_c \in sum.cc \/ a74 >= 256 <=> h > 9
  <2>1. a74 = IF up = 1 \/ 16 * h - 256 * up > 144 \/ (16 * h - 256 * up > 128 /\ low > 9)
              THEN 16 * h - 256 * up + 96 ELSE 16 * h - 256 * up
    BY <1>5, <1>8
  <2>2. a30 = IF q >= 16 \/ low > 9 THEN low + 6 ELSE low
    BY <1>5, <1>8
  <2> HIDE DEF a74, a30, val, up, p, q, h, low
  <2>3. a74 = (IF h > 9 \/ (h = 9 /\ low > 9) THEN 16 * h + 96 ELSE 16 * h) - 256 * up
    BY <1>5, <1>6, <1>8, <2>1
  <2>4. cc_c \in sum.cc \/ a74 >= 256 <=> h > 9
    BY <1>5, <1>6, <1>8, <2>1
  <2> QED BY <1>5, <1>6, <2>2, <2>3, <2>4 DEF Corrected
<1>10. a74 \in Int /\ a30 \in Int
  <2>1. val % 16 \in Int /\ val - (val % 16) \in Int
    <3>1. val \in Int
      BY <1>5 DEF Byte
    <3> HIDE DEF val
    <3> QED BY <3>1
  <2> DEFINE ones == val % 16
             tens == val - ones
  <2>2. ones \in Int /\ tens \in Int /\ tens + 96 \in Int /\ ones + 6 \in Int
    BY <2>1
  <2> HIDE DEF ones, tens
  <2> QED BY <2>2 DEF tens, ones
<1>11. out.val = Corrected(h, low, q) % 256
  <2> HIDE DEF a74, a30, out, val, up, p, q, h, low
  <2> QED BY <1>5, <1>7, <1>9, <1>10
<1>12. CarryOut(out) = IF h > 9 THEN 1 ELSE 0
  BY <1>7, <1>9 DEF CarryOut
<1>13. PICK d1 \in 0..9, d0 \in 0..9 : Gives(p, q, carry, h, low, d1, d0)
  <2>1. /\ h = IF q + carry >= 16 THEN p + 1 ELSE p
        /\ low = IF q + carry >= 16 THEN q + carry - 16 ELSE q + carry
        /\ h \in Int /\ low \in Int
    OBVIOUS
  <2> HIDE DEF p, q, h, low
  <2> QED BY <1>6, <2>1, CorrectedDigits
<1> HIDE DEF out, a74, a30, val, up, h, low
<1>14. out.val \in Packed /\ Pair(out.val) = 10 * d1 + d0
  <2>1. IsDigits(out.val, d1, d0)
    BY <1>11, <1>13 DEF IsDigits, Gives
  <2> QED BY <2>1, DigitsOf DEF Pair
<1>15. 10 * p + q + carry = Pair(a) + Pair(b) + carry
  BY <1>3 DEF Pair
<1>16. 100 * CarryOut(out) = IF h > 9 THEN 100 ELSE 0
  BY <1>12
<1>17. p = High(a) + High(b) /\ q = Low(a) + Low(b)
  BY <1>3
<1>18. IF Wrong(p, q, carry)
       THEN Pair(out.val) + 100 * CarryOut(out) < Pair(a) + Pair(b) + carry
       ELSE Pair(out.val) + 100 * CarryOut(out) = Pair(a) + Pair(b) + carry
  BY <1>13, <1>14, <1>15, <1>16 DEF Gives
<1> QED BY <1>7, <1>14, <1>17, <1>18 DEF IsDecimalSum, out, val

-----------------------------------------------------------------------------
(* One more byte at the high end decides the sign. *)
LEMMA TopByte ==
  ASSUME NEW w \in Nat \ {0}, NEW low \in 0..(w - 1), NEW top \in Byte
  PROVE  /\ low + w * top \in 0..(256 * w - 1)
         /\ 2 * (low + w * top) >= 256 * w <=> top >= 128
<1>1. w * top \in Nat /\ w * top <= w * 255
  BY DEF Byte
<1>2. top >= 128 => w * top >= w * 128
  BY DEF Byte
<1>3. top < 128 => w * top <= w * 127
  BY DEF Byte
<1> DEFINE product == w * top
<1>4. product \in Nat /\ product <= w * 255 /\ (top >= 128 => product >= w * 128)
      /\ (top < 128 => product <= w * 127)
  BY <1>1, <1>2, <1>3
<1> HIDE DEF product
<1>5. low + product \in 0..(256 * w - 1) /\ (2 * (low + product) >= 256 * w <=> top >= 128)
  BY <1>4 DEF Byte
<1> QED BY <1>5 DEF product

(* The same for two decimal digits. *)
LEMMA TopDigits ==
  ASSUME NEW w \in Nat \ {0}, NEW low \in 0..(w - 1), NEW top \in 0..99
  PROVE  low + w * top \in 0..(100 * w - 1)
<1>1. w * top \in Nat /\ w * top <= w * 99
  OBVIOUS
<1> DEFINE product == w * top
<1>2. product \in Nat /\ product <= w * 99
  BY <1>1
<1> HIDE DEF product
<1>3. low + product \in 0..(100 * w - 1)
  BY <1>2
<1> QED BY <1>3 DEF product

Negative(value) == 2 * value >= weight

(* What the flags say of the bytes so far: V and N as after one operation  *)
(* on the whole numbers, Z on the first byte.                              *)
FlagsOfWhole ==
  n > 0 =>
    /\ op = "add" =>
         (cc_v \in cc <=> (Negative(x) <=> Negative(y)) /\ ~(Negative(x) <=> Negative(result)))
    /\ op = "sub" =>
         /\ cc_v \in cc <=> ~(Negative(x) <=> Negative(y)) /\ ~(Negative(x) <=> Negative(result))
         /\ cc_n \in cc <=> Negative(result)
         /\ n = 1 => (cc_z \in cc <=> result = 0)

Started == n = 0 => weight = 1 /\ x = 0 /\ y = 0 /\ result = 0 /\ ~slipped

WideInv == TypeOK /\ Started /\ WideIsExact /\ DecimalIsExact /\ FlagsOfWhole

LEMMA CarryInIsBit == CarryIn \in {0, 1}
BY DEF CarryIn, Carry

(* The instruction for the next byte, seen through the lemmas above.       *)
LEMMA OutputOfByte ==
  ASSUME TypeOK, NEW a, NEW b
  PROVE  /\ Sum(a, b) = __addcf8(cc, a, b, CarryIn)
         /\ op = "add" => Output(a, b) = __addcf8(cc, a, b, CarryIn)
         /\ op = "sub" => Output(a, b) = __subcf8(cc, a, b, CarryIn)
         /\ op = "dec" => Output(a, b) = _decadja(Sum(a, b).cc, Sum(a, b).val)
  BY DEF TypeOK, Output, Sum, CarryIn, Carry, _addf8, _addcf8, _subf8, _subcf8

(* One more byte of a binary number. *)
LEMMA BinaryStep ==
  ASSUME WideInv, op # "dec", NEW a \in Operand, NEW b \in Operand, DoByte(a, b)
  PROVE  WideInv'
<1>1. a \in Byte /\ b \in Byte
  BY WideAssumption
<1>2. /\ n \in 0..MaxBytes /\ MaxBytes \in Nat /\ weight \in Nat \ {0}
      /\ op \in {"add", "sub"} /\ cc \in SUBSET CcFlag
      /\ x \in 0..(weight - 1) /\ y \in 0..(weight - 1) /\ result \in 0..(weight - 1)
  BY WideAssumption DEF WideInv, TypeOK
<1> DEFINE out == Output(a, b)
           carry == CarryIn
<1>3. carry \in {0, 1} /\ carry = IF n = 0 THEN 0 ELSE Carry
  BY CarryInIsBit DEF CarryIn
<1>4. /\ n' = n + 1 /\ n < MaxBytes /\ weight' = 256 * weight /\ op' = op
      /\ x' = x + weight * a /\ y' = y + weight * b
      /\ result' = result + weight * out.val /\ cc' = out.cc
      /\ slipped' = slipped
  BY <1>2 DEF DoByte, Radix, Number, Slips, WideInv, TypeOK
<1>5. op = "add" => IsSum(out, a, b, carry)
  BY <1>1, <1>2, <1>3, AddByte, OutputOfByte DEF WideInv
<1>6. op = "sub" => IsDifference(out, a, b, carry)
  BY <1>1, <1>2, <1>3, SubByte, OutputOfByte DEF WideInv
<1> HIDE DEF out, carry
<1>7. out.val \in Byte /\ out.cc \subseteq CcFlag
  BY <1>2, <1>5, <1>6 DEF IsSum, IsDifference
<1>8. TypeOK' /\ Started'
  <2>1. /\ x' \in 0..(weight' - 1) /\ y' \in 0..(weight' - 1)
        /\ result' \in 0..(weight' - 1)
    BY <1>1, <1>2, <1>4, <1>7, TopByte
  <2>2. slipped' \in BOOLEAN
    BY <1>4 DEF WideInv, TypeOK
  <2> QED BY <1>2, <1>4, <1>7, <2>1, <2>2 DEF TypeOK, Started
<1>9. /\ Negative(x)' <=> a >= 128
      /\ Negative(y)' <=> b >= 128
      /\ Negative(result)' <=> out.val >= 128
  BY <1>1, <1>2, <1>4, <1>7, TopByte DEF Negative
<1>10. WideIsExact'
  <2>1. Carry' = CarryOut(out) /\ CarryOut(out) \in {0, 1}
    BY <1>4 DEF Carry, CarryOut
  <2>2. /\ op = "add" => result + weight * carry = x + y
        /\ op = "sub" => result - weight * carry = x - y
    <3>1. CASE n = 0
      BY <1>2, <1>3, <3>1 DEF WideInv, Started
    <3>2. CASE n # 0
      <4>1. carry = Carry /\ n > 0
        BY <1>2, <1>3, <3>2
      <4> QED BY <4>1 DEF WideInv, WideIsExact
    <3> QED BY <3>1, <3>2
  <2> DEFINE val == out.val
             up  == CarryOut(out)
  <2>3. val \in Byte /\ up \in {0, 1}
    BY <1>7, <2>1
  <2>4. /\ op = "add" => val + 256 * up = a + b + carry
        /\ op = "sub" => val - 256 * up = a - b - carry
    BY <1>5, <1>6 DEF IsSum, IsDifference
  <2>5. /\ result' = result + weight * val /\ Carry' = up /\ op' = op
        /\ weight' = 256 * weight /\ x' = x + weight * a /\ y' = y + weight * b
    BY <1>4, <2>1
  <2> HIDE DEF val, up
  <2>6. ASSUME op = "add"
        PROVE  result' + weight' * Carry' = x' + y'
    <3>1. weight * (val + 256 * up) = weight * (a + b + carry)
      BY <2>4, <2>6
    <3>2. /\ weight * (val + 256 * up) = weight * val + (256 * weight) * up
          /\ weight * (a + b + carry) = weight * a + weight * b + weight * carry
      BY <1>1, <1>2, <1>3, <2>3 DEF Byte
    <3>3. /\ weight * val \in Int /\ weight * a \in Int /\ weight * b \in Int
          /\ weight * carry \in Int /\ (256 * weight) * up \in Int
      BY <1>1, <1>2, <1>3, <2>3 DEF Byte
    <3> QED BY <1>2, <2>2, <2>5, <2>6, <3>1, <3>2, <3>3
  <2>7. ASSUME op = "sub"
        PROVE  result' - weight' * Carry' = x' - y'
    <3>1. weight * (val - 256 * up) = weight * (a - b - carry)
      BY <2>4, <2>7
    <3>2. /\ weight * (val - 256 * up) = weight * val - (256 * weight) * up
          /\ weight * (a - b - carry) = weight * a - weight * b - weight * carry
      BY <1>1, <1>2, <1>3, <2>3 DEF Byte
    <3>3. /\ weight * val \in Int /\ weight * a \in Int /\ weight * b \in Int
          /\ weight * carry \in Int /\ (256 * weight) * up \in Int
      BY <1>1, <1>2, <1>3, <2>3 DEF Byte
    <3> QED BY <1>2, <2>2, <2>5, <2>7, <3>1, <3>2, <3>3
  <2> QED BY <2>5, <2>6, <2>7 DEF WideIsExact
<1>11. FlagsOfWhole'
  <2>1. ASSUME op = "add"
        PROVE  (cc_v \in cc <=> (Negative(x) <=> Negative(y)) /\ ~(Negative(x) <=> Negative(result)))'
    BY <1>4, <1>5, <1>9, <2>1 DEF IsSum
  <2>2. ASSUME op = "sub"
        PROVE  /\ (cc_v \in cc <=> ~(Negative(x) <=> Negative(y)) /\ ~(Negative(x) <=> Negative(result)))'
               /\ (cc_n \in cc <=> Negative(result))'
    BY <1>4, <1>6, <1>9, <2>2 DEF IsDifference
  <2>3. ASSUME op = "sub", n' = 1
        PROVE  (cc_z \in cc <=> result = 0)'
    <3>1. n = 0
      BY <1>2, <1>4, <2>3
    <3>2. result' = out.val
      BY <1>4, <1>7, <3>1 DEF WideInv, Started, Byte
    <3> QED BY <1>4, <1>6, <2>3, <3>2 DEF IsDifference
  <2> QED BY <1>4, <2>1, <2>2, <2>3 DEF FlagsOfWhole
<1>12. DecimalIsExact'
  BY <1>2, <1>4 DEF DecimalIsExact
<1> QED BY <1>8, <1>10, <1>11, <1>12 DEF WideInv

(* One more byte of a decimal number.  What DAA falls short by, d, weighs  *)
(* as much as the byte.                                                    *)
LEMMA DecimalStep ==
  ASSUME WideInv, op = "dec", NEW a \in Decimal, NEW b \in Decimal, DoByte(a, b)
  PROVE  WideInv'
<1>1. a \in Packed /\ b \in Packed
  BY WideAssumption
<1>2. /\ n \in 0..MaxBytes /\ MaxBytes \in Nat /\ weight \in Nat \ {0}
      /\ cc \in SUBSET CcFlag /\ slipped \in BOOLEAN
      /\ x \in 0..(weight - 1) /\ y \in 0..(weight - 1) /\ result \in 0..(weight - 1)
  BY WideAssumption DEF WideInv, TypeOK
<1> DEFINE out == Output(a, b)
           wrong == Wrong(High(a) + High(b), Low(a) + Low(b), CarryIn)
<1>3. CarryIn \in {0, 1} /\ CarryIn = IF n = 0 THEN 0 ELSE Carry
  BY CarryInIsBit DEF CarryIn
<1>4. IsDecimalSum(out, a, b, CarryIn)
  BY <1>1, <1>2, <1>3, DecimalByte, OutputOfByte DEF WideInv
<1>5. /\ n' = n + 1 /\ n < MaxBytes /\ weight' = 100 * weight /\ op' = "dec"
      /\ x' = x + weight * Pair(a) /\ y' = y + weight * Pair(b)
      /\ result' = result + weight * Pair(out.val) /\ cc' = out.cc
      /\ slipped' = (slipped \/ wrong)
  BY DEF DoByte, Radix, Number, Pair, Slips, Wrong
<1> HIDE DEF out, wrong
<1>6. \A byte \in Packed : Pair(byte) \in 0..99
  <2>1. ASSUME NEW d1 \in 0..9, NEW d0 \in 0..9
        PROVE  Pair(16 * d1 + d0) = 10 * d1 + d0
    <3>1. IsDigits(16 * d1 + d0, d1, d0)
      BY DEF IsDigits
    <3> QED BY <3>1, DigitsOf DEF Pair
  <2> QED BY <2>1 DEF Packed
<1> DEFINE A == Pair(a)
           B == Pair(b)
           val == Pair(out.val)
           up == CarryOut(out)
           c == CarryIn
<1>7. A \in 0..99 /\ B \in 0..99 /\ val \in 0..99 /\ up \in {0, 1}
  BY <1>1, <1>4, <1>6 DEF IsDecimalSum, CarryOut
<1>7a. c \in 0..1
  BY <1>3
<1>8. TypeOK' /\ Started'
  <2>1. cc' \subseteq CcFlag
    BY <1>4, <1>5 DEF IsDecimalSum
  <2>2. /\ x' \in 0..(weight' - 1) /\ y' \in 0..(weight' - 1)
        /\ result' \in 0..(weight' - 1)
    BY <1>2, <1>5, <1>7, TopDigits
  <2>3. slipped' \in BOOLEAN
    BY <1>5
  <2> QED BY <1>2, <1>5, <2>1, <2>2, <2>3 DEF TypeOK, Started
<1>9. IF wrong THEN val + 100 * up < A + B + c ELSE val + 100 * up = A + B + c
  BY <1>4 DEF IsDecimalSum, wrong
<1> HIDE DEF A, B, val, up, c
<1>10. PICK d \in Nat : val + 100 * up + d = A + B + c /\ (wrong <=> d > 0)
  <2> DEFINE short == A + B + c - (val + 100 * up)
  <2>1. short \in Nat /\ val + 100 * up + short = A + B + c /\ (wrong <=> short > 0)
    <3>1. CASE wrong
      <4>1. val + 100 * up < A + B + c
        BY <1>9, <3>1
      <4>2. short \in Nat /\ val + 100 * up + short = A + B + c /\ short > 0
        BY <1>7, <1>7a, <4>1
      <4> QED BY <3>1, <4>2
    <3>2. CASE ~wrong
      <4>1. val + 100 * up = A + B + c
        BY <1>9, <3>2
      <4>2. short = 0 /\ val + 100 * up + short = A + B + c
        BY <1>7, <1>7a, <4>1
      <4> QED BY <3>2, <4>2
    <3> QED BY <3>1, <3>2
  <2> HIDE DEF short
  <2> QED BY <2>1
<1>11. result' + weight' * Carry' + weight * d
         = (result + weight * c) + weight * A + weight * B
  <2>1. Carry' = up
    BY <1>5 DEF Carry, CarryOut, up
  <2>2. weight * (val + 100 * up + d) = weight * (A + B + c)
    BY <1>10
  <2>3. /\ weight * (val + 100 * up + d) = weight * val + (100 * weight) * up + weight * d
        /\ weight * (A + B + c) = weight * A + weight * B + weight * c
    <3>1. /\ weight * (val + 100 * up + d) = weight * (val + 100 * up) + weight * d
          /\ weight * (val + 100 * up) = weight * val + weight * (100 * up)
          /\ weight * (100 * up) = (100 * weight) * up
      BY <1>2, <1>7
    <3>2. weight * (A + B + c) = weight * A + weight * B + weight * c
      BY <1>2, <1>7, <1>7a
    <3> QED BY <3>1, <3>2
  <2>4. /\ weight * val \in Int /\ (100 * weight) * up \in Int /\ weight * d \in Int
        /\ weight * A \in Int /\ weight * B \in Int /\ weight * c \in Int
    BY <1>2, <1>7, <1>7a
  <2>5. weight' * Carry' = (100 * weight) * up /\ result' = result + weight * val
    BY <1>5, <2>1 DEF val
  <2> QED BY <1>2, <2>2, <2>3, <2>4, <2>5
<1>12. /\ slipped => result + weight * c < x + y
       /\ ~slipped => result + weight * c = x + y
  <2>1. CASE n = 0
    BY <1>2, <1>3, <2>1 DEF WideInv, Started, c
  <2>2. CASE n # 0
    BY <1>2, <1>3, <2>2 DEF WideInv, DecimalIsExact, c
  <2> QED BY <2>1, <2>2
<1>13. /\ weight * d \in Nat
       /\ wrong => weight * d > 0
       /\ ~wrong => weight * d = 0
  BY <1>2, <1>10
<1>14. DecimalIsExact'
  <2>1. /\ weight * A \in Int /\ weight * B \in Int /\ weight * c \in Int
        /\ result' + weight' * Carry' \in Int
    <3>1. Carry' \in {0, 1}
      BY DEF Carry
    <3> QED BY <1>2, <1>7, <1>7a, <1>8, <3>1 DEF TypeOK
  <2>2. x' + y' = x + y + weight * A + weight * B
    BY <1>2, <1>5, <2>1 DEF A, B
  <2> DEFINE total == result' + weight' * Carry'
             fall == weight * d
             before == result + weight * c
             more == weight * A + weight * B
  <2>3. /\ total \in Int /\ fall \in Nat /\ before \in Int /\ more \in Int
        /\ total + fall = before + more
        /\ x' + y' = x + y + more
    BY <1>2, <1>11, <1>13, <2>1, <2>2
  <2> HIDE DEF total, fall, before, more
  <2>4. /\ wrong => fall > 0
        /\ ~wrong => fall = 0
        /\ slipped => before < x + y
        /\ ~slipped => before = x + y
    BY <1>12, <1>13 DEF fall, before
  <2>5. IF slipped' THEN total < x' + y' ELSE total = x' + y'
    <3>1. CASE slipped
      <4>1. slipped' /\ before < x + y /\ fall \in Nat
        BY <1>5, <2>3, <2>4, <3>1
      <4>2. total < x' + y'
        BY <1>2, <2>3, <4>1
      <4> QED BY <4>1, <4>2
    <3>2. CASE ~slipped /\ wrong
      <4>1. slipped' /\ before = x + y /\ fall > 0
        BY <1>5, <2>4, <3>2
      <4>2. total < x' + y'
        BY <1>2, <2>3, <4>1
      <4> QED BY <4>1, <4>2
    <3>3. CASE ~slipped /\ ~wrong
      <4>1. ~slipped' /\ before = x + y /\ fall = 0
        BY <1>5, <2>4, <3>3
      <4>2. total = x' + y'
        BY <1>2, <2>3, <4>1
      <4> QED BY <4>1, <4>2
    <3> QED BY <3>1, <3>2, <3>3
  <2> QED BY <2>5 DEF DecimalIsExact, total
<1>15. WideIsExact' /\ FlagsOfWhole'
  BY <1>5 DEF WideIsExact, FlagsOfWhole
<1> QED BY <1>8, <1>14, <1>15 DEF WideInv

LEMMA WideInvStep ==
  ASSUME WideInv, [Next]_vars
  PROVE  WideInv'
<1>1. CASE UNCHANGED vars
  BY <1>1 DEF vars, WideInv, TypeOK, Started, WideIsExact, DecimalIsExact, FlagsOfWhole,
              Carry, Negative
<1>2. CASE Next
  BY <1>2, BinaryStep, DecimalStep DEF Next
<1> QED BY <1>1, <1>2

(* The inductive invariant holds. *)
THEOREM WideInvariant == Spec => []WideInv
<1>1. Init => WideInv
  <2>1. Init => TypeOK
    <3>1. Init => cc \subseteq CcFlag
      BY WideAssumption DEF Init
    <3>2. Init => n \in 0..MaxBytes
      BY WideAssumption DEF Init
    <3>3. Init => slipped \in BOOLEAN
      BY Zenon DEF Init
    <3>4. Init => /\ op \in {"add", "sub", "dec"} /\ weight \in Nat \ {0}
                  /\ x \in 0..(weight - 1) /\ y \in 0..(weight - 1)
                  /\ result \in 0..(weight - 1)
      BY DEF Init
    <3> QED BY <3>1, <3>2, <3>3, <3>4 DEF TypeOK
  <2>2. Init => Started /\ WideIsExact /\ DecimalIsExact /\ FlagsOfWhole
    BY DEF Init, Started, WideIsExact, DecimalIsExact, FlagsOfWhole
  <2> QED BY <2>1, <2>2 DEF WideInv
<1>2. WideInv /\ [Next]_vars => WideInv'
  BY WideInvStep
<1> QED BY <1>1, <1>2, PTL DEF Spec

(* The numbers and the result always have as many bytes as were done.      *)
THEOREM TypeCorrect == Spec => []TypeOK
<1>1. WideInv => TypeOK
  BY DEF WideInv
<1> QED BY <1>1, WideInvariant, PTL

(* Bytewise sums and differences are exact at any length. *)
THEOREM WideIsExactHolds == Spec => []WideIsExact
<1>1. WideInv => WideIsExact
  BY DEF WideInv
<1> QED BY <1>1, WideInvariant, PTL

(* Decimal sums are exact at any length unless a byte of them is one of    *)
(* the two kinds DAA gets wrong, and then they are too small.              *)
THEOREM DecimalIsExactHolds == Spec => []DecimalIsExact
<1>1. WideInv => DecimalIsExact
  BY DEF WideInv
<1> QED BY <1>1, WideInvariant, PTL

-----------------------------------------------------------------------------
(* The borrow decides the unsigned order; N and V, read as the signs of    *)
(* the whole numbers, decide the signed one.                               *)
LEMMA OrderFromFlags ==
  ASSUME WideInv, op = "sub", n > 0
  PROVE  /\ cc_c \in cc <=> x < y
         /\ ~(cc_n \in cc <=> cc_v \in cc) <=> Signed(x) < Signed(y)
<1>1. /\ weight \in Nat \ {0} /\ x \in 0..(weight - 1) /\ y \in 0..(weight - 1)
      /\ result \in 0..(weight - 1)
  BY DEF WideInv, TypeOK
<1>2. result - weight * Carry = x - y
  BY DEF WideInv, WideIsExact
<1>3. /\ cc_c \in cc => result - weight = x - y
      /\ cc_c \notin cc => result = x - y
  BY <1>1, <1>2 DEF Carry
<1>4. cc_c \in cc <=> x < y
  BY <1>1, <1>3
<1>5. /\ cc_v \in cc <=> ~(Negative(x) <=> Negative(y)) /\ ~(Negative(x) <=> Negative(result))
      /\ cc_n \in cc <=> Negative(result)
  BY DEF WideInv, FlagsOfWhole
<1>6. CASE Negative(x) <=> Negative(y)
  <2>1. cc_v \notin cc
    BY <1>5, <1>6
  <2>2. Signed(x) < Signed(y) <=> x < y
    BY <1>1, <1>6 DEF Signed, Negative
  <2>3. Negative(result) <=> x < y
    BY <1>1, <1>3, <1>4, <1>6 DEF Negative
  <2> QED BY <1>4, <1>5, <2>1, <2>2, <2>3
<1>7. CASE ~(Negative(x) <=> Negative(y))
  <2>1. ~(cc_n \in cc <=> cc_v \in cc) <=> Negative(x)
    BY <1>5, <1>7
  <2>2. Signed(x) < Signed(y) <=> Negative(x)
    BY <1>1, <1>7 DEF Signed, Negative
  <2> QED BY <1>4, <2>1, <2>2
<1> QED BY <1>6, <1>7

(* What the branch conditions look at. *)
LEMMA TakenMeans ==
  /\ Taken(cc, bcs) <=> cc_c \in cc
  /\ Taken(cc, bcc) <=> ~(cc_c \in cc)
  /\ Taken(cc, beq) <=> cc_z \in cc
  /\ Taken(cc, bne) <=> ~(cc_z \in cc)
  /\ Taken(cc, blt) <=> ~(cc_n \in cc <=> cc_v \in cc)
  /\ Taken(cc, bge) <=> (cc_n \in cc <=> cc_v \in cc)
  /\ Taken(cc, bhi) <=> ~(cc_c \in cc) /\ ~(cc_z \in cc)
  /\ Taken(cc, bls) <=> cc_c \in cc \/ cc_z \in cc
  /\ Taken(cc, bgt) <=> (cc_n \in cc <=> cc_v \in cc) /\ ~(cc_z \in cc)
  /\ Taken(cc, ble) <=> ~(cc_n \in cc <=> cc_v \in cc) \/ cc_z \in cc
<1>1. _sameccf(cc, {cc_n, cc_v}) <=> (cc_n \in cc <=> cc_v \in cc)
  BY DEF _sameccf
<1>2. /\ _orccf(cc, {cc_z, cc_c}) <=> cc_c \in cc \/ cc_z \in cc
      /\ _orccf(cc, {cc_c, cc_z}) <=> cc_c \in cc \/ cc_z \in cc
  BY DEF _orccf
<1> QED BY <1>1, <1>2
        DEF Taken, bcs, bcc, beq, bne, blt, bge, bhi, bls, bgt, ble

(* Comparing numbers of any length with SUB and SBC and then branching on  *)
(* C, or on N and V, decides their order.                                  *)
THEOREM WideOrderHolds == Spec => []WideOrder
<1>1. ASSUME WideInv, op = "sub", n > 0
      PROVE  Signed(x) \in Int /\ Signed(y) \in Int /\ x \in Int /\ y \in Int
  BY <1>1 DEF WideInv, TypeOK, Signed
<1>2. WideInv => WideOrder
  BY <1>1, OrderFromFlags, TakenMeans DEF WideOrder
<1> QED BY <1>2, WideInvariant, PTL

(* Every conditional branch after CMPA or SUBA does what its name says.    *)
THEOREM ByteOrderHolds == Spec => []ByteOrder
<1>1. ASSUME WideInv, op = "sub", n = 1
      PROVE  ByteOrder
  <2>1. /\ x \in Int /\ y \in Int /\ result \in Int /\ weight \in Int
        /\ Signed(x) \in Int /\ Signed(y) \in Int
        /\ Signed(x) = Signed(y) <=> x = y
    BY <1>1 DEF WideInv, TypeOK, Signed
  <2>2. cc_z \in cc <=> x = y
    <3>1. cc_z \in cc <=> result = 0
      BY <1>1 DEF WideInv, FlagsOfWhole
    <3>2. result - weight * Carry = x - y /\ Carry \in {0, 1}
      BY <1>1 DEF WideInv, WideIsExact, Carry
    <3>3. result = 0 <=> x = y
      BY <1>1, <3>2 DEF WideInv, TypeOK
    <3> QED BY <3>1, <3>3
  <2> QED BY <1>1, <2>1, <2>2, OrderFromFlags, TakenMeans DEF ByteOrder
<1>2. WideInv => ByteOrder
  BY <1>1 DEF ByteOrder
<1> QED BY <1>2, WideInvariant, PTL

(* V after an addition tells that the signed sum does not fit.             *)
THEOREM WideOverflowHolds == Spec => []WideOverflow
<1>1. ASSUME WideInv, op = "add", n > 0
      PROVE  cc_v \in cc <=> Signed(x) + Signed(y) # Signed(result)
  <2>1. /\ weight \in Nat \ {0} /\ x \in 0..(weight - 1) /\ y \in 0..(weight - 1)
        /\ result \in 0..(weight - 1)
    BY <1>1 DEF WideInv, TypeOK
  <2>2. result = x + y \/ result + weight = x + y
    BY <1>1, <2>1 DEF WideInv, WideIsExact, Carry
  <2>3. cc_v \in cc <=> (Negative(x) <=> Negative(y)) /\ ~(Negative(x) <=> Negative(result))
    BY <1>1 DEF WideInv, FlagsOfWhole
  <2> QED BY <2>1, <2>2, <2>3 DEF Signed, Negative
<1>2. WideInv => WideOverflow
  BY <1>1 DEF WideOverflow
<1> QED BY <1>2, WideInvariant, PTL
=============================================================================

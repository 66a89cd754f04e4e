-------------------------- MODULE MCWideArithmetic --------------------------
(* WideArithmetic on the bytes at the edges of both orders, and on digits  *)
(* that carry or just do not: 00 01 09 06 40 50 49 99.                     *)
EXTENDS WideArithmetic
Edge == {0, 1, 127, 128, 200, 255}
Digits == {0, 1, 9, 6, 64, 80, 73, 153}
Clean == {{}, CcFlag}
=============================================================================

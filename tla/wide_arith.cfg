\* Numbers of up to three bytes, binary and decimal.
CONSTANTS
  Operand <- Edge
  Decimal <- Digits
  Codes <- Clean
  MaxBytes = 3
SPECIFICATION Spec
INVARIANTS TypeOK WideIsExact WideOrder ByteOrder WideOverflow DecimalIsExact
CHECK_DEADLOCK FALSE

\* Every operand of 6-bit X registers and 3-bit W registers.
CONSTANTS
  XLEN = 6
  WLEN = 3
SPECIFICATION Spec
INVARIANTS
  CarryIsUnsigned
  OverflowIsSigned
  ConditionsCompare
  ShiftsMatchArithmetic

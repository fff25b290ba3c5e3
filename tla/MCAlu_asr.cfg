CONSTANTS
  XLEN = 6
  WLEN = 3
SPECIFICATION Spec
INVARIANT AsrKeepsUnshifted

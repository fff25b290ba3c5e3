\* One load of a W register.
CONSTANTS
  XLEN = 64
  WLEN = 32
  MemBits = 5
  Images <- WordLoadImages
SPECIFICATION Spec
PROPERTIES
  WordLoadsTakeFourBytes

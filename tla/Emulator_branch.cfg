\* One conditional branch of 2^18 bytes forward, in the memory of 2 MB.
CONSTANTS
  XLEN = 64
  WLEN = 32
  MemBits = 21
  Images <- LongBranchImages
SPECIFICATION Spec
PROPERTIES
  BranchAppliesOffset

\* Every instruction and shape of operands, and two programs with all small operands.
CONSTANTS
  DYNMAP_DEFAULT_LIMIT = 30
  ValueLimit = 256
  XLEN = 64
  WLEN = 32
  MemBits = 8
  Images = {}
  Values = {1, 2, 3, 4, 5, 6, 7}
  Sources <- ToolchainSources
SPECIFICATION ToolchainFairSpec
INVARIANTS
  ProgramsCompute
PROPERTIES
  ImplementsSource
  ProgramsTerminate

\* Every three instructions of an alphabet of data processing and forward
\* branches; every three transfers, around address 4096 and the end of a
\* memory of 8192 bytes; every three branches, forward and backward.
CONSTANTS
  XLEN = 64
  WLEN = 32
  MemBits = 13
  Images <- AllImages
SPECIFICATION FairSpec
INVARIANTS
  TypeOK
  ZeroRegister
  ReportIsComplete
PROPERTIES
  ChangesOnlyItsTargets
  ProgramCounterAdvances
  StoreReadsBack
  OnlyLoopsRunForever

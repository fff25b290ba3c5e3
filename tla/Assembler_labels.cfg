\* The table of the code, and a label after 64 instructions.
CONSTANTS
  DYNMAP_DEFAULT_LIMIT = 30
  ValueLimit = 256
  Sources <- LongSources
SPECIFICATION Spec
INVARIANT LabelsAreAddresses

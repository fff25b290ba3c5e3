\* Every four lines, with a table that grows at its second label and whose
\* values go up to 7, the address of the second instruction and no further.
CONSTANTS
  DYNMAP_DEFAULT_LIMIT = 1
  ValueLimit = 8
  Sources <- ShortSources
SPECIFICATION Spec
INVARIANTS
  TypeOK
  LabelValues
PROPERTIES
  KeepsPromise

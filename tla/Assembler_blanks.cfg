\* The table of the code, and a label after a line of white space.
CONSTANTS
  DYNMAP_DEFAULT_LIMIT = 30
  ValueLimit = 256
  Sources <- BlankSources
SPECIFICATION Spec
INVARIANT LabelsAreAddresses

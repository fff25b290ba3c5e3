\* The table of the code, and a load that is not ldr.
CONSTANTS
  DYNMAP_DEFAULT_LIMIT = 30
  ValueLimit = 256
  Sources <- LoadSources
SPECIFICATION Spec
PROPERTY LoadFlagIsSet

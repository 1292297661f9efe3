CONSTANTS
  Programs <- MCLetPrograms
  ExtraCells <- MCExtraCells
  NonGcMod <- MCNonGcMod
  StackCap <- MCStackCap
SPECIFICATION Spec
PROPERTY ProgramCompletes
CHECK_DEADLOCK FALSE

CONSTANTS
  Programs <- MCEnvPrograms
  ExtraCells <- MCRoomyHeap
  NonGcMod <- MCNonGcMod
  StackCap <- MCStackCap
SPECIFICATION Spec
PROPERTY EvalRefinement
CHECK_DEADLOCK FALSE

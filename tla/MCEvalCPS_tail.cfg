CONSTANTS
  Programs <- MCTailPrograms
  ExtraCells <- MCRoomyHeap
  NonGcMod <- MCNonGcMod
  StackCap <- MCStackCap
SPECIFICATION Spec
INVARIANT StackBounded
CHECK_DEADLOCK FALSE

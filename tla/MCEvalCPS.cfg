CONSTANTS
  Programs <- MCPrograms
  ExtraCells <- MCExtraCells
  NonGcMod <- MCNonGcMod
  StackCap <- MCStackCap
SPECIFICATION Spec
INVARIANTS TypeOK StackWellFramed RootsAllocated
PROPERTIES OomStepIsUndone EvalRefinement CompletesUnlessLetSpin
CHECK_DEADLOCK FALSE

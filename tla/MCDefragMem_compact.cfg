CONSTANTS
  MemWords <- MCTightWords
  WordBytes <- MCWordBytes
  PoolBase <- MCPoolBase
  Handles <- MCHandles
  Sizes <- MCUniformSizes
  NilCar = NilCar
SPECIFICATION Spec
INVARIANT BackPointers
CHECK_DEADLOCK FALSE

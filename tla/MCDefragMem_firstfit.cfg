CONSTANTS
  MemWords <- MCFitWords
  WordBytes <- MCWordBytes
  PoolBase <- MCPoolBase
  Handles <- MCHandles
  Sizes <- MCMixedSizes
  NilCar = NilCar
SPECIFICATION Spec
PROPERTY NoSpuriousFailure
CHECK_DEADLOCK FALSE

CONSTANTS
  MemWords <- MCRoomyWords
  WordBytes <- MCWordBytes
  PoolBase <- MCPoolBase
  Handles <- MCHandles
  Sizes <- MCZeroSizes
  NilCar = NilCar
SPECIFICATION Spec
INVARIANT NoOverrun
CHECK_DEADLOCK FALSE

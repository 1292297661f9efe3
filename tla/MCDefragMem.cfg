CONSTANTS
  MemWords <- MCRoomyWords
  WordBytes <- MCWordBytes
  PoolBase <- MCPoolBase
  Handles <- MCHandles
  Sizes <- MCUniformSizes
  NilCar = NilCar
SPECIFICATION Spec
INVARIANTS TypeOK BackPointers NoOverrun
PROPERTY AllocOnHoles
CHECK_DEADLOCK FALSE

CONSTANTS
  Inputs <- MCInputs
  Ascii <- MCAscii
SPECIFICATION Spec
INVARIANTS
  TypeOK
  RoundTrip
  NoBufferOverflow
PROPERTIES
  Terminates
CHECK_DEADLOCK FALSE

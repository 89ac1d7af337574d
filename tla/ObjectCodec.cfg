SPECIFICATION Spec
CONSTANTS
  Values <- AllValues
  Public <- PublicOnes
INVARIANTS Intact FastPathSound
CHECK_DEADLOCK FALSE

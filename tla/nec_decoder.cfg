SPECIFICATION NecSpec
CONSTANTS
  BYTE_BITS = 3
  JITTER = 1
  Addresses <- TwoAddresses
INVARIANTS
  NecTypeOK
  CleanFrameDecoded
PROPERTIES
  NeverAnotherKey

SPECIFICATION ASpec
CONSTANTS
  FRAME = 2
  RING_BUFFER_LEN = 9
  RX_BUFFER_LEN = 6
  COUNT_RANGE = 8
  MAX_BYTES = 15
INVARIANTS
  GyroTypeOK
  RingIsQueue
  NeverAhead
PROPERTIES
  AnglesAdvance

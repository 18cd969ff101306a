SPECIFICATION ASpec
CONSTANTS
  MAX_POINTS = 2
  Z_MIN = 0
  Z_MAX = 3
  Z_STEP = 1
  Z_START = 1
  BASELINE_MIN = 1
  BASELINE_MAX = 5
  DEAD_BAND = 0
  MAX_COMPENSATION = 1
  UdOffsets <- Stroke
  HASTY = FALSE
  Grounds <- TwoGrounds
  GROUND_START <- LowGround
  MAX_MOVES = 1
  Passing <- NearAndFar
INVARIANTS
  MotionTypeOK
  StillGround
  MarkKeepsItsGround
  WithinLimits

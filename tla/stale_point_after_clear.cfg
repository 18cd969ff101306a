SPECIFICATION Spec
CONSTANTS
  MAX_POINTS = 2
  DURATION_MIN = 4
  DURATION_MAX = 4
  DURATION_DEFAULT = 4
  DURATION_STEP = 1
  RETURN_DELAY = 1
  FLAME_TIME = 4
  INTERVAL <- EveryTick
  COORD_MAX = 4
  MAX_LAG = 1
  LcdKeys <- ClearKeys
  IrKeys <- NoKeys
  Manual = Manual
  Parked = Parked
INVARIANTS
  RunsAtAMark

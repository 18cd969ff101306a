SPECIFICATION LSpec
CONSTANTS
  MAX_POINTS = 1
  DURATION_MIN = 4
  DURATION_MAX = 4
  DURATION_DEFAULT = 4
  DURATION_STEP = 1
  RETURN_DELAY = 1
  FLAME_TIME = 1
  INTERVAL <- EveryTick
  COORD_MAX = 2
  MAX_LAG = 1
  LcdKeys <- ClearKeys
  IrKeys <- JogBack
  LED_HALF = 1
  Manual = Manual
  Parked = Parked
INVARIANTS
  LightTypeOK
  RedMeansOutside

SPECIFICATION Spec
CONSTANTS
  MAX_POINTS = 1
  DURATION_MIN = 4
  DURATION_MAX = 5
  DURATION_DEFAULT = 4
  DURATION_STEP = 1
  RETURN_DELAY = 1
  FLAME_TIME = 6
  INTERVAL <- Uneven
  COORD_MAX = 2
  MAX_LAG = 1
  LcdKeys <- AllLcdKeys
  IrKeys <- AllIrKeys
  Manual = Manual
  Parked = Parked
INVARIANTS
  TypeOK
  SessionNeedsMarks
  TimersFollowMode
  FlameInSession
  CompleteIsStopped
  DurationsAgree

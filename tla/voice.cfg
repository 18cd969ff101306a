SPECIFICATION VSpec
CONSTANTS
  MAX_POINTS = 1
  DURATION_MIN = 4
  DURATION_MAX = 4
  DURATION_DEFAULT = 4
  DURATION_STEP = 1
  RETURN_DELAY = 1
  FLAME_TIME = 1
  INTERVAL <- EveryTick
  COORD_MAX = 2
  MAX_LAG = 1
  LcdKeys <- VoiceKeys
  IrKeys <- NoKeys
  PROMPT = 2
  Manual = Manual
  Parked = Parked
INVARIANTS
  OnePrompt
  SaysTheMode
PROPERTIES
  BusyAdvances

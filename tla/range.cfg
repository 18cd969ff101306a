SPECIFICATION SSpec
CONSTANTS
  REPLY = 3
  WINDOW = 5
  SCAN = 6
  MAX_REPLIES = 15
  MAX_DISTANCE = 8
  MAX_ALLOWED_CHANGE = 2
  Distances <- FarAndNear
CHECK_DEADLOCK FALSE
INVARIANTS
  LinkTypeOK
  WindowHoldsAReply
  FilterInHull
PROPERTIES
  DistancesAdvance

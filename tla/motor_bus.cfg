SPECIFICATION BusSpec
CONSTANTS
  Steppers <- OneStepper
  Brushless <- OneBrushless
  MAX_COMMANDS = 5
CHECK_DEADLOCK FALSE
INVARIANTS
  AcceptedStays
  DoneIsSent
PROPERTIES
  OrderedUnlessFailed
  SendReturns

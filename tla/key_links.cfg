SPECIFICATION KSpec
CONSTANTS
  MAX_PRESSES = 5
PROPERTIES
  InOrderOnce
  WaitingIsHandled

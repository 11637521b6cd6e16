SPECIFICATION StreamSpec
CONSTANTS
  Repair = FALSE
  HoldCap = 4
  MaxLines = 4
PROPERTIES HandlerReturns
CHECK_DEADLOCK FALSE

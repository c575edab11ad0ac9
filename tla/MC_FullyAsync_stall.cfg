SPECIFICATION Spec
CONSTANTS
  Total = 5
  Required = 1
  Trigger = 1
  Servers = 2
  PendingCap = 3
  MaxRequired = 2
  Modes = {TRUE}
  MaxFails = 0
PROPERTIES
  InterruptedContinue
CHECK_DEADLOCK FALSE

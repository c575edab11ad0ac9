SPECIFICATION Spec
CONSTANTS
  Total = 10
  Required = 3
  Trigger = 1
  Servers = 2
  PendingCap = 3
  MaxRequired = 4
  Modes = {FALSE}
  MaxFails = 0
INVARIANTS
  NoNewTasks
CHECK_DEADLOCK FALSE

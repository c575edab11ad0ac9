SPECIFICATION Spec
CONSTANTS
  Total = 10
  Required = 3
  Trigger = 1
  Servers = 2
  PendingCap = 3
  MaxRequired = 4
  Modes = {FALSE, TRUE}
  MaxFails = 1
INVARIANTS
  TypeOK
  InFlightBounded
  QuietWeights
  NeverUnbound
  EverySampleEnds
PROPERTIES
  VersionLag
  EventuallyEnds
CHECK_DEADLOCK FALSE

SPECIFICATION LoopSpec
CONSTANTS
  r0 = r0
  r1 = r1
  Ranks = {r0, r1}
  Total = 4
  DataLen = 4
  SaveFreq = 2
  Keep = 2
  Esi = TRUE
  MaxAttempts = 4
  MaxCrashes = 1
  Part = Part
  NoFile = NoFile
  Empty = Empty
PROPERTIES
  EventuallyTrained
CHECK_DEADLOCK FALSE

SPECIFICATION LoopSpec
CONSTANTS
  r0 = r0
  r1 = r1
  Ranks = {r0, r1}
  Total = 4
  DataLen = 4
  SaveFreq = 2
  Keep = 2
  Esi = TRUE
  MaxAttempts = 4
  MaxCrashes = 2
  Part = Part
  NoFile = NoFile
  Empty = Empty
INVARIANTS
  LoopTypeOK
  TrackedCheckpointWhole
  BatchesInStep
  AttemptKeeps
PROPERTIES
  ImplementsDurable
  TrainedUnlessCut
CHECK_DEADLOCK FALSE

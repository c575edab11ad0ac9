SPECIFICATION JobsSpec
CONSTANTS
  Manifest <- ManifestOf4
  BatchSize = 2
  NoFrames = {1}
  Broken = {4}
  MaxOoms = 2
  EvalKills = 2
  Entries <- EntriesOf3
  Chunk = 2
  PassrateKills = 2
  Tasks = 2
  Workers = 2
  Rollouts = 3
  Examples = 3
  WorkerFails = 2
  GenKills = 1
  r0 = r0
  r1 = r1
  Ranks = {r0, r1}
  Total = 3
  DataLen = 3
  SaveFreq = 1
  Keep = 0
  Esi = FALSE
  MaxAttempts = 4
  MaxCrashes = 1
  MaxStops = 2
  MaxAborts = 1
  Part = Part
  NoFile = NoFile
  Empty = Empty
INVARIANTS
  RowsPerSample
  DoneMeansAnswered
  ErrorsIsolated
  ResultsOnce
  WindowsAligned
  ResponsesOnce
  HandedOverWhole
  ManifestCounts
PROPERTIES
  VerdictStays
  EvalAnswered
  PassrateFinishes
  HandoffFinishes
CHECK_DEADLOCK FALSE

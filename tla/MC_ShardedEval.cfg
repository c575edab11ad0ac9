SPECIFICATION Spec
CONSTANTS
  s0 = s0
  s1 = s1
  g03 = g03
  g47 = g47
  Procs = {s0, s1}
  Helpers = {}
  HandPicked <- MCHandPicked
  NumShards = 2
  Shard <- MCShard
  Groups = {g03, g47}
  GroupOf <- MCGroupOf
  NumChunks = 3
  StrictCheck = TRUE
  MaxCrashes = 2
  MaxFaults = 1
  Nobody = Nobody
INVARIANTS
  TypeOK
  OneWriterPerChunk
  AllDoneMeansEvaluated
  ShardProgress
  CutWithinCrashes
PROPERTIES
  ImplementsLedger
  EventuallyEvaluated

SPECIFICATION SupSpec
CONSTANTS
  a1 = a1
  a2 = a2
  b1 = b1
  g03 = g03
  g47 = g47
  Procs = {a1, b1}
  Helpers = {a1, b1}
  HandPicked <- MCHandPicked
  NumShards = 1
  Shard <- MCShard
  Groups = {g03, g47}
  GroupOf <- MCGroupOf
  NumChunks = 3
  StrictCheck = TRUE
  MaxCrashes = 2
  MaxFaults = 1
  Order <- MCOrder
  TotalChunks = 3
INVARIANTS
  LeftMeansResults
PROPERTIES
  EveryClaimGetsResults
  EventuallyLeaves
  NoRecompute
CHECK_DEADLOCK FALSE

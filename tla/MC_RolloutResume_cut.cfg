SPECIFICATION Spec
CONSTANTS
  NumSamples = 3
  GpuCounts = {2}
  MaxAttempts = 2
  Torn = Torn
  Garbled = Garbled
  MaxCrashes = 2
PROPERTIES
  EventuallyMerged
CHECK_DEADLOCK FALSE

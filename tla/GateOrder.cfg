SPECIFICATION Spec
CONSTANTS
  a1 = a1
  a2 = a2
  s1 = s1
  Job <- ThreeJobs
  ChannelOf <- MCChannelOf
  MaxQueue = 2
  SettleTicks = 2
  MaxExecutors = 1
  Samples <- AllSamples
  AglLimits = {0, 1500}
  PowerSettings = {TRUE}
PROPERTIES
  PrintsInOrder
  SettlesBeforeOpening

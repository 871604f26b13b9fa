SPECIFICATION FairSpec
CONSTANTS
  a1 = a1
  a2 = a2
  s1 = s1
  Job <- ThreeJobs
  ChannelOf <- MCChannelOf
  MaxQueue = 1
  SettleTicks = 1
  MaxExecutors = 2
  Samples <- SettingSamples
  AglLimits = {1500}
  PowerSettings = {TRUE, FALSE}
INVARIANTS
  TypeOK
  NoStrandedJob
  HoldHasReason
  EachJobOnce
PROPERTIES
  KeepsPromise
  JobsFinish
  HazardShutsGate

SPECIFICATION Spec
CONSTANTS
  a1 = a1
  a2 = a2
  s1 = s1
  Job <- TwoJobs
  ChannelOf <- MCChannelOf
  MaxQueue = 1
  SettleTicks = 1
  MaxExecutors = 1
  Samples <- FlightSamples
  AglLimits = {1500}
  PowerSettings = {FALSE}
PROPERTIES
  NoPrintWhileSterile

SPECIFICATION FairSpec
CONSTANTS
  PumpLimit = 2
  AskEvery = 1
  MaxPipe = 1
  MaxMoves = 3
PROPERTY SampleFollowsSim
CHECK_DEADLOCK FALSE

SPECIFICATION FairSpec
CONSTANTS
  MaxOfp = 1
  Fenix = {}
  Timed = {1}
  Snapshots <- DoorSnapshots
  AirborneAfter = 1
  LandedAfter = 1
  GraceAfter = 1
  LockLimit = 1
  RollAfter = 1
  DoorAfter = 1
  EnabledChoices = {TRUE, FALSE}
  MaxEvents = 1
PROPERTIES
  LockEnds
  OfpIsHandled

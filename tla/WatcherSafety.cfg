SPECIFICATION Spec
CONSTANTS
  MaxOfp = 2
  Fenix = {2}
  Timed = {1, 2}
  Snapshots <- TaxiSnapshots
  AirborneAfter = 1
  LandedAfter = 1
  GraceAfter = 1
  LockLimit = 1
  RollAfter = 1
  DoorAfter = 1
  EnabledChoices = {TRUE}
  MaxEvents = 1
INVARIANTS
  BundleOnce
  FinalOnce
  LockHasOfp
  FlightIsSaved
  MissedFinalOwed

SPECIFICATION FairSpec
CONSTANTS
  s1 = s1  s2 = s2  s3 = s3
  Steps <- ThreeSteps
  FailureThreshold = 2
  SuccessThreshold = 2
  MaxFailures = 5
INVARIANTS
  ProbeSlotHeld
  ClosedTripsInTime
PROPERTIES
  ClosesOnEnoughSuccesses
  Recovers

CONSTANTS
  MaxInstructions = 2
  QueueLength = 1
  MaxStops = 2
  MaxCrashes = 1
  Timely = FALSE

SPECIFICATION FairSpec

INVARIANTS
  PermissionsBounded
  DistanceFollowsStop

PROPERTIES
  PermissionKept
  QueueDrains
  EndIsReported

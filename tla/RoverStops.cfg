CONSTANTS
  MaxInstructions = 3
  QueueLength = 2
  MaxStops = 1
  MaxCrashes = 1
  Timely = FALSE

SPECIFICATION Spec

INVARIANTS
  TypeOK
  OnePermission
  ReportsFollowExecution
  FeedbackInOrder
  FlushLeavesNothing

PROPERTIES
  FirstStopObeyed

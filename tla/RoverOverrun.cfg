CONSTANTS
  MaxInstructions = 3
  QueueLength = 2
  MaxStops = 1
  MaxCrashes = 0
  Timely = TRUE

SPECIFICATION Spec

PROPERTIES
  NoInstructionOverrun

SPECIFICATION Spec
CONSTANTS
  Size = 4
  StartX = 1
  StartY = 1
  QueueLength = 3
  Prompt = FALSE
  Patient = FALSE
  Careful = TRUE
  MaxActs = 2
  Modes = {0, 3}
  Targets = {6, 10}
  Steps = {3}
  Obstacles <- NoFields
INVARIANTS
  DeadReckoning
CHECK_DEADLOCK FALSE

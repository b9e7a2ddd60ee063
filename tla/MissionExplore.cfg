SPECIFICATION Spec
CONSTANTS
  Size = 6
  StartX = 3
  StartY = 3
  QueueLength = 50
  Prompt = TRUE
  Patient = TRUE
  Careful = TRUE
  MaxActs = 1
  Modes = {3}
  Targets = {7}
  Steps = {}
  Obstacles <- NoFields
INVARIANTS
  ExploresFullMap
CHECK_DEADLOCK FALSE

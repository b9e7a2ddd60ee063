SPECIFICATION Spec
CONSTANTS
  Size = 5
  StartX = 1
  StartY = 1
  QueueLength = 50
  Prompt = TRUE
  Patient = TRUE
  Careful = TRUE
  MaxActs = 1
  Modes = {0}
  Targets <- Corners
  Steps = {}
  Obstacles <- FarObstacle
INVARIANTS
  DeadReckoning
CHECK_DEADLOCK FALSE

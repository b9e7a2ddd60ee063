SPECIFICATION FairSpec
CONSTANTS
  Size = 5
  StartX = 2
  StartY = 2
  QueueLength = 50
  Prompt = TRUE
  Patient = TRUE
  Careful = TRUE
  MaxActs = 1
  Modes = {0, 2}
  Targets <- InnerTiles
  Steps = {}
  Obstacles <- TwoObstacles
INVARIANTS
  TypeOK
  DeadReckoning
  MapIsTrue
  NoCollision
  TargetReached
PROPERTIES MissionEnds
CHECK_DEADLOCK FALSE

SPECIFICATION Spec
CONSTANTS
  Size = 6
  Base = 4
  MaxObstacles = 2
  Starts = {14, 27}
INVARIANTS
  FindsShortestPath
  HeapConsistent
  ReachesDestination
  LooksAround
PROPERTIES
  VisitedIsFinal
  AvoidsObstacles
CHECK_DEADLOCK FALSE

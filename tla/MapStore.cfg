SPECIFICATION Spec
CONSTANTS
  Names = {n1, n2}
  Earlier = Earlier
  Unknown = Unknown
  MaxVersion = 3
  MaxFaults = 1
  MaxActs = 3
SYMMETRY Symmetry
CHECK_DEADLOCK FALSE
INVARIANTS TypeOK LogOfOwnRun ResetLeavesOne ShownIsSaved
PROPERTIES WrittenOnce SavedLogsKept

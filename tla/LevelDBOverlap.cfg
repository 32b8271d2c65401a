SPECIFICATION MCSpec
CONSTANTS
  Keys = {1, 2, 3}
  Writers = {w1}
  Compactor = C
  Closer = X
  Readers = {}
  Calls <- PutCalls
  Ranges <- MCRanges
  MaxOpens = 2
  MaxInputs = 7
  AnyInputs = 5
  Courses = {"overlap"}
  WriteBuffer = 0
  SlowdownTrigger = 8
  StopTrigger = 12
  GroupLimit = 2
  NumLevels = 7
  MaxMemCompactLevel = 2
  L0CompactionTrigger = 4
  MaxFileSize = 9
  GrandParentLimit = 9
  ExpandLimit = 9
  LevelBase = 9
  MaxSeq = 99
INVARIANT LevelsDisjoint
CHECK_DEADLOCK FALSE

SPECIFICATION MCSpec
CONSTANTS
  Keys = {1, 2}
  Writers = {w1}
  Compactor = C
  Closer = X
  Readers = {}
  Calls <- MCCalls
  Ranges <- MCRanges
  MaxOpens = 2
  MaxInputs = 7
  AnyInputs = 5
  Courses = {"boundary"}
  WriteBuffer = 9
  SlowdownTrigger = 8
  StopTrigger = 12
  GroupLimit = 2
  NumLevels = 7
  MaxMemCompactLevel = 2
  L0CompactionTrigger = 4
  MaxFileSize = 2
  GrandParentLimit = 9
  ExpandLimit = 9
  LevelBase = 9
  MaxSeq = 99
INVARIANT DeletedStaysDeleted
CHECK_DEADLOCK FALSE

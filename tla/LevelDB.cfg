SPECIFICATION MCSpec
CONSTANTS
  Keys = {1, 2}
  Writers = {w1, w2}
  Compactor = C
  Closer = X
  Readers = {r1}
  Calls <- MCCalls
  Ranges <- MCRanges
  MaxOpens = 2
  MaxInputs = 7
  AnyInputs = 5
  Courses = {"any", "boundary", "torn"}
  WriteBuffer = 1
  SlowdownTrigger = 1
  StopTrigger = 2
  GroupLimit = 2
  NumLevels = 3
  MaxMemCompactLevel = 1
  L0CompactionTrigger = 2
  MaxFileSize = 2
  GrandParentLimit = 1
  ExpandLimit = 3
  LevelBase = 3
  MaxSeq = 99
INVARIANTS
  TypeOK
  PutsAreFound
  
  Reopenable
  WaitersAreSignalled
PROPERTIES
  StoreSpec
  AnswersStay
SYMMETRY Symmetry
CHECK_DEADLOCK FALSE

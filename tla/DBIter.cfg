SPECIFICATION Spec
CONSTANTS
  MaxByte = 5
  MaxSequence = 20
  BlockSize = 3
  RestartInterval = 2
  FilterBase = 3
  Compressible <- MCCompressible
  FalsePositives <- MCFalse
  Databases <- MCDatabases
  Targets <- MCTargets
  Inserted <- MCInserted
  NewSequence = 10
  MaxInserts = 1
INVARIANTS TypeOK CursorIsExact NoneLeftOut GetFinds
PROPERTY ErrorsStick
CHECK_DEADLOCK FALSE

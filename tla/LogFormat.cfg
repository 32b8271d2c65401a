SPECIFICATION Spec
CONSTANTS
  BlockSize = 5
  HeaderSize = 2
  Lengths = {0, 1, 4}
  MaxRecords = 3
INVARIANTS TypeOK NothingInvented DamageIsContained CrashIsNoCorruption StartsAtOffset
CHECK_DEADLOCK FALSE

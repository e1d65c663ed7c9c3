CONSTANTS
  Names = {0, 1, 2, 3}
  NoFile = NoFile
  MaxSize = 3
  MaxFiles = 2
  Sizes = {1, 2, 4}
  MaxMsgs = 5
  DailyFiles = 1
  RotationAt = 1
  MaxTime = 7
  Lateness = 1
SPECIFICATION Spec
INVARIANTS
  Retention

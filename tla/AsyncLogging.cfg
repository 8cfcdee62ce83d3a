SPECIFICATION Spec
CONSTANTS
  BufferLen = 3
  MaxToWrite = 2
  RollSize = 2
  CheckEveryN = 2
  FlushInterval = 0
  RollPerSeconds = 2
  MaxLines = 4
  MaxTime = 3
INVARIANTS
  AssertsHold
  NothingLost
PROPERTIES
  LinesReachDisk

SPECIFICATION TSpec
CONSTANTS
  SendLens = {1}
  MaxBytes = 1
  SndBuf = 1
  HighWaterMark = 2
  MaxInput = 0
  MaxQueued = 2
  Foreign = {t1}
INVARIANT ConnectionDestroyedOnce

SPECIFICATION FairSpec
CONSTANTS
  SendLens = {1, 2}
  MaxBytes = 3
  SndBuf = 1
  HighWaterMark = 2
  MaxInput = 1
  MaxQueued = 2
INVARIANTS
  AssertsHold
  StreamIntact
  WritingIffBuffered
  FinAfterLastByte
  RegisteredIsOwned
PROPERTIES
  ShutdownCompletes
  PeerCloseReleases
  EverySendAcked

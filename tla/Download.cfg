SPECIFICATION DSpec
CONSTANTS
  SendLens = {1}
  MaxBytes = 0
  MaxQueued = 0
  HighWaterMark = 0
  SndBuf = 2
  MaxInput = 2
  FileSizes = {0, 2, 3}
  ChunkSize = 2
INVARIANTS
  ReceivedInOrder
  FinMeansWholeFile
PROPERTIES
  DownloadCompletes

SPECIFICATION FairSpec
CONSTANTS
  FileSize = 7
  ChunkSize = 5
  Forms = {"file", "fileAndField"}
  Lines = {"good", "badMethod", "badVersion"}
  Faults = {"open", "write", "flush", "insert"}
INVARIANTS
  BodyIntact
  EveryRequestAnswered
  WholeChunksStored
  RowsMatchFiles
PROPERTY
  AnsweredIsReleased
CHECK_DEADLOCK FALSE

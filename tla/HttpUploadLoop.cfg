SPECIFICATION Spec
CONSTANTS
  FileSize = 2
  ChunkSize = 5
  Forms = {"file"}
  Lines = {"good"}
  Faults = {}
INVARIANT OnMessageReturns
CHECK_DEADLOCK FALSE

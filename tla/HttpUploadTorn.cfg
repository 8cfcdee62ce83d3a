SPECIFICATION Spec
CONSTANTS
  FileSize = 2
  ChunkSize = 5
  Forms = {"file"}
  Lines = {"good"}
  Faults = {}
INVARIANT UploadStored
CHECK_DEADLOCK FALSE

SPECIFICATION Spec
CONSTANTS
  Byte = {0, 1}
  Zero = 0
  kCheapPrepend = 2
  kInitialSize = 2
  ExtraBuf = 2
  MaxLen = 2
  MaxReadable = 4
INVARIANTS
  AssertsHold
  GrowthBounded
PROPERTIES
  IsByteQueue

SPECIFICATION FairSpec
CONSTANTS
  left = left
  right = right
  Sockets = {left, right}
  None = None
  MaxBytes <- Bytes
  HighWater = 1
  ChunkSize = 1
INVARIANTS
  BackPressure
  NothingStalls
PROPERTIES
  ImplementsConnection
CHECK_DEADLOCK FALSE

SPECIFICATION DecoderSpec
CONSTANTS
  Length = 6
  MaxFrame = 2
INVARIANTS
  DecodesRightly
CHECK_DEADLOCK FALSE

SPECIFICATION FairSpec
CONSTANTS
  Socks = {g1, g2, g3}
  Uuids = {u1, u2}
  None = None
INVARIANTS
  OneConnection
  AlwaysWatched
  QuietAtEnd
PROPERTIES
  SilenceDetected
  Reconnected
  CloseCompletes
  ImplementsControl
CHECK_DEADLOCK FALSE

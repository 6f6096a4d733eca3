SPECIFICATION FairSpec
CONSTANTS
  Listeners = 3
  MaxStarts = 2
INVARIANTS
  PortsReleased
  ExitCodeTrue
PROPERTIES
  CallsSettle
  FailureEnds
CHECK_DEADLOCK FALSE

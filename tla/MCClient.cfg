SPECIFICATION FairSpec
CONSTANTS
  Tunnels = {k1}
  None = None
INVARIANTS
  WaitsWhileServed
  NobodyStranded
  TicketsHonoured
PROPERTIES
  TunnelsSettle
  ClientStops
CHECK_DEADLOCK FALSE

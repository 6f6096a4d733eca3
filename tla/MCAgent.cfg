CONSTANTS
  Tunnels = {k1}
  Retries = 2
  None = None
SPECIFICATION FairSpec
INVARIANTS RetriesWhole NobodyStranded TicketsHonoured
PROPERTIES DialsSettle AgentStops
CHECK_DEADLOCK FALSE

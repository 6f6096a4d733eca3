SPECIFICATION Spec
CONSTANTS
  Conns = {c1, c2}
  Names = {n1}
  Uuids = {u1}
  MaxPorts = 2
  Sockets = {}
  Tickets = {t1}
  MaxPending = 1
  None = None
PROPERTIES
  OfflineAgentWaits
CHECK_DEADLOCK FALSE

SPECIFICATION FairSpec
CONSTANTS
  Conns = {c1, c2}
  Names = {n1}
  Uuids = {u1}
  MaxPorts = 1
  Sockets = {s1}
  Tickets = {t1}
  MaxPending = 1
  None = None
PROPERTIES
  HandshakeEnds
  RelayStops
CHECK_DEADLOCK FALSE

SPECIFICATION Spec
CONSTANTS
  Conns = {c1, c2, c3}
  Names = {n1}
  Uuids = {u1, u2}
  MaxPorts = 2
  Sockets = {}
  Tickets = {t1}
  MaxPending = 1
  None = None
SYMMETRY Symmetry
INVARIANTS
  RoutesCurrent
  TicketsCurrent
  ReadinessTruth
  StoppedClean
PROPERTIES
  NoTakeover
CHECK_DEADLOCK FALSE

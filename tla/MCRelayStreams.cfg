SPECIFICATION Spec
CONSTANTS
  Conns = {c1, c2, c3}
  Names = {n1}
  Uuids = {u1}
  MaxPorts = 1
  Sockets = {s1, s2}
  Tickets = {t1}
  MaxPending = 1
  None = None
SYMMETRY Symmetry
INVARIANTS
  StreamsOwned
PROPERTIES
  StreamsSurvive
CHECK_DEADLOCK FALSE

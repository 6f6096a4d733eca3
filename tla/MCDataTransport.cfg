SPECIFICATION Spec
CONSTANTS
  Sessions = {x1, x2}
  Sockets = {s1, s2, s3}
  Tickets = {t1, t2, t3}
  MaxPending = 2
  None = None
SYMMETRY Symmetry
INVARIANTS
  SingleUse
  NoStrandedSocket
  JoinedByTicket
  NoOrphanedHalf
  AtRest
PROPERTIES
  ImplementsLedger
CHECK_DEADLOCK FALSE

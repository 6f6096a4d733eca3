CONSTANTS
  Tunnels = {k1}
  None = None
SPECIFICATION Spec
INVARIANT RegistersFirst
CHECK_DEADLOCK FALSE

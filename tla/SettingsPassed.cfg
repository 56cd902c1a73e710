SPECIFICATION Spec
CONSTANTS
  Tunnels = {k1}
  Clis = {c1}
  Lines <- MCLines
  Unset = Unset
  None = None
  MaxStarts = 1
  MaxOrders = 1
CHECK_DEADLOCK FALSE
INVARIANT PassedThrough
